---------------------------- MODULE KFifoProofs ----------------------------
(***************************************************************************)
(* A kfifo is the bounded queue of FifoSpec, for every width of the        *)
(* indices, every power-of-two size below half their range and every       *)
(* alphabet.                                                               *)
(*                                                                         *)
(* The argument: used(in, out) never exceeds size, so the free slots seen  *)
(* from in and the used ones seen from out are the two parts of the ring.  *)
(* A sample of the other side's index errs on the safe side (Room, Ready): *)
(* the reader only frees, the writer only fills.  So the writer copies     *)
(* into free slots (Written) without changing what is published, the       *)
(* reader copies published bytes that stay until it gives them up          *)
(* (Fetched), and only the two publishing steps change the queue.  The     *)
(* rest is arithmetic: reducing by 2^W and then by size is reducing by     *)
(* size, and a run of at most size bytes is cut in at most two pieces.     *)
(***************************************************************************)
EXTENDS KFifo, TLAPS

-----------------------------------------------------------------------------
(* Remainders.                                                             *)

(* Division with remainder.                                                *)
LEMMA DivMod ==
  ASSUME NEW n \in Nat \ {0}, NEW a \in Int
  PROVE  \E q \in Int, r \in 0 .. (n - 1) : a % n = r /\ a = n * q + r
<1>1. a % n \in 0 .. (n - 1) /\ a \div n \in Int
  OBVIOUS
<1>2. PICK q \in Int, r \in 0 .. (n - 1) : q = a \div n /\ a % n = r
  BY <1>1
<1>3. a = n * q + r
  BY <1>2
<1> QED
  BY <1>2, <1>3, Zenon

(* The remainder is the only one.                                          *)
LEMMA ModIs ==
  ASSUME NEW n \in Nat \ {0}, NEW q \in Int, NEW r \in 0 .. (n - 1)
  PROVE  (n * q + r) % n = r
OBVIOUS

(* Multiples of n do not matter.                                           *)
LEMMA ModShift ==
  ASSUME NEW n \in Nat \ {0}, NEW q \in Int, NEW a \in Int
  PROVE  (n * q + a) % n = a % n
<1>1. PICK k \in Int, r \in 0 .. (n - 1) : a % n = r /\ a = n * k + r
  BY DivMod
<1>2. n * q + a = n * (q + k) + r /\ q + k \in Int
  <2>1. n * (q + k) = n * q + n * k /\ n * q \in Int /\ n * k \in Int
    OBVIOUS
  <2> QED
    BY <1>1, <2>1
<1>3. (n * (q + k) + r) % n = r
  BY <1>2, ModIs
<1> QED
  BY <1>1, <1>2, <1>3

(* At most one turn of the ring.                                           *)
LEMMA ModNear ==
  ASSUME NEW n \in Nat \ {0}, NEW f \in 0 .. (n - 1), NEW k \in 0 .. n
  PROVE  (f + k) % n = IF f + k < n THEN f + k ELSE f + k - n
<1>1. CASE f + k < n
  <2>1. f + k = n * 0 + (f + k) /\ f + k \in 0 .. (n - 1)
    BY <1>1
  <2>2. (n * 0 + (f + k)) % n = f + k
    BY <2>1, ModIs
  <2> QED
    BY <1>1, <2>1, <2>2
<1>2. CASE ~(f + k < n)
  <2>1. f + k = n * 1 + (f + k - n) /\ f + k - n \in 0 .. (n - 1)
    BY <1>2
  <2>2. (n * 1 + (f + k - n)) % n = f + k - n
    BY <2>1, ModIs
  <2> QED
    BY <1>2, <2>1, <2>2
<1> QED
  BY <1>1, <1>2

-----------------------------------------------------------------------------
(* The indices.                                                            *)

(* The size is positive, below the range of the indices, and divides that  *)
(* range.                                                                  *)
LEMMA SizeFacts ==
  /\ size \in Nat \ {0} /\ 2^W \in Nat \ {0} /\ size < 2^W
  /\ \E k \in Nat : 2^W = size * k
<1>1. PICK n \in Nat \ {0}, k \in Nat \ {0, 1} :
        n = 2^LogSize /\ k = 2^(W - LogSize)
  BY PowerAssumption
<1>2. 2^W = n * k
  BY <1>1, PowerAssumption
<1>3. n * k \in Nat \ {0} /\ n < n * k
  OBVIOUS
<1> QED
  BY <1>1, <1>2, <1>3 DEF size

(* Reduced indices are indices and slots.                                  *)
LEMMA Reduced ==
  ASSUME NEW a \in Int
  PROVE  Wrap(a) \in Word /\ Wrap(a) \in 0 .. (2^W - 1) /\ Offset(a) \in Slots
BY SizeFacts, DivMod DEF Wrap, Offset, Word, Slots

(* Wrapping an index on the way makes no difference, to the index and to   *)
(* the slot.                                                               *)
LEMMA WrapOnce ==
  ASSUME NEW a \in Int, NEW b \in Int
  PROVE  Wrap(Wrap(a) + b) = Wrap(a + b) /\ Offset(Wrap(a) + b) = Offset(a + b)
<1>1. PICK m \in Nat \ {0}, n \in Nat \ {0}, k \in Nat :
        m = 2^W /\ n = size /\ m = n * k
  BY SizeFacts
<1>2. PICK q \in Int, r \in 0 .. (m - 1) : a % m = r /\ a = m * q + r
  BY DivMod
<1>3. r + b \in Int /\ k * q \in Int
  OBVIOUS
<1>4. a + b = m * q + (r + b) /\ a + b = n * (k * q) + (r + b)
  <2>1. m * q \in Int /\ m * q = n * (k * q)
    BY <1>1
  <2> QED
    BY <1>2, <2>1
<1>5. (m * q + (r + b)) % m = (r + b) % m
  BY <1>3, ModShift
<1>6. (n * (k * q) + (r + b)) % n = (r + b) % n
  BY <1>3, ModShift
<1> QED
  BY <1>1, <1>2, <1>4, <1>5, <1>6 DEF Wrap, Offset

(* Small numbers are not reduced.                                          *)
LEMMA WrapSmall ==
  ASSUME NEW a \in 0 .. (2^W - 1)
  PROVE  Wrap(a) = a
BY SizeFacts DEF Wrap

(* The slot k after that of index i.                                       *)
LEMMA SlotAfter ==
  ASSUME NEW i \in Int, NEW k \in 0 .. size
  PROVE  Offset(i + k) = IF Offset(i) + k < size THEN Offset(i) + k
                                                 ELSE Offset(i) + k - size
<1>1. PICK n \in Nat \ {0} : n = size
  BY SizeFacts
<1>2. PICK q \in Int, f \in 0 .. (n - 1) : i % n = f /\ i = n * q + f
  BY DivMod
<1>3. i + k = n * q + (f + k) /\ f + k \in Int /\ k \in 0 .. n
  BY <1>1, <1>2
<1>4. (n * q + (f + k)) % n = (f + k) % n
  BY <1>3, ModShift
<1> QED
  BY <1>1, <1>2, <1>3, <1>4, ModNear DEF Offset

(* Nor does wrapping an index that is subtracted.                          *)
LEMMA WrapMinus ==
  ASSUME NEW a \in Int, NEW b \in Int
  PROVE  Wrap(b - Wrap(a)) = Wrap(b - a)
<1>1. PICK m \in Nat \ {0} : m = 2^W
  BY SizeFacts
<1>2. PICK q \in Int, r \in 0 .. (m - 1) : a % m = r /\ a = m * q + r
  BY DivMod
<1>3. b - r = m * q + (b - a) /\ b - a \in Int
  <2>1. m * q \in Int
    OBVIOUS
  <2> QED
    BY <1>2, <2>1
<1>4. (m * q + (b - a)) % m = (b - a) % m
  BY <1>3, ModShift
<1> QED
  BY <1>1, <1>2, <1>3, <1>4 DEF Wrap

(* What the difference of the indices says of a ring that holds at most    *)
(* size bytes: how much there is and what is free, and how it changes.     *)
LEMMA UsedFacts ==
  ASSUME NEW i \in Word, NEW o \in Word, used(i, o) <= size
  PROVE  /\ used(i, o) \in 0 .. size
         /\ Wrap(size - i + o) = size - used(i, o)
         /\ \A k \in Int : Offset(o + used(i, o) + k) = Offset(i + k)
         /\ \A n \in 0 .. (size - used(i, o)) : used(Wrap(i + n), o) = used(i, o) + n
         /\ \A n \in 0 .. used(i, o) : used(i, Wrap(o + n)) = used(i, o) - n
<1>1. PICK m \in Nat \ {0}, s \in Nat \ {0} : m = 2^W /\ s = size /\ s < m
  BY SizeFacts
<1>2. i \in Int /\ o \in Int /\ i - o \in Int
  BY <1>1 DEF Word
<1>3. PICK u \in 0 .. (m - 1), q \in Int :
        u = used(i, o) /\ u = Wrap(i - o) /\ i - o = m * q + u
  <2>1. PICK q \in Int, u \in 0 .. (m - 1) : (i - o) % m = u /\ i - o = m * q + u
    BY <1>2, DivMod
  <2>2. u = used(i, o) /\ u = Wrap(i - o)
    BY <1>1, <2>1 DEF used, Wrap
  <2> QED
    BY <2>1, <2>2, Zenon
<1>4. u \in 0 .. s
  BY <1>1, <1>3
<1>5. Wrap(s - i + o) = s - u
  <2>1. m * q \in Int /\ m * (-q) = -(m * q) /\ -q \in Int
    OBVIOUS
  <2>2. s - i + o = m * (-q) + (s - u) /\ s - u \in 0 .. (m - 1)
    BY <1>1, <1>2, <1>3, <1>4, <2>1
  <2>3. (m * (-q) + (s - u)) % m = s - u
    BY <2>1, <2>2, ModIs
  <2> QED
    BY <1>1, <2>2, <2>3 DEF Wrap
<1>6. ASSUME NEW k \in Int PROVE Offset(o + u + k) = Offset(i + k)
  <2>1. Offset(Wrap(i - o) + (o + k)) = Offset((i - o) + (o + k))
    BY <1>2, WrapOnce
  <2>2. Wrap(i - o) + (o + k) = o + u + k /\ (i - o) + (o + k) = i + k
    BY <1>2, <1>3
  <2> QED
    BY <2>1, <2>2
<1>7. ASSUME NEW n \in 0 .. (s - u) PROVE used(Wrap(i + n), o) = u + n
  <2>1. /\ Wrap(Wrap(i + n) + (-o)) = Wrap((i + n) + (-o))
        /\ Wrap(Wrap(i - o) + n) = Wrap((i - o) + n)
    <3>1. i + n \in Int /\ -o \in Int /\ n \in Int
      BY <1>1, <1>2, <1>4
    <3> QED
      BY <1>2, <3>1, WrapOnce, Zenon
  <2>2. Wrap(i + n) \in Int
    BY <1>2, Reduced
  <2>3. /\ Wrap(i + n) + (-o) = Wrap(i + n) - o
        /\ (i + n) + (-o) = (i - o) + n
    BY <1>1, <1>2, <2>2
  <2>4. Wrap(u + n) = u + n
    BY <1>1, <1>4, WrapSmall
  <2> QED
    BY <1>3, <2>1, <2>3, <2>4 DEF used
<1>8. ASSUME NEW n \in 0 .. u PROVE used(i, Wrap(o + n)) = u - n
  <2>1. Wrap(i - Wrap(o + n)) = Wrap(i - (o + n))
    BY <1>1, <1>2, <1>4, WrapMinus
  <2>2. Wrap(Wrap(i - o) + (-n)) = Wrap((i - o) + (-n))
    BY <1>1, <1>2, <1>4, WrapOnce
  <2>3. /\ i - (o + n) = (i - o) + (-n)
        /\ u + (-n) = u - n /\ u - n \in 0 .. (2^W - 1)
    BY <1>1, <1>2, <1>4
  <2>4. Wrap(u - n) = u - n
    BY <2>3, WrapSmall
  <2> QED
    BY <1>3, <2>1, <2>2, <2>3, <2>4 DEF used
<1> QED
  BY <1>1, <1>3, <1>4, <1>5, <1>6, <1>7, <1>8

-----------------------------------------------------------------------------
(* Copying.                                                                *)

(* The first piece of n bytes at index i ends at the end of the buffer, or *)
(* is all there is.                                                        *)
LEMMA FirstPiece ==
  ASSUME NEW i \in Word, NEW n \in Nat
  PROVE  /\ first_piece(n, i) \in 0 .. n
         /\ Offset(i) + first_piece(n, i) <= size
         /\ first_piece(n, i) < n => first_piece(n, i) = size - Offset(i)
<1>1. Offset(i) \in 0 .. (size - 1) /\ size \in Nat \ {0}
  BY Reduced, SizeFacts DEF Word, Slots
<1> QED
  BY <1>1 DEF first_piece, Least

(* In the buffer c, the bytes l to n - 1 after index i are those of s, or  *)
(* those of the buffer b.                                                  *)
Holds(c, s, l, n, i) == \A k \in l .. (n - 1) : c[Offset(i + k)] = s[k + 1]
Keeps(c, b, l, n, i) == \A k \in l .. (n - 1) : c[Offset(i + k)] = b[Offset(i + k)]

(* The first memcpy of __kfifo_put.                                        *)
LEMMA CopyFirst ==
  ASSUME NEW b \in [Slots -> Bytes], NEW s \in Seq(Bytes), NEW i \in Word,
         NEW n \in 0 .. Len(s), NEW l, l = first_piece(n, i),
         NEW c, c = copied_in(b, s, 0, l, Offset(i))
  PROVE  /\ c \in [Slots -> Bytes]
         /\ Holds(c, s, 0, l, i) /\ Keeps(c, b, l, size, i)
<1>0. n \in Nat /\ i \in Int
  BY SizeFacts DEF Word
<1>1. PICK f \in 0 .. (size - 1) : f = Offset(i)
  BY <1>0, Reduced DEF Slots
<1>2. l \in 0 .. n /\ f + l <= size /\ size \in Nat \ {0}
  BY <1>0, <1>1, FirstPiece, SizeFacts
<1>3. c = [j \in Slots |-> IF j \in f .. (f + l - 1) THEN s[0 + 1 + j - f] ELSE b[j]]
  BY <1>1 DEF copied_in
<1>4. c \in [Slots -> Bytes]
  <2>1. ASSUME NEW j \in Slots, j \in f .. (f + l - 1) PROVE s[0 + 1 + j - f] \in Bytes
    <3>1. 0 + 1 + j - f \in 1 .. Len(s)
      BY <1>2, <2>1 DEF Slots
    <3> QED
      BY <3>1
  <2> QED
    BY <1>3, <2>1
<1>5. ASSUME NEW k \in 0 .. (size - 1)
      PROVE  /\ Offset(i + k) \in Slots
             /\ Offset(i + k) = IF f + k < size THEN f + k ELSE f + k - size
  <2>1. i + k \in Int /\ k \in 0 .. size
    BY <1>0, <1>2
  <2> QED
    BY <1>0, <1>1, <2>1, SlotAfter, Reduced
<1>6. ASSUME NEW k \in 0 .. (l - 1) PROVE c[Offset(i + k)] = s[k + 1]
  <2>1. k \in 0 .. (size - 1) /\ f + k < size
    BY <1>2
  <2>2. f + k \in Slots /\ f + k \in f .. (f + l - 1) /\ 0 + 1 + (f + k) - f = k + 1
    BY <1>2, <2>1 DEF Slots
  <2> QED
    BY <1>3, <1>5, <2>1, <2>2
<1>7. ASSUME NEW k \in l .. (size - 1) PROVE c[Offset(i + k)] = b[Offset(i + k)]
  <2>1. k \in 0 .. (size - 1)
    BY <1>2
  <2>2. Offset(i + k) = f + k \/ Offset(i + k) = f + k - size
    BY <1>5, <2>1
  <2>3. f + k \notin f .. (f + l - 1) /\ f + k - size \notin f .. (f + l - 1)
    BY <1>2
  <2> QED
    BY <1>3, <1>5, <2>1, <2>2, <2>3
<1> QED
  BY <1>4, <1>6, <1>7 DEF Holds, Keeps

(* The second memcpy, to the start of the buffer.                          *)
LEMMA CopyRest ==
  ASSUME NEW b \in [Slots -> Bytes], NEW s \in Seq(Bytes), NEW i \in Word,
         NEW n \in 0 .. Len(s), n <= size, NEW l, l = first_piece(n, i),
         NEW c, c = copied_in(b, s, l, n - l, 0)
  PROVE  /\ c \in [Slots -> Bytes]
         /\ Holds(c, s, l, n, i) /\ Keeps(c, b, 0, l, i) /\ Keeps(c, b, n, size, i)
<1>0. n \in Nat /\ i \in Int
  BY SizeFacts DEF Word
<1>1. PICK f \in 0 .. (size - 1) : f = Offset(i)
  BY <1>0, Reduced DEF Slots
<1>2. /\ l \in 0 .. n /\ f + l <= size /\ size \in Nat \ {0}
      /\ l < n => l = size - f
  BY <1>0, <1>1, FirstPiece, SizeFacts
<1>3. c = [j \in Slots |-> IF j \in 0 .. (0 + (n - l) - 1) THEN s[l + 1 + j - 0]
                                                       ELSE b[j]]
  BY DEF copied_in
<1>4. c \in [Slots -> Bytes]
  <2>1. ASSUME NEW j \in Slots, j \in 0 .. (0 + (n - l) - 1)
        PROVE  s[l + 1 + j - 0] \in Bytes
    <3>1. l + 1 + j - 0 \in 1 .. Len(s)
      BY <1>2, <2>1, SMTT(60) DEF Slots
    <3> QED
      BY <3>1
  <2> QED
    BY <1>3, <2>1
<1>5. ASSUME NEW k \in 0 .. (size - 1)
      PROVE  /\ Offset(i + k) \in Slots
             /\ Offset(i + k) = IF f + k < size THEN f + k ELSE f + k - size
  <2>1. i + k \in Int /\ k \in 0 .. size
    BY <1>0, <1>2
  <2> QED
    BY <1>0, <1>1, <2>1, SlotAfter, Reduced
<1>6. ASSUME NEW k \in l .. (n - 1) PROVE c[Offset(i + k)] = s[k + 1]
  <2>1. k \in 0 .. (size - 1) /\ l = size - f
    BY <1>2
  <2>2. Offset(i + k) = k - l
    BY <1>2, <1>5, <2>1
  <2>3. k - l \in Slots /\ k - l \in 0 .. (0 + (n - l) - 1) /\ l + 1 + (k - l) - 0 = k + 1
    BY <1>2, <2>1 DEF Slots
  <2> QED
    BY <1>3, <2>2, <2>3
<1>7. ASSUME NEW k \in 0 .. (l - 1) PROVE c[Offset(i + k)] = b[Offset(i + k)]
  <2>1. k \in 0 .. (size - 1) /\ f + k < size
    BY <1>2
  <2>2. Offset(i + k) = f + k
    BY <1>5, <2>1
  <2>3. f + k \notin 0 .. (0 + (n - l) - 1)
    BY <1>2
  <2> QED
    BY <1>3, <1>5, <2>1, <2>2, <2>3
<1>8. ASSUME NEW k \in n .. (size - 1) PROVE c[Offset(i + k)] = b[Offset(i + k)]
  <2>1. k \in 0 .. (size - 1)
    BY <1>2
  <2>2. Offset(i + k) \notin 0 .. (0 + (n - l) - 1)
    BY <1>2, <1>5, <2>1, SMTT(60)
  <2> QED
    BY <1>3, <1>5, <2>1, <2>2
<1> QED
  BY <1>4, <1>6, <1>7, <1>8 DEF Holds, Keeps

(* A sequence that starts with p and goes on with q.                       *)
LEMMA Joined ==
  ASSUME NEW S, NEW p \in Seq(S), NEW q \in Seq(S), NEW g \in Seq(S),
         Len(g) = Len(p) + Len(q),
         \A j \in 1 .. Len(p) : g[j] = p[j],
         \A j \in 1 .. Len(q) : g[Len(p) + j] = q[j]
  PROVE  g = p \o q
<1>1. p \o q \in Seq(S) /\ Len(p \o q) = Len(g)
  OBVIOUS
<1>2. ASSUME NEW j \in 1 .. Len(g) PROVE g[j] = (p \o q)[j]
  <2>1. CASE j <= Len(p)
    BY <2>1
  <2>2. CASE j > Len(p)
    <3>1. PICK k \in 1 .. Len(q) : j = Len(p) + k
      <4>1. j - Len(p) \in 1 .. Len(q) /\ j = Len(p) + (j - Len(p))
        BY <2>2
      <4> QED
        BY <4>1
    <3>2. g[j] = q[k]
      BY <3>1
    <3>3. (p \o q)[j] = q[k]
      BY <3>1
    <3> QED
      BY <3>2, <3>3
  <2> QED
    BY <2>1, <2>2
<1> QED
  BY <1>1, <1>2, SMTT(60)

(* The data of the calls are the byte sequences of length up to MaxLen.    *)
LEMMA DataFacts ==
  /\ \A s \in Data : s \in Seq(Bytes) /\ Len(s) \in 0 .. MaxLen
  /\ \A s \in Seq(Bytes) : Len(s) <= MaxLen => s \in Data
  /\ <<>> \in Data
<1>0. MaxLen \in Nat
  BY KFifoAssumption
<1>1. ASSUME NEW s \in Data PROVE s \in Seq(Bytes) /\ Len(s) \in 0 .. MaxLen
  <2>1. PICK n \in 0 .. MaxLen : s \in [1 .. n -> Bytes]
    BY DEF Data
  <2> QED
    BY <1>0, <2>1
<1>2. ASSUME NEW s \in Seq(Bytes), Len(s) <= MaxLen PROVE s \in Data
  <2>1. Len(s) \in 0 .. MaxLen /\ s \in [1 .. Len(s) -> Bytes]
    BY <1>0, <1>2
  <2> QED
    BY <2>1 DEF Data
<1>3. <<>> \in Seq(Bytes) /\ Len(<<>>) <= MaxLen
  BY <1>0
<1> QED
  BY <1>1, <1>2, <1>3

-----------------------------------------------------------------------------
(* The bytes between the indices o and i.                                  *)
Bytes_in(b, i, o) == [j \in 1 .. used(i, o) |-> b[Offset(o + j - 1)]]

(* They are a sequence, and all that matters of the buffer are its slots   *)
(* between the indices; seen from i, those after the free ones.            *)
LEMMA BytesIn ==
  ASSUME NEW b \in [Slots -> Bytes], NEW i \in Word, NEW o \in Word,
         used(i, o) <= size
  PROVE  /\ Bytes_in(b, i, o) \in Seq(Bytes)
         /\ Len(Bytes_in(b, i, o)) = used(i, o)
         /\ \A j \in 1 .. used(i, o) : Bytes_in(b, i, o)[j] = b[Offset(o + j - 1)]
         /\ \A c : Keeps(c, b, size - used(i, o), size, i) =>
                     Keeps(c, b, 0, used(i, o), o)
<1>1. PICK u \in 0 .. size : u = used(i, o)
  BY UsedFacts
<1>2. i \in Int /\ o \in Int /\ size \in Nat \ {0}
  BY SizeFacts DEF Word
<1>3. ASSUME NEW k \in 0 .. (u - 1)
      PROVE  /\ (size - u) + k \in (size - u) .. (size - 1)
             /\ Offset(o + k) = Offset(i + ((size - u) + k))
  <2>1. /\ o + k \in Int /\ (size - u) + k \in (size - u) .. (size - 1)
        /\ (size - u) + k \in Int
    BY <1>1, <1>2
  <2>2. Offset(o + u + ((size - u) + k)) = Offset(i + ((size - u) + k))
    BY <1>1, <2>1, UsedFacts
  <2>3. o + u + ((size - u) + k) = (o + k) + size
    BY <1>1, <1>2
  <2>4. PICK f \in 0 .. (size - 1) : f = Offset(o + k)
    BY <2>1, Reduced DEF Slots
  <2>5. Offset((o + k) + size) = f
    BY <1>2, <2>1, <2>4, SlotAfter
  <2> QED
    BY <2>1, <2>2, <2>3, <2>4, <2>5
<1>4. Bytes_in(b, i, o) = [j \in 1 .. u |-> b[Offset(o + j - 1)]]
  BY <1>1 DEF Bytes_in
<1>5. \A j \in 1 .. u : Offset(o + j - 1) \in Slots
  BY <1>1, <1>2, Reduced
<1>6. Bytes_in(b, i, o) \in Seq(Bytes) /\ Len(Bytes_in(b, i, o)) = u
  BY <1>1, <1>2, <1>4, <1>5
<1>7. \A c : Keeps(c, b, size - u, size, i) => Keeps(c, b, 0, u, o)
  BY <1>3 DEF Keeps
<1> QED
  BY <1>1, <1>4, <1>6, <1>7

(* n bytes of s copied behind index i and published.                       *)
LEMMA BytesPut ==
  ASSUME NEW b \in [Slots -> Bytes], NEW c \in [Slots -> Bytes],
         NEW i \in Word, NEW o \in Word, used(i, o) <= size,
         NEW s \in Seq(Bytes), NEW n \in 0 .. Len(s), n <= size - used(i, o),
         Holds(c, s, 0, n, i), Keeps(c, b, n, size, i)
  PROVE  /\ Wrap(i + n) \in Word /\ used(Wrap(i + n), o) = used(i, o) + n
         /\ Bytes_in(c, Wrap(i + n), o) = Bytes_in(b, i, o) \o SubSeq(s, 1, n)
<1>1. PICK u \in 0 .. size : u = used(i, o)
  BY UsedFacts
<1>2. /\ i \in Int /\ o \in Int /\ size \in Nat \ {0} /\ n \in Nat /\ i + n \in Int
      /\ u \in Nat
  BY <1>1, SizeFacts DEF Word
<1>3. n \in 0 .. (size - u)
  BY <1>1, <1>2
<1>4. PICK p \in Word : p = Wrap(i + n) /\ used(p, o) = u + n
  BY <1>1, <1>2, <1>3, UsedFacts, Reduced
<1>5. PICK q \in Seq(Bytes) :
        /\ q = Bytes_in(b, i, o) /\ Len(q) = u
        /\ \A j \in 1 .. u : q[j] = b[Offset(o + j - 1)]
  BY <1>1, BytesIn
<1>6. PICK r \in Seq(Bytes) :
        r = SubSeq(s, 1, n) /\ Len(r) = n /\ \A j \in 1 .. n : r[j] = s[j]
  <2>1. SubSeq(s, 1, n) \in Seq(Bytes) /\ Len(SubSeq(s, 1, n)) = n
    BY <1>2
  <2>2. \A j \in 1 .. n : SubSeq(s, 1, n)[j] = s[j]
    BY <1>2
  <2> QED
    BY <2>1, <2>2
<1>7. PICK g \in Seq(Bytes) :
        /\ g = Bytes_in(c, p, o) /\ Len(g) = u + n
        /\ \A j \in 1 .. (u + n) : g[j] = c[Offset(o + j - 1)]
  <2>1. used(p, o) <= size
    BY <1>2, <1>3, <1>4
  <2>2. /\ Bytes_in(c, p, o) \in Seq(Bytes) /\ Len(Bytes_in(c, p, o)) = used(p, o)
        /\ \A j \in 1 .. used(p, o) : Bytes_in(c, p, o)[j] = c[Offset(o + j - 1)]
    BY <2>1, BytesIn
  <2> QED
    BY <1>4, <2>2
<1>8. ASSUME NEW j \in 1 .. u PROVE g[j] = q[j]
  <2>1. Keeps(c, b, size - u, size, i)
    <3>1. \A k \in (size - u) .. (size - 1) : k \in n .. (size - 1)
      BY <1>2, <1>3
    <3> QED
      BY <3>1 DEF Keeps
  <2>2. Keeps(c, b, 0, u, o)
    BY <1>1, <2>1, BytesIn
  <2>3. j - 1 \in 0 .. (u - 1) /\ o + (j - 1) = o + j - 1 /\ j \in 1 .. (u + n)
    BY <1>1, <1>2, SMTT(60)
  <2> QED
    BY <1>5, <1>7, <2>2, <2>3 DEF Keeps
<1>9. ASSUME NEW j \in 1 .. n PROVE g[u + j] = r[j]
  <2>1. PICK k \in 0 .. (n - 1) : j = k + 1
    <3>1. j - 1 \in 0 .. (n - 1) /\ j = (j - 1) + 1
      BY <1>2
    <3> QED
      BY <3>1
  <2>2. o + (u + j) - 1 = o + u + k /\ u + j \in 1 .. (u + n) /\ k \in Int
    BY <1>2, <2>1
  <2>3. Offset(o + u + k) = Offset(i + k)
    BY <1>1, <2>2, UsedFacts
  <2>4. c[Offset(i + k)] = s[k + 1]
    BY DEF Holds
  <2> QED
    BY <1>6, <1>7, <2>1, <2>2, <2>3, <2>4
<1>10. g = q \o r
  <2>1. /\ Len(g) = Len(q) + Len(r)
        /\ \A j \in 1 .. Len(q) : g[j] = q[j]
        /\ \A j \in 1 .. Len(r) : g[Len(q) + j] = r[j]
    BY <1>5, <1>6, <1>7, <1>8, <1>9
  <2> QED
    BY <2>1, Joined
<1> QED
  BY <1>1, <1>4, <1>5, <1>6, <1>7, <1>10

(* d is a copy of the bytes of b from index o on.                          *)
Copy(d, b, o) == \A j \in 1 .. Len(d) : d[j] = b[Offset(o + j - 1)]

(* The bytes of d, copied from index o, are the first of those between the *)
(* indices, and giving them up leaves the others.                          *)
LEMMA BytesGet ==
  ASSUME NEW b \in [Slots -> Bytes], NEW i \in Word, NEW o \in Word,
         used(i, o) <= size, NEW d \in Seq(Bytes), Len(d) <= used(i, o), Copy(d, b, o)
  PROVE  /\ Wrap(o + Len(d)) \in Word
         /\ used(i, Wrap(o + Len(d))) = used(i, o) - Len(d)
         /\ Bytes_in(b, i, o) = d \o Bytes_in(b, i, Wrap(o + Len(d)))
<1>1. PICK u \in 0 .. size, n \in Nat : u = used(i, o) /\ n = Len(d)
  BY UsedFacts
<1>2. /\ i \in Int /\ o \in Int /\ size \in Nat \ {0} /\ o + n \in Int /\ n \in 0 .. u
      /\ u \in Nat
  BY <1>1, SizeFacts DEF Word
<1>3. PICK p \in Word : p = Wrap(o + n) /\ used(i, p) = u - n
  BY <1>1, <1>2, UsedFacts, Reduced
<1>4. PICK q \in Seq(Bytes) :
        /\ q = Bytes_in(b, i, p) /\ Len(q) = u - n
        /\ \A j \in 1 .. (u - n) : q[j] = b[Offset(p + j - 1)]
  <2>1. used(i, p) <= size
    BY <1>1, <1>2, <1>3
  <2>2. /\ Bytes_in(b, i, p) \in Seq(Bytes) /\ Len(Bytes_in(b, i, p)) = used(i, p)
        /\ \A j \in 1 .. used(i, p) : Bytes_in(b, i, p)[j] = b[Offset(p + j - 1)]
    BY <2>1, BytesIn
  <2> QED
    BY <1>3, <2>2
<1>5. PICK g \in Seq(Bytes) :
        /\ g = Bytes_in(b, i, o) /\ Len(g) = u
        /\ \A j \in 1 .. u : g[j] = b[Offset(o + j - 1)]
  BY <1>1, BytesIn
<1>6. ASSUME NEW j \in 1 .. n PROVE g[j] = d[j]
  <2>1. j \in 1 .. u
    BY <1>2
  <2> QED
    BY <1>1, <1>5, <2>1 DEF Copy
<1>7. ASSUME NEW j \in 1 .. (u - n) PROVE g[n + j] = q[j]
  <2>1. /\ o + (n + j) - 1 = (o + n) + (j - 1) /\ j - 1 \in Int /\ n + j \in 1 .. u
    BY <1>1, <1>2
  <2>2. Offset(p + (j - 1)) = Offset((o + n) + (j - 1))
    BY <1>2, <1>3, <2>1, WrapOnce
  <2>3. p + (j - 1) = p + j - 1
    BY <1>2, SizeFacts DEF Word
  <2> QED
    BY <1>4, <1>5, <2>1, <2>2, <2>3, SMTT(60)
<1>8. Len(g) = n + Len(q)
  BY <1>2, <1>4, <1>5
<1>9. g = d \o q
  <2>1. /\ Len(g) = Len(d) + Len(q)
        /\ \A j \in 1 .. Len(d) : g[j] = d[j]
        /\ \A j \in 1 .. Len(q) : g[Len(d) + j] = q[j]
    BY <1>1, <1>4, <1>6, <1>7, <1>8
  <2> QED
    BY <2>1, Joined
<1> QED
  BY <1>1, <1>3, <1>4, <1>5, <1>9

(* Equal indices: the fifo is empty.                                       *)
LEMMA BytesNone ==
  ASSUME NEW b, NEW i \in Word
  PROVE  used(i, i) = 0 /\ Bytes_in(b, i, i) = <<>>
<1>1. i \in Int /\ i - i = 0 /\ 0 \in 0 .. (2^W - 1)
  BY SizeFacts DEF Word
<1>2. used(i, i) = 0
  BY <1>1, WrapSmall DEF used
<1>3. 1 .. 0 = {}
  OBVIOUS
<1> QED
  BY <1>2, <1>3 DEF Bytes_in

(* A function on 1..n is a sequence of length n.                           *)
LEMMA SeqIntro ==
  ASSUME NEW S, NEW n \in Nat, NEW f \in [1 .. n -> S]
  PROVE  f \in Seq(S) /\ Len(f) = n
OBVIOUS

(* The type of a concatenation.                                            *)
LEMMA ConcatIs ==
  ASSUME NEW S, NEW p \in Seq(S), NEW q \in Seq(S)
  PROVE  p \o q \in Seq(S) /\ Len(p \o q) = Len(p) + Len(q)
OBVIOUS

(* What __kfifo_get has after its first memcpy, and after the second.      *)
OneCopy(n, o)  == copied_out(first_piece(n, o), Offset(o))
TwoCopies(n, o) == OneCopy(n, o) \o copied_out(n - first_piece(n, o), 0)

(* The n bytes from index o on, in two pieces.                             *)
LEMMA CopyOut ==
  ASSUME buffer \in [Slots -> Bytes], NEW o \in Word, NEW n \in 0 .. size
  PROVE  /\ OneCopy(n, o) \in Seq(Bytes) /\ Len(OneCopy(n, o)) = first_piece(n, o)
         /\ Copy(OneCopy(n, o), buffer, o)
         /\ TwoCopies(n, o) \in Seq(Bytes) /\ Len(TwoCopies(n, o)) = n
         /\ Copy(TwoCopies(n, o), buffer, o)
<1> DEFINE l == first_piece(n, o)
           d == OneCopy(n, o)
           e == TwoCopies(n, o)
<1>a. d = copied_out(l, Offset(o)) /\ e = d \o copied_out(n - l, 0)
  BY DEF OneCopy, TwoCopies
<1>b. l = first_piece(n, o)
  OBVIOUS
<1> HIDE DEF l, d, e
<1>0. n \in Nat /\ o \in Int /\ size \in Nat \ {0}
  BY SizeFacts DEF Word
<1>1. PICK f \in 0 .. (size - 1) : f = Offset(o)
  BY <1>0, Reduced DEF Slots
<1>2. l \in 0 .. n /\ f + l <= size /\ l \in Nat /\ (l < n => l = size - f)
  BY <1>b, <1>0, <1>1, FirstPiece
<1>3. d = [j \in 1 .. l |-> buffer[f + j - 1]]
  BY <1>a, <1>1 DEF copied_out
<1>4. PICK g : g = copied_out(n - l, 0)
  OBVIOUS
<1>5. g = [j \in 1 .. (n - l) |-> buffer[0 + j - 1]]
  BY <1>4 DEF copied_out
<1>6. \A j \in 1 .. l : f + j - 1 \in Slots
  BY <1>0, <1>2 DEF Slots
<1>7. \A j \in 1 .. (n - l) : 0 + j - 1 \in Slots
  BY <1>0, <1>2 DEF Slots
<1>8. d \in Seq(Bytes) /\ Len(d) = l
  <2>1. d \in [1 .. l -> Bytes]
    BY <1>3, <1>6
  <2> QED
    BY <1>2, <2>1, SeqIntro
<1>9. g \in Seq(Bytes) /\ Len(g) = n - l
  <2>1. g \in [1 .. (n - l) -> Bytes]
    BY <1>5, <1>7
  <2>2. n - l \in Nat
    BY <1>0, <1>2
  <2> QED
    BY <2>1, <2>2, SeqIntro
<1>10. ASSUME NEW j \in 1 .. n
       PROVE  Offset(o + j - 1) = IF f + (j - 1) < size THEN f + (j - 1)
                                                        ELSE f + (j - 1) - size
  <2>1. j - 1 \in 0 .. size /\ o + (j - 1) = o + j - 1
    BY <1>0
  <2> QED
    BY <1>0, <1>1, <2>1, SlotAfter
<1>11. ASSUME NEW j \in 1 .. l PROVE d[j] = buffer[Offset(o + j - 1)]
  <2>1. j \in 1 .. n /\ f + (j - 1) < size /\ f + (j - 1) = f + j - 1
    BY <1>0, <1>2
  <2> QED
    BY <1>3, <1>10, <2>1
<1>12. ASSUME NEW j \in 1 .. (n - l) PROVE g[j] = buffer[Offset(o + (l + j) - 1)]
  <2>1. l + j \in 1 .. n /\ l = size - f
    BY <1>0, <1>2
  <2>2. ~(f + ((l + j) - 1) < size) /\ f + ((l + j) - 1) - size = 0 + j - 1
    BY <1>0, <2>1
  <2> QED
    BY <1>5, <1>10, <2>1, <2>2
<1>13. /\ e \in Seq(Bytes) /\ Len(e) = n
       /\ \A j \in 1 .. l : e[j] = d[j]
       /\ \A j \in 1 .. (n - l) : e[l + j] = g[j]
  <2>1. e = d \o g
    BY <1>a, <1>4
  <2>2. e \in Seq(Bytes) /\ Len(e) = n
    <3>1. d \o g \in Seq(Bytes) /\ Len(d \o g) = Len(d) + Len(g)
      BY <1>8, <1>9, ConcatIs
    <3>2. l + (n - l) = n
      BY <1>0, <1>2
    <3> QED
      BY <1>8, <1>9, <2>1, <3>1, <3>2, Zenon
  <2>3. \A j \in 1 .. l : e[j] = d[j]
    BY <1>8, <1>9, <2>1
  <2>4. ASSUME NEW j \in 1 .. (n - l) PROVE e[l + j] = g[j]
    <3>1. j \in 1 .. Len(g) /\ Len(d) + j = l + j
      BY <1>8, <1>9
    <3>2. (d \o g)[Len(d) + j] = g[j]
      BY <1>8, <1>9, <3>1
    <3> QED
      BY <2>1, <3>1, <3>2
  <2> QED
    BY <2>2, <2>3, <2>4
<1>14. ASSUME NEW j \in 1 .. n PROVE e[j] = buffer[Offset(o + j - 1)]
  <2>1. CASE j \in 1 .. l
    BY <1>11, <1>13, <2>1
  <2>2. CASE j \notin 1 .. l
    <3>1. PICK k \in 1 .. (n - l) : j = l + k
      <4>1. j - l \in 1 .. (n - l) /\ j = l + (j - l)
        BY <1>0, <1>2, <2>2
      <4> QED
        BY <4>1
    <3> QED
      BY <1>12, <1>13, <3>1
  <2> QED
    BY <2>1, <2>2
<1> QED
  BY <1>8, <1>11, <1>13, <1>14 DEF Copy, l, d, e

-----------------------------------------------------------------------------
(* The ring never holds more than it has room for.                         *)
Bounded == used(in, out) <= size

(* Under the lock a call is a step, so no call is under way.               *)
LockIdle == locked => wpc = "idle" /\ rpc = "idle"

(* The sample of the other side's index may be old: what was free then is  *)
(* free still, and what was there to read is there still.                  *)
Room  == wpc # "idle" => wlen <= size - used(in, out)
Ready == rpc # "idle" => rlen <= used(in, out)

(* What the writer and the reader have copied so far.                      *)
Written ==
  /\ wpc = "rest" => Holds(buffer, src, 0, first_piece(wlen, in), in)
  /\ wpc = "publish" => Holds(buffer, src, 0, wlen, in)

Fetched ==
  /\ rpc \in {"rest", "publish"} => Copy(dst, buffer, out)
  /\ rpc = "rest" => Len(dst) = first_piece(rlen, out)
  /\ rpc = "publish" => Len(dst) = rlen

Inv == TypeOK /\ Bounded /\ LockIdle /\ Room /\ Ready /\ Written /\ Fetched

(* A step is allowed by the abstract fifo.                                 *)
FifoStep == [fifo!Put \/ fifo!Get \/ fifo!Reset]_<<contents, io>>

(* The published bytes are those between the indices.                      *)
LEMMA ContentsIs == contents = Bytes_in(buffer, in, out)
BY DEF contents, Bytes_in, used

(* What the parts of Inv say, ready for use.                               *)
LEMMA InvFacts ==
  ASSUME Inv
  PROVE  /\ buffer \in [Slots -> Bytes] /\ in \in Word /\ out \in Word
         /\ used(in, out) \in 0 .. size /\ used(in, out) <= size
         /\ src \in Seq(Bytes) /\ Len(src) \in 0 .. MaxLen /\ wlen \in 0 .. Len(src)
         /\ dst \in Seq(Bytes) /\ Len(dst) \in 0 .. MaxLen /\ rlen \in 0 .. MaxLen
         /\ size \in Nat \ {0} /\ MaxLen \in Nat
BY UsedFacts, DataFacts, SizeFacts, KFifoAssumption DEF Inv, TypeOK, Bounded

(* The writer copies behind the published bytes only.                      *)
LEMMA PublishedStay ==
  ASSUME Inv, NEW c, NEW n \in Nat, n <= size - used(in, out),
         Keeps(c, buffer, n, size, in)
  PROVE  /\ Bytes_in(c, in, out) = Bytes_in(buffer, in, out)
         /\ \A d \in Seq(Bytes) :
              Copy(d, buffer, out) /\ Len(d) <= used(in, out) => Copy(d, c, out)
<1>0. /\ buffer \in [Slots -> Bytes] /\ in \in Word /\ out \in Word
      /\ size \in Nat \ {0} /\ out \in Int
  BY InvFacts, SizeFacts DEF Word
<1>1. PICK u \in 0 .. size : u = used(in, out) /\ u <= size
  BY InvFacts
<1>2. Keeps(c, buffer, size - u, size, in)
  <2>1. \A k \in (size - u) .. (size - 1) : k \in n .. (size - 1)
    BY <1>0, <1>1
  <2> QED
    BY <2>1 DEF Keeps
<1>3. Keeps(c, buffer, 0, u, out)
  BY <1>0, <1>1, <1>2, BytesIn
<1>4. \A j \in 1 .. u : c[Offset(out + j - 1)] = buffer[Offset(out + j - 1)]
  <2>1. \A j \in 1 .. u : j - 1 \in 0 .. (u - 1) /\ out + (j - 1) = out + j - 1
    BY <1>0, <1>1
  <2> QED
    BY <1>3, <2>1 DEF Keeps
<1>5. Bytes_in(c, in, out) = Bytes_in(buffer, in, out)
  BY <1>1, <1>4 DEF Bytes_in
<1>6. ASSUME NEW d \in Seq(Bytes), Copy(d, buffer, out), Len(d) <= u
      PROVE  Copy(d, c, out)
  <2>1. \A j \in 1 .. Len(d) : j \in 1 .. u
    BY <1>0, <1>1, <1>6
  <2> QED
    BY <1>4, <1>6, <2>1 DEF Copy
<1> QED
  BY <1>1, <1>5, <1>6

-----------------------------------------------------------------------------
(* The writer.                                                             *)

(* A step that leaves contents and io alone.                               *)
LEMMA Silent ==
  ASSUME Bytes_in(buffer', in', out') = Bytes_in(buffer, in, out), io' = io
  PROVE  FifoStep
<1>1. contents' = Bytes_in(buffer', in', out')
  BY DEF contents, Bytes_in, used, Wrap, Offset, size
<1> QED
  BY <1>1, ContentsIs DEF FifoStep

(* __kfifo_put takes what it is offered or what fits.                      *)
LEMMA PutLen ==
  ASSUME Inv, NEW len \in Nat
  PROVE  put_len(len) \in 0 .. len /\ put_len(len) <= size - used(in, out)
<1>1. Wrap(size - in + out) = size - used(in, out) /\ used(in, out) \in 0 .. size
      /\ size \in Nat \ {0}
  BY InvFacts, UsedFacts
<1> QED
  BY <1>1 DEF put_len, Least

(* __kfifo_put computes how much it can take: that much is free.           *)
LEMMA PutSampleStep ==
  ASSUME Inv, NEW s \in Data, put_sample(s)
  PROVE  Inv' /\ FifoStep
<1>1. /\ ~locked /\ src' = s /\ wlen' = put_len(Len(s)) /\ wpc' = "first"
      /\ UNCHANGED <<locked, buffer, in, out, rpc, dst, rlen, io>>
  BY DEF put_sample, rvars
<1>2. Len(s) \in Nat
  BY DataFacts
<1>3. wlen' \in 0 .. Len(s) /\ wlen' <= size - used(in, out)
  BY <1>1, <1>2, PutLen
<1>4. TypeOK'
  BY <1>1, <1>3 DEF Inv, TypeOK, Pcs
<1>5. Bounded' /\ Ready' /\ Fetched'
  BY <1>1 DEF Inv, Bounded, Ready, Fetched
<1>6. LockIdle' /\ Room' /\ Written'
  BY <1>1, <1>3 DEF LockIdle, Room, Written
<1>7. FifoStep
  BY <1>1, Silent
<1> QED
  BY <1>4, <1>5, <1>6, <1>7 DEF Inv

(* The copies of the writer change no byte that is published or that the   *)
(* reader has fetched.                                                     *)
LEMMA PutCopyStep ==
  ASSUME Inv, NEW c \in [Slots -> Bytes], buffer' = c,
         wpc # "idle", wpc' # "idle", wpc' \in Pcs,
         Keeps(c, buffer, wlen, size, in), Written',
         UNCHANGED <<locked, in, out, src, wlen, rpc, dst, rlen, io>>
  PROVE  Inv' /\ FifoStep
<1>1. wlen \in Nat /\ wlen <= size - used(in, out) /\ ~locked
  BY InvFacts DEF Inv, Room, LockIdle
<1>2. /\ Bytes_in(c, in, out) = Bytes_in(buffer, in, out)
      /\ \A d \in Seq(Bytes) :
           Copy(d, buffer, out) /\ Len(d) <= used(in, out) => Copy(d, c, out)
  BY <1>1, PublishedStay
<1>3. TypeOK'
  BY DEF Inv, TypeOK
<1>4. Bounded' /\ Ready' /\ Room' /\ LockIdle'
  BY <1>1 DEF Inv, Bounded, Ready, Room, LockIdle
<1>5. Fetched'
  <2>1. rpc \in {"rest", "publish"} => Len(dst) <= rlen /\ rlen <= used(in, out)
    <3>1. rlen \in Nat /\ out \in Word
      BY InvFacts
    <3>2. first_piece(rlen, out) <= rlen
      BY <3>1, FirstPiece
    <3> QED
      BY <3>1, <3>2 DEF Inv, Fetched, Ready
  <2>2. rpc \in {"rest", "publish"} => Len(dst) <= used(in, out)
    BY <2>1, InvFacts, SizeFacts
  <2>3. dst \in Seq(Bytes)
    BY InvFacts
  <2> QED
    BY <1>2, <2>2, <2>3 DEF Inv, Fetched
<1>6. FifoStep
  BY <1>2, Silent
<1> QED
  BY <1>3, <1>4, <1>5, <1>6 DEF Inv

(* __kfifo_put copies to the end of the buffer.                            *)
LEMMA PutFirstStep ==
  ASSUME Inv, put_first
  PROVE  Inv' /\ FifoStep
<1>1. /\ wpc = "first" /\ wpc' = "rest"
      /\ buffer' = copied_in(buffer, src, 0, first_piece(wlen, in), Offset(in))
      /\ UNCHANGED <<locked, in, out, src, wlen, rpc, dst, rlen, io>>
  BY DEF put_first, rvars
<1>2. PICK l, c : l = first_piece(wlen, in) /\ c = buffer'
  OBVIOUS
<1>3. /\ c \in [Slots -> Bytes]
      /\ Holds(c, src, 0, l, in) /\ Keeps(c, buffer, l, size, in)
  BY <1>1, <1>2, InvFacts, CopyFirst
<1>4. Keeps(c, buffer, wlen, size, in)
  <2>1. l \in 0 .. wlen /\ wlen \in Nat /\ size \in Nat
    BY <1>2, InvFacts, FirstPiece
  <2>2. \A k \in wlen .. (size - 1) : k \in l .. (size - 1)
    BY <2>1
  <2> QED
    BY <1>3, <2>2 DEF Keeps
<1>5. Written'
  BY <1>1, <1>2, <1>3 DEF Written, first_piece, Least, Offset, size, Holds
<1> QED
  BY <1>1, <1>2, <1>3, <1>4, <1>5, PutCopyStep DEF Pcs

(* __kfifo_put copies what is left to the start of the buffer.             *)
LEMMA PutRestStep ==
  ASSUME Inv, put_rest
  PROVE  Inv' /\ FifoStep
<1>1. /\ wpc = "rest" /\ wpc' = "publish"
      /\ buffer' = copied_in(buffer, src, first_piece(wlen, in),
                             wlen - first_piece(wlen, in), 0)
      /\ UNCHANGED <<locked, in, out, src, wlen, rpc, dst, rlen, io>>
  BY DEF put_rest, rvars
<1>2. PICK l, c : l = first_piece(wlen, in) /\ c = buffer'
  OBVIOUS
<1>3. l \in 0 .. wlen /\ wlen \in Nat /\ wlen <= size
  <2>1. wlen \in Nat /\ in \in Word /\ used(in, out) \in 0 .. size /\ size \in Nat
    BY InvFacts
  <2>2. wlen <= size - used(in, out)
    BY <1>1 DEF Inv, Room
  <2> QED
    BY <1>2, <2>1, <2>2, FirstPiece
<1>4. /\ c \in [Slots -> Bytes]
      /\ Holds(c, src, l, wlen, in) /\ Keeps(c, buffer, 0, l, in)
      /\ Keeps(c, buffer, wlen, size, in)
  BY <1>1, <1>2, <1>3, InvFacts, CopyRest
<1>5. Holds(buffer, src, 0, l, in)
  BY <1>1, <1>2 DEF Inv, Written
<1>6. Holds(c, src, 0, wlen, in)
  <2>1. \A k \in 0 .. (wlen - 1) : k \in 0 .. (l - 1) \/ k \in l .. (wlen - 1)
    BY <1>3
  <2> QED
    BY <1>4, <1>5, <2>1 DEF Holds, Keeps
<1>7. Written'
  BY <1>1, <1>2, <1>6 DEF Written, Holds, Offset, size
<1> QED
  BY <1>1, <1>2, <1>4, <1>7, PutCopyStep DEF Pcs


(* A step that publishes the bytes of d is a put of the abstract fifo.     *)
LEMMA PutIs ==
  ASSUME buffer' \in [Slots -> Bytes], in' \in Word, out' \in Word,
         used(in', out') <= size, NEW d, io' = <<"put", d>>,
         Bytes_in(buffer', in', out') = Bytes_in(buffer, in, out) \o d
  PROVE  FifoStep
<1>1. contents' = Bytes_in(buffer', in', out')
  BY DEF contents, Bytes_in, used, Wrap, Offset, size
<1>2. Len(contents') <= size
  BY <1>1, BytesIn
<1> QED
  BY <1>1, <1>2, ContentsIs DEF FifoStep, fifo!Put

(* A step that gives up the bytes of d is a get of the abstract fifo.      *)
LEMMA GetIs ==
  ASSUME NEW d, io' = <<"get", d>>,
         Bytes_in(buffer, in, out) = d \o Bytes_in(buffer', in', out')
  PROVE  FifoStep
<1>1. contents' = Bytes_in(buffer', in', out')
  BY DEF contents, Bytes_in, used, Wrap, Offset, size
<1> QED
  BY <1>1, ContentsIs DEF FifoStep, fifo!Get

(* __kfifo_put moves in: the bytes it copied join the queue.               *)
LEMMA PutPublishStep ==
  ASSUME Inv, put_publish
  PROVE  Inv' /\ FifoStep
<1>1. /\ wpc = "publish" /\ in' = Wrap(in + wlen)
      /\ io' = <<"put", SubSeq(src, 1, wlen)>>
      /\ wpc' = "idle" /\ src' = <<>> /\ wlen' = 0
      /\ UNCHANGED <<locked, buffer, out, rpc, dst, rlen>>
  BY DEF put_publish, rvars
<1>2. wlen <= size - used(in, out) /\ Holds(buffer, src, 0, wlen, in)
  BY <1>1 DEF Inv, Room, Written
<1>3. Keeps(buffer, buffer, wlen, size, in)
  BY DEF Keeps
<1>4. /\ in' \in Word /\ used(in', out) = used(in, out) + wlen
      /\ Bytes_in(buffer, in', out) = Bytes_in(buffer, in, out) \o SubSeq(src, 1, wlen)
  <2>1. /\ buffer \in [Slots -> Bytes] /\ in \in Word /\ out \in Word
        /\ used(in, out) <= size /\ src \in Seq(Bytes) /\ wlen \in 0 .. Len(src)
    BY InvFacts
  <2>2. /\ Wrap(in + wlen) \in Word
        /\ used(Wrap(in + wlen), out) = used(in, out) + wlen
        /\ Bytes_in(buffer, Wrap(in + wlen), out) =
             Bytes_in(buffer, in, out) \o SubSeq(src, 1, wlen)
    BY <1>2, <1>3, <2>1, BytesPut
  <2> QED
    BY <1>1, <2>2
<1>5. used(in', out') = used(in, out) + wlen /\ used(in', out') <= size
      /\ used(in, out) <= used(in', out')
  BY <1>1, <1>2, <1>4, InvFacts
<1>6. SubSeq(src, 1, wlen) \in Data
  <2>1. SubSeq(src, 1, wlen) \in Seq(Bytes) /\ Len(SubSeq(src, 1, wlen)) = wlen
    BY InvFacts
  <2>2. wlen <= MaxLen
    BY InvFacts
  <2> QED
    BY <2>1, <2>2, DataFacts
<1>7. TypeOK'
  <2>1. src' \in Data /\ wlen' \in 0 .. Len(src')
    BY <1>1, DataFacts
  <2>2. io' \in {"init", "put", "get"} \X Data
    BY <1>1, <1>6
  <2> QED
    BY <1>1, <1>4, <2>1, <2>2 DEF Inv, TypeOK, Pcs
<1>8. Bounded'
  BY <1>5 DEF Bounded, used, Wrap, size
<1>9. Ready'
  <2>1. rlen \in Nat /\ used(in, out) \in Nat /\ used(in', out') \in Int
    BY <1>5, InvFacts
  <2>2. rpc' # "idle" => rlen' <= used(in', out')
    BY <1>1, <1>5, <2>1 DEF Inv, Ready
  <2> QED
    BY <2>2 DEF Ready, used, Wrap
<1>10. LockIdle' /\ Room' /\ Written'
  BY <1>1 DEF Inv, LockIdle, Room, Written
<1>11. Fetched'
  BY <1>1 DEF Inv, Fetched, Copy, first_piece, Least, Offset, size
<1>12. FifoStep
  BY <1>1, <1>4, <1>5, InvFacts, PutIs
<1> QED
  BY <1>7, <1>8, <1>9, <1>10, <1>11, <1>12 DEF Inv

-----------------------------------------------------------------------------
(* The reader.                                                             *)

(* __kfifo_get computes how much there is: that much stays there.          *)
LEMMA GetSampleStep ==
  ASSUME Inv, NEW len \in 0 .. MaxLen, get_sample(len)
  PROVE  Inv' /\ FifoStep
<1>1. /\ ~locked /\ rpc = "idle" /\ rlen' = Least(len, used(in, out)) /\ rpc' = "first"
      /\ UNCHANGED <<locked, buffer, in, out, wpc, src, wlen, dst, io>>
  BY DEF get_sample, wvars
<1>2. rlen' \in 0 .. MaxLen /\ rlen' <= used(in, out)
  BY <1>1, InvFacts DEF Least
<1>3. TypeOK'
  BY <1>1, <1>2 DEF Inv, TypeOK, Pcs
<1>4. Bounded' /\ Room' /\ Written'
  BY <1>1 DEF Inv, Bounded, Room, Written
<1>5. LockIdle' /\ Ready' /\ Fetched'
  BY <1>1, <1>2 DEF LockIdle, Ready, Fetched
<1>6. FifoStep
  BY <1>1, Silent
<1> QED
  BY <1>3, <1>4, <1>5, <1>6 DEF Inv

(* A copy of the reader changes nothing but dst and rpc.                   *)
LEMMA GetCopyStep ==
  ASSUME Inv, rpc # "idle", rpc' # "idle", rpc' \in Pcs,
         dst' \in Seq(Bytes), Len(dst') <= rlen, Fetched',
         UNCHANGED <<locked, buffer, in, out, wpc, src, wlen, rlen, io>>
  PROVE  Inv' /\ FifoStep
<1>1. dst' \in Data
  <2>1. Len(dst') \in Nat
    OBVIOUS
  <2> QED
    BY <2>1, InvFacts, DataFacts
<1>2. TypeOK'
  BY <1>1 DEF Inv, TypeOK
<1>3. Bounded' /\ LockIdle' /\ Room' /\ Ready' /\ Written'
  BY DEF Inv, Bounded, LockIdle, Room, Ready, Written
<1>4. FifoStep
  BY Silent
<1> QED
  BY <1>2, <1>3, <1>4 DEF Inv

(* What the reader has sampled fits the ring.                              *)
LEMMA ReadFits ==
  ASSUME Inv, rpc # "idle"
  PROVE  rlen \in 0 .. size /\ rlen <= used(in, out) /\ out \in Word
                            /\ first_piece(rlen, out) \in 0 .. rlen
<1>1. /\ rlen \in Nat /\ used(in, out) \in 0 .. size /\ size \in Nat
      /\ out \in Word
  BY InvFacts
<1>2. rlen <= used(in, out)
  BY DEF Inv, Ready
<1> QED
  BY <1>1, <1>2, FirstPiece

(* __kfifo_get copies up to the end of the buffer.                         *)
LEMMA GetFirstStep ==
  ASSUME Inv, get_first
  PROVE  Inv' /\ FifoStep
<1>1. /\ rpc = "first" /\ rpc' = "rest"
      /\ dst' = copied_out(first_piece(rlen, out), Offset(out))
      /\ UNCHANGED <<locked, buffer, in, out, wpc, src, wlen, rlen, io>>
  BY DEF get_first, wvars
<1>2. /\ rlen \in 0 .. size /\ out \in Word /\ first_piece(rlen, out) \in 0 .. rlen
      /\ buffer \in [Slots -> Bytes] /\ rlen \in Nat
  BY <1>1, ReadFits, InvFacts
<1>3. /\ dst' \in Seq(Bytes) /\ Len(dst') = first_piece(rlen, out)
      /\ Copy(dst', buffer, out)
  BY <1>1, <1>2, CopyOut DEF OneCopy
<1>4. Fetched'
  BY <1>1, <1>3 DEF Fetched, Copy, first_piece, Least, Offset, size
<1>5. Len(dst') <= rlen
  BY <1>2, <1>3
<1> QED
  BY <1>1, <1>3, <1>4, <1>5, GetCopyStep DEF Pcs

(* __kfifo_get copies what is left from the start of the buffer.           *)
LEMMA GetRestStep ==
  ASSUME Inv, get_rest
  PROVE  Inv' /\ FifoStep
<1>1. /\ rpc = "rest" /\ rpc' = "publish"
      /\ dst' = dst \o copied_out(rlen - Len(dst), 0)
      /\ UNCHANGED <<locked, buffer, in, out, wpc, src, wlen, rlen, io>>
  BY DEF get_rest, wvars
<1>2. /\ rlen \in 0 .. size /\ out \in Word /\ first_piece(rlen, out) \in 0 .. rlen
      /\ buffer \in [Slots -> Bytes] /\ rlen \in Nat /\ dst \in Seq(Bytes)
  BY <1>1, ReadFits, InvFacts
<1>3. PICK l, d, e :
        l = first_piece(rlen, out) /\ d = OneCopy(rlen, out) /\ e = TwoCopies(rlen, out)
  OBVIOUS
<1>4. /\ d \in Seq(Bytes) /\ Len(d) = l /\ Copy(d, buffer, out)
      /\ e \in Seq(Bytes) /\ Len(e) = rlen /\ Copy(e, buffer, out)
  BY <1>2, <1>3, CopyOut
<1>5. Len(dst) = l /\ Copy(dst, buffer, out)
  BY <1>1, <1>3 DEF Inv, Fetched
<1>6. dst = d
  <2>1. Len(dst) = Len(d) /\ \A j \in 1 .. Len(d) : dst[j] = d[j]
    BY <1>4, <1>5 DEF Copy
  <2> QED
    BY <1>2, <1>4, <2>1
<1>7. dst' = e
  BY <1>1, <1>3, <1>5, <1>6 DEF TwoCopies
<1>8. Fetched'
  BY <1>1, <1>4, <1>7 DEF Fetched, Copy, Offset, size
<1>9. dst' \in Seq(Bytes) /\ Len(dst') <= rlen
  BY <1>2, <1>4, <1>7
<1> QED
  BY <1>1, <1>8, <1>9, GetCopyStep DEF Pcs

(* __kfifo_get moves out: the bytes it copied leave the queue.             *)
LEMMA GetPublishStep ==
  ASSUME Inv, get_publish
  PROVE  Inv' /\ FifoStep
<1>1. /\ rpc = "publish" /\ out' = Wrap(out + rlen) /\ io' = <<"get", dst>>
      /\ rpc' = "idle" /\ dst' = <<>> /\ rlen' = 0
      /\ UNCHANGED <<locked, buffer, in, wpc, src, wlen>>
  BY DEF get_publish, wvars
<1>2. /\ Copy(dst, buffer, out) /\ Len(dst) = rlen /\ rlen <= used(in, out)
  BY <1>1 DEF Inv, Fetched, Ready
<1>3. /\ out' \in Word /\ used(in, out') = used(in, out) - rlen
      /\ Bytes_in(buffer, in, out) = dst \o Bytes_in(buffer, in, out')
  <2>1. /\ buffer \in [Slots -> Bytes] /\ in \in Word /\ out \in Word
        /\ used(in, out) <= size /\ dst \in Seq(Bytes)
    BY InvFacts
  <2> QED
    BY <1>1, <1>2, <2>1, BytesGet
<1>4. /\ used(in', out') = used(in, out) - rlen /\ used(in', out') <= used(in, out)
      /\ used(in, out) \in 0 .. size /\ rlen \in Nat /\ size \in Nat
  BY <1>1, <1>3, InvFacts
<1>5. TypeOK'
  <2>1. dst' \in Data /\ rlen' \in 0 .. MaxLen
    BY <1>1, DataFacts, KFifoAssumption
  <2>2. io' \in {"init", "put", "get"} \X Data
    BY <1>1 DEF Inv, TypeOK
  <2> QED
    BY <1>1, <1>3, <2>1, <2>2 DEF Inv, TypeOK, Pcs
<1>6. Bounded'
  <2>1. used(in', out') <= size
    BY <1>4
  <2> QED
    BY <2>1 DEF Bounded, used, Wrap, size
<1>7. Room'
  <2>1. wlen \in Nat
    BY InvFacts
  <2>2. wpc' # "idle" => wlen' <= size - used(in', out')
    BY <1>1, <1>4, <2>1 DEF Inv, Room
  <2> QED
    BY <2>2 DEF Room, used, Wrap, size
<1>8. LockIdle' /\ Ready' /\ Fetched'
  BY <1>1 DEF Inv, LockIdle, Ready, Fetched
<1>9. Written'
  BY <1>1 DEF Inv, Written, Holds, first_piece, Least, Offset, size
<1>10. FifoStep
  BY <1>1, <1>3, GetIs
<1> QED
  BY <1>5, <1>6, <1>7, <1>8, <1>9, <1>10 DEF Inv

-----------------------------------------------------------------------------
(* Under the lock.                                                         *)

(* With no call under way the indices and the buffer are all there is.     *)
LEMMA LockedStep ==
  ASSUME Inv, wpc = "idle", rpc = "idle", UNCHANGED <<locked, wvars, rvars>>,
         buffer' \in [Slots -> Bytes], in' \in Word, out' \in Word,
         used(in', out') <= size, io' \in {"init", "put", "get"} \X Data
  PROVE  Inv'
<1>1. UNCHANGED <<locked, wpc, src, wlen, rpc, dst, rlen>>
  BY DEF wvars, rvars
<1>2. TypeOK'
  BY <1>1 DEF Inv, TypeOK
<1>3. Bounded'
  BY DEF Bounded, used, Wrap, size
<1>4. LockIdle' /\ Room' /\ Ready' /\ Written' /\ Fetched'
  BY <1>1 DEF LockIdle, Room, Ready, Written, Fetched
<1> QED
  BY <1>2, <1>3, <1>4 DEF Inv

(* kfifo_put, whole: both copies and the new index.                        *)
LEMMA LockedPutStep ==
  ASSUME Inv, NEW s \in Data, kfifo_put(s)
  PROVE  Inv' /\ FifoStep
<1>1. PICK n, l, b, c :
        /\ n = put_len(Len(s)) /\ l = first_piece(n, in)
        /\ b = copied_in(buffer, s, 0, l, Offset(in))
        /\ c = copied_in(b, s, l, n - l, 0)
  OBVIOUS
<1>2. /\ locked /\ buffer' = c /\ in' = Wrap(in + n) /\ io' = <<"put", SubSeq(s, 1, n)>>
      /\ UNCHANGED <<locked, out, wvars, rvars>>
  BY <1>1 DEF kfifo_put
<1>3. /\ buffer \in [Slots -> Bytes] /\ in \in Word /\ out \in Word
      /\ used(in, out) <= size /\ used(in, out) \in 0 .. size /\ size \in Nat
      /\ s \in Seq(Bytes) /\ Len(s) \in 0 .. MaxLen /\ MaxLen \in Nat
  BY InvFacts, DataFacts
<1>4. n \in 0 .. Len(s) /\ n <= size - used(in, out) /\ n \in Nat
  BY <1>1, <1>3, PutLen
<1>5. l \in 0 .. n /\ n <= size
  BY <1>1, <1>3, <1>4, FirstPiece
<1>6. b \in [Slots -> Bytes] /\ Holds(b, s, 0, l, in) /\ Keeps(b, buffer, l, size, in)
  BY <1>1, <1>3, <1>4, CopyFirst
<1>7. /\ c \in [Slots -> Bytes] /\ Holds(c, s, l, n, in)
      /\ Keeps(c, b, 0, l, in) /\ Keeps(c, b, n, size, in)
  BY <1>1, <1>3, <1>4, <1>5, <1>6, CopyRest
<1>8. Holds(c, s, 0, n, in)
  <2>1. \A k \in 0 .. (n - 1) : k \in 0 .. (l - 1) \/ k \in l .. (n - 1)
    BY <1>4, <1>5
  <2> QED
    BY <1>6, <1>7, <2>1 DEF Holds, Keeps
<1>9. Keeps(c, buffer, n, size, in)
  <2>1. \A k \in n .. (size - 1) : k \in l .. (size - 1)
    BY <1>3, <1>4, <1>5
  <2> QED
    BY <1>6, <1>7, <2>1 DEF Keeps
<1>10. /\ in' \in Word /\ used(in', out) = used(in, out) + n
       /\ Bytes_in(c, in', out) = Bytes_in(buffer, in, out) \o SubSeq(s, 1, n)
  <2>1. /\ Wrap(in + n) \in Word /\ used(Wrap(in + n), out) = used(in, out) + n
        /\ Bytes_in(c, Wrap(in + n), out) =
             Bytes_in(buffer, in, out) \o SubSeq(s, 1, n)
    BY <1>3, <1>4, <1>7, <1>8, <1>9, BytesPut
  <2> QED
    BY <1>2, <2>1
<1>11. used(in', out') <= size
  BY <1>2, <1>3, <1>4, <1>10
<1>12. io' \in {"init", "put", "get"} \X Data
  <2>1. SubSeq(s, 1, n) \in Seq(Bytes) /\ Len(SubSeq(s, 1, n)) = n /\ n <= MaxLen
    BY <1>3, <1>4
  <2>2. SubSeq(s, 1, n) \in Data
    BY <2>1, DataFacts
  <2> QED
    BY <1>2, <2>2
<1>13. Inv'
  <2>1. wpc = "idle" /\ rpc = "idle"
    BY <1>2 DEF Inv, LockIdle
  <2> QED
    BY <1>2, <1>3, <1>7, <1>10, <1>11, <1>12, <2>1, LockedStep
<1>14. FifoStep
  BY <1>2, <1>3, <1>7, <1>10, <1>11, PutIs
<1> QED
  BY <1>13, <1>14

(* kfifo_get, whole: both copies and the new index, or the indices back at *)
(* 0 when the fifo is empty.                                               *)
LEMMA LockedGetStep ==
  ASSUME Inv, NEW len \in 0 .. MaxLen, kfifo_get(len)
  PROVE  Inv' /\ FifoStep
<1>1. PICK n, o, e :
        n = Least(len, used(in, out)) /\ o = Wrap(out + n) /\ e = TwoCopies(n, out)
  OBVIOUS
<1>2. /\ locked /\ io' = <<"get", e>>
      /\ in' = (IF in = o THEN 0 ELSE in) /\ out' = (IF in = o THEN 0 ELSE o)
      /\ UNCHANGED <<locked, buffer, wvars, rvars>>
  BY <1>1 DEF kfifo_get, TwoCopies, OneCopy
<1>3. /\ buffer \in [Slots -> Bytes] /\ in \in Word /\ out \in Word
      /\ used(in, out) <= size /\ used(in, out) \in 0 .. size /\ size \in Nat
      /\ MaxLen \in Nat
  BY InvFacts
<1>4. n \in 0 .. size /\ n <= used(in, out) /\ n <= MaxLen
  BY <1>1, <1>3 DEF Least
<1>5. e \in Seq(Bytes) /\ Len(e) = n /\ Copy(e, buffer, out)
  BY <1>1, <1>3, <1>4, CopyOut
<1>6. /\ o \in Word /\ used(in, o) = used(in, out) - n
      /\ Bytes_in(buffer, in, out) = e \o Bytes_in(buffer, in, o)
  <2>1. /\ Wrap(out + Len(e)) \in Word
        /\ used(in, Wrap(out + Len(e))) = used(in, out) - Len(e)
        /\ Bytes_in(buffer, in, out) = e \o Bytes_in(buffer, in, Wrap(out + Len(e)))
    BY <1>3, <1>4, <1>5, BytesGet
  <2> QED
    BY <1>1, <1>5, <2>1
<1>7. 0 \in Word
  BY SizeFacts DEF Word
<1>8. /\ in' \in Word /\ out' \in Word /\ used(in', out') = used(in, o)
      /\ Bytes_in(buffer', in', out') = Bytes_in(buffer, in, o)
  <2>1. CASE in = o
    BY <1>2, <1>3, <1>7, <2>1, BytesNone
  <2>2. CASE in # o
    BY <1>2, <1>3, <1>6, <2>2
  <2> QED
    BY <2>1, <2>2
<1>9. used(in', out') <= size
  BY <1>3, <1>4, <1>6, <1>8
<1>10. io' \in {"init", "put", "get"} \X Data
  BY <1>2, <1>4, <1>5, DataFacts
<1>11. Inv'
  <2>1. wpc = "idle" /\ rpc = "idle"
    BY <1>2 DEF Inv, LockIdle
  <2> QED
    BY <1>2, <1>3, <1>8, <1>9, <1>10, <2>1, LockedStep
<1>12. FifoStep
  BY <1>2, <1>6, <1>8, GetIs
<1> QED
  BY <1>11, <1>12

(* kfifo_reset empties the queue.                                          *)
LEMMA ResetStep ==
  ASSUME Inv, kfifo_reset
  PROVE  Inv' /\ FifoStep
<1>1. /\ wpc = "idle" /\ rpc = "idle" /\ in' = 0 /\ out' = 0
      /\ UNCHANGED <<locked, buffer, wvars, rvars>> /\ io' = io
  BY DEF kfifo_reset
<1>2. 0 \in Word /\ size \in Nat
  BY SizeFacts DEF Word
<1>3. used(in', out') = 0 /\ Bytes_in(buffer', in', out') = <<>>
  BY <1>1, <1>2, BytesNone
<1>4. Inv'
  <2>1. /\ buffer' \in [Slots -> Bytes] /\ io' \in {"init", "put", "get"} \X Data
    BY <1>1 DEF Inv, TypeOK
  <2>2. used(in', out') <= size
    BY <1>2, <1>3
  <2> QED
    BY <1>1, <1>2, <2>1, <2>2, LockedStep
<1>5. contents' = <<>>
  BY <1>3 DEF contents, Bytes_in, used, Wrap, Offset, size
<1> QED
  BY <1>1, <1>4, <1>5 DEF FifoStep, fifo!Reset

-----------------------------------------------------------------------------
(* The first state: an empty fifo, and nobody using it.                    *)
LEMMA InvInit == Init => Inv /\ fifo!FifoInit
<1> SUFFICES ASSUME Init PROVE Inv /\ fifo!FifoInit
  OBVIOUS
<1>1. /\ locked \in BOOLEAN /\ buffer \in [Slots -> Bytes] /\ in = 0 /\ out = 0
      /\ wpc = "idle" /\ src = <<>> /\ wlen = 0
      /\ rpc = "idle" /\ dst = <<>> /\ rlen = 0 /\ io = <<"init", <<>> >>
  BY DEF Init
<1>2. 0 \in Word /\ size \in Nat
  BY SizeFacts DEF Word
<1>3. used(in, out) = 0 /\ Bytes_in(buffer, in, out) = <<>>
  BY <1>1, <1>2, BytesNone
<1>4. TypeOK
  <2>1. src \in Data /\ dst \in Data /\ wlen \in 0 .. Len(src) /\ rlen \in 0 .. MaxLen
    BY <1>1, DataFacts, KFifoAssumption
  <2>2. io \in {"init", "put", "get"} \X Data
    BY <1>1, DataFacts
  <2> QED
    BY <1>1, <1>2, <2>1, <2>2 DEF TypeOK, Pcs
<1>5. Bounded
  BY <1>2, <1>3 DEF Bounded
<1>6. LockIdle /\ Room /\ Ready /\ Written /\ Fetched
  BY <1>1 DEF LockIdle, Room, Ready, Written, Fetched
<1> QED
  BY <1>1, <1>3, <1>4, <1>5, <1>6, ContentsIs DEF Inv, fifo!FifoInit

(* Every step keeps the invariant and is a step of the abstract fifo.      *)
LEMMA InvNext == Inv /\ [Next]_vars => Inv' /\ FifoStep
<1> SUFFICES ASSUME Inv, [Next]_vars PROVE Inv' /\ FifoStep
  OBVIOUS
<1>1. CASE UNCHANGED vars
  <2>1. UNCHANGED <<locked, buffer, in, out, wpc, src, wlen, rpc, dst, rlen, io>>
    BY <1>1 DEF vars, wvars, rvars
  <2>2. Inv'
    BY <2>1 DEF Inv, TypeOK, Bounded, LockIdle, Room, Ready, Written, Fetched
  <2>3. FifoStep
    BY <2>1, Silent
  <2> QED
    BY <2>2, <2>3
<1>2. CASE \E s \in Data : put_sample(s) \/ kfifo_put(s)
  BY <1>2, PutSampleStep, LockedPutStep, Zenon
<1>3. CASE \E len \in 0 .. MaxLen : get_sample(len) \/ kfifo_get(len)
  BY <1>3, GetSampleStep, LockedGetStep, Zenon
<1>4. CASE put_first \/ put_rest \/ put_publish
  BY <1>4, PutFirstStep, PutRestStep, PutPublishStep, Zenon
<1>5. CASE get_first \/ get_rest \/ get_publish
  BY <1>5, GetFirstStep, GetRestStep, GetPublishStep, Zenon
<1>6. CASE kfifo_reset
  BY <1>6, ResetStep, Zenon
<1> QED
  BY <1>1, <1>2, <1>3, <1>4, <1>5, <1>6 DEF Next

(* The invariant holds in every state.                                     *)
LEMMA InvHolds == Spec => []Inv
BY InvInit, InvNext, PTL DEF Spec

(* The indices, the lengths and the data keep their types: in particular   *)
(* put_publish never publishes more than it was given.                     *)
THEOREM KFifoTypeOK == Spec => []TypeOK
<1>1. Inv => TypeOK
  BY DEF Inv
<1> QED
  BY <1>1, InvHolds, PTL

(* A kfifo, shared by one reader and one writer without a lock or by any   *)
(* number of callers under fifo->lock, is a bounded queue of bytes.        *)
THEOREM KFifoImplementsFifo == Spec => ImplementsFifo
<1>1. Init => fifo!FifoInit
  BY InvInit
<1>2. Inv /\ [Next]_vars => [fifo!Put \/ fifo!Get \/ fifo!Reset]_<<contents, io>>
  BY InvNext DEF FifoStep
<1> QED
  BY <1>1, <1>2, InvHolds, PTL DEF Spec, ImplementsFifo, fifo!FifoSpec

=============================================================================
