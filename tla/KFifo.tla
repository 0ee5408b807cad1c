------------------------------- MODULE KFifo -------------------------------
(***************************************************************************)
(* kernel/kfifo.c: a ring of bytes between a reader and a writer.  The     *)
(* indices run freely over the word and are reduced when the buffer is     *)
(* accessed.                                                               *)
(*                                                                         *)
(* A fifo is used in one of two ways.  Without a lock, by one reader and   *)
(* one writer: each samples the index of the other, copies in two pieces   *)
(* and publishes its own index, and the barriers keep these in order.  Or  *)
(* under fifo->lock, where each call is one step; kfifo_get then also      *)
(* takes the indices back to 0 when the fifo is empty.                     *)
(***************************************************************************)
EXTENDS Integers, Sequences

CONSTANTS Bytes,
          W,        \* width of the indices
          LogSize,  \* the buffer has 2^LogSize bytes
          MaxLen    \* bound on the len argument of the calls

(* kfifo_alloc stops at 0x80000000, half the range of the indices.         *)
ASSUME KFifoAssumption ==
  /\ W \in Nat /\ LogSize \in Nat /\ MaxLen \in Nat
  /\ LogSize < W

(* The arithmetic of powers of two that the proofs need: true of every     *)
(* LogSize < W, but the provers do not know the operator ^.                *)
ASSUME PowerAssumption ==
  /\ 2^LogSize \in Nat \ {0} /\ 2^(W - LogSize) \in Nat \ {0, 1}
  /\ 2^W = 2^LogSize * 2^(W - LogSize)

size == 2^LogSize
Word == 0..(2^W - 1)
Slots == 0..(size - 1)

VARIABLES
  locked,           \* is this fifo used under fifo->lock?
  buffer, in, out,  \* struct kfifo
  wpc, src, wlen,   \* the writer in __kfifo_put: its data, the length copied
  rpc, dst, rlen,   \* the reader in __kfifo_get: what it has copied so far
  io                \* the last call to return, and the bytes it moved

wvars == <<wpc, src, wlen>>
rvars == <<rpc, dst, rlen>>
vars  == <<locked, buffer, in, out, wvars, rvars, io>>

Pcs == {"idle", "first", "rest", "publish"}

(* kfifo_init; any value of equal indices is reached by putting and        *)
(* getting.                                                                *)
Init ==
  /\ locked \in BOOLEAN
  /\ buffer \in [Slots -> Bytes]
  /\ in = 0 /\ out = 0
  /\ wpc = "idle" /\ src = <<>> /\ wlen = 0
  /\ rpc = "idle" /\ dst = <<>> /\ rlen = 0
  /\ io = <<"init", <<>> >>

Least(a, b) == IF a <= b THEN a ELSE b

\* defect: the indices do not wrap
Wrap_never(n) == n

Wrap(n) == n % 2^W
Offset(i) == i % size

used(i, o) == Wrap(i - o)

\* defect: the free space is computed on the reduced indices
put_len_reduced(len) == Least(len, size - Offset(in) + Offset(out))

(* The bytes __kfifo_put accepts of len.                                   *)
put_len(len) == Least(len, Wrap(size - in + out))

(* The length of the first of the two pieces when len bytes are copied at  *)
(* index i.                                                                *)
first_piece(len, i) == Least(len, size - Offset(i))

(* b with the n bytes of s after the first k copied to offset o.           *)
copied_in(b, s, k, n, o) ==
  [j \in Slots |-> IF j \in o..(o + n - 1) THEN s[k + 1 + j - o] ELSE b[j]]

copied_out(n, o) == [j \in 1..n |-> buffer[o + j - 1]]

Data == UNION {[1..n -> Bytes] : n \in 0..MaxLen}

-----------------------------------------------------------------------------
(* Without a lock: the writer.                                             *)
put_sample(s) ==
  /\ ~locked /\ wpc = "idle"
  /\ src' = s
  /\ wlen' = put_len(Len(s))
  /\ wpc' = "first"
  /\ UNCHANGED <<locked, buffer, in, out, rvars, io>>

put_first ==
  /\ wpc = "first"
  /\ buffer' = copied_in(buffer, src, 0, first_piece(wlen, in), Offset(in))
  /\ wpc' = "rest"
  /\ UNCHANGED <<locked, in, out, src, wlen, rvars, io>>

put_rest ==
  /\ wpc = "rest"
  /\ LET l == first_piece(wlen, in)
     IN  buffer' = copied_in(buffer, src, l, wlen - l, 0)
  /\ wpc' = "publish"
  /\ UNCHANGED <<locked, in, out, src, wlen, rvars, io>>

put_publish ==
  /\ wpc = "publish"
  /\ in' = Wrap(in + wlen)
  /\ io' = <<"put", SubSeq(src, 1, wlen)>>
  /\ wpc' = "idle" /\ src' = <<>> /\ wlen' = 0
  /\ UNCHANGED <<locked, buffer, out, rvars>>

-----------------------------------------------------------------------------
(* Without a lock: the reader.                                             *)
get_sample(len) ==
  /\ ~locked /\ rpc = "idle"
  /\ rlen' = Least(len, used(in, out))
  /\ rpc' = "first"
  /\ UNCHANGED <<locked, buffer, in, out, wvars, dst, io>>

get_first ==
  /\ rpc = "first"
  /\ dst' = copied_out(first_piece(rlen, out), Offset(out))
  /\ rpc' = "rest"
  /\ UNCHANGED <<locked, buffer, in, out, wvars, rlen, io>>

get_rest ==
  /\ rpc = "rest"
  /\ dst' = dst \o copied_out(rlen - Len(dst), 0)
  /\ rpc' = "publish"
  /\ UNCHANGED <<locked, buffer, in, out, wvars, rlen, io>>

get_publish ==
  /\ rpc = "publish"
  /\ out' = Wrap(out + rlen)
  /\ io' = <<"get", dst>>
  /\ rpc' = "idle" /\ dst' = <<>> /\ rlen' = 0
  /\ UNCHANGED <<locked, buffer, in, wvars>>

-----------------------------------------------------------------------------
(* Under the lock.                                                         *)
kfifo_put(s) ==
  LET n == put_len(Len(s))
      l == first_piece(n, in)
  IN  /\ locked
      /\ buffer' = copied_in(copied_in(buffer, s, 0, l, Offset(in)), s, l, n - l, 0)
      /\ in' = Wrap(in + n)
      /\ io' = <<"put", SubSeq(s, 1, n)>>
      /\ UNCHANGED <<locked, out, wvars, rvars>>

kfifo_get(len) ==
  LET n == Least(len, used(in, out))
      l == first_piece(n, out)
      o == Wrap(out + n)
  IN  /\ locked
      /\ io' = <<"get", copied_out(l, Offset(out)) \o copied_out(n - l, 0)>>
      /\ in' = IF in = o THEN 0 ELSE in
      /\ out' = IF in = o THEN 0 ELSE o
      /\ UNCHANGED <<locked, buffer, wvars, rvars>>

(* kfifo_reset, and __kfifo_reset when nobody is using the fifo.           *)
kfifo_reset ==
  /\ wpc = "idle" /\ rpc = "idle"
  /\ in' = 0 /\ out' = 0
  /\ UNCHANGED <<locked, buffer, wvars, rvars, io>>

-----------------------------------------------------------------------------
Next ==
  \/ \E s \in Data : put_sample(s) \/ kfifo_put(s)
  \/ \E len \in 0..MaxLen : get_sample(len) \/ kfifo_get(len)
  \/ put_first \/ put_rest \/ put_publish
  \/ get_first \/ get_rest \/ get_publish
  \/ kfifo_reset

Spec == Init /\ [][Next]_vars

-----------------------------------------------------------------------------
TypeOK ==
  /\ locked \in BOOLEAN
  /\ buffer \in [Slots -> Bytes]
  /\ in \in Word /\ out \in Word
  /\ wpc \in Pcs /\ src \in Data /\ wlen \in 0..Len(src)
  /\ rpc \in Pcs /\ dst \in Data /\ rlen \in 0..MaxLen
  /\ io \in {"init", "put", "get"} \X Data

(* The published bytes, in order.                                          *)
contents == [j \in 1..Wrap(in - out) |-> buffer[Offset(out + j - 1)]]

fifo == INSTANCE FifoSpec WITH Size <- size, queue <- contents, io <- io

(* "with only one concurrent reader and one concurrent writer, you don't   *)
(* need extra locking": what the puts accept comes out of the gets, whole, *)
(* in order and once, though the indices wrap, each side works with an old *)
(* sample of the other's index and copies in two pieces; and the bytes     *)
(* published never change until they are read.                             *)
ImplementsFifo == fifo!FifoSpec

=============================================================================
