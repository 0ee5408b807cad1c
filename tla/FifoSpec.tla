------------------------------ MODULE FifoSpec ------------------------------
(***************************************************************************)
(* What a kfifo promises: a bounded queue of bytes.  A put appends a       *)
(* prefix of what it is offered and says how long it was, a get takes      *)
(* bytes off the front.  `io' is the last call and the bytes it moved.     *)
(***************************************************************************)
EXTENDS Naturals, Sequences

CONSTANT Size
VARIABLES queue, io

FifoInit == queue = <<>> /\ io = <<"init", <<>> >>

(* The bytes moved are those of io, the number of them whatever fits.      *)
Put ==
  /\ io'[1] = "put"
  /\ queue' = queue \o io'[2]
  /\ Len(queue') <= Size

Get ==
  /\ io'[1] = "get"
  /\ queue = io'[2] \o queue'

Reset ==
  /\ queue' = <<>>
  /\ UNCHANGED io

FifoSpec == FifoInit /\ [][Put \/ Get \/ Reset]_<<queue, io>>

=============================================================================
