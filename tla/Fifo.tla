-------------------------------- MODULE Fifo --------------------------------
(***************************************************************************)
(* What a pipe promises: the bytes that went in come out once, in the      *)
(* order they went in, and at most Capacity of them are in flight.         *)
(* Pipe.tla refines this specification.                                    *)
(***************************************************************************)
EXTENDS Naturals, Sequences

CONSTANTS Bytes,     \* what a byte may be
          Capacity   \* bytes the pipe holds

VARIABLE queue

Put(b) == Len(queue) < Capacity /\ queue' = Append(queue, b)

Get == queue # <<>> /\ queue' = Tail(queue)

FifoInit == queue = <<>>
FifoNext == Get \/ \E b \in Bytes : Put(b)
FifoSpec == FifoInit /\ [][FifoNext]_queue
=============================================================================
