-------------------------------- MODULE Fifo --------------------------------
(***************************************************************************)
(* What a pipe promises: bytes come out once, in the order they went in,   *)
(* at most Size of them are in it, and an end that is closed stays closed. *)
(***************************************************************************)
EXTENDS Naturals, Sequences

CONSTANTS Byte, Size

VARIABLES q, readopen, writeopen

fifo == <<q, readopen, writeopen>>

Init == q = <<>> /\ readopen = TRUE /\ writeopen = TRUE

Put(v) ==
  /\ writeopen
  /\ Len(q) < Size
  /\ q' = Append(q, v)
  /\ UNCHANGED <<readopen, writeopen>>

Get ==
  /\ readopen
  /\ q # <<>>
  /\ q' = Tail(q)
  /\ UNCHANGED <<readopen, writeopen>>

CloseRead == readopen /\ readopen' = FALSE /\ UNCHANGED <<q, writeopen>>

CloseWrite == writeopen /\ writeopen' = FALSE /\ UNCHANGED <<q, readopen>>

Next == (\E v \in Byte : Put(v)) \/ Get \/ CloseRead \/ CloseWrite

Spec == Init /\ [][Next]_fifo
=============================================================================
