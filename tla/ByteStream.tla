------------------------------ MODULE ByteStream ------------------------------
(***************************************************************************)
(* What DecompressionReader promises its callers, as an AsyncRead: the     *)
(* bytes handed out are a growing prefix of the decompressed data, each    *)
(* read hands out between one byte and the size of the caller's buffer,   *)
(* and once the stream has ended nothing more is handed out.              *)
(***************************************************************************)
EXTENDS Naturals, Sequences

CONSTANT MaxRead   \* the largest buffer a caller passes

VARIABLES
    data,    \* the bytes the stream stands for
    got,     \* the bytes handed out so far
    ended    \* the stream has reported its end or an error

Init ==
    /\ data \in Seq(Nat \X Nat)
    /\ got = <<>>
    /\ ended = FALSE

\* A read into a buffer of k bytes hands out the next 1 to k bytes.
Read ==
    /\ ~ended
    /\ \E j \in 1..MaxRead :
          /\ Len(got) + j <= Len(data)
          /\ got' = SubSeq(data, 1, Len(got) + j)
    /\ UNCHANGED <<data, ended>>

\* The stream ends, early on an error or at the end of the data.
End ==
    /\ ended' = TRUE
    /\ UNCHANGED <<data, got>>

Spec == Init /\ [][Read \/ End]_<<data, got, ended>>

=============================================================================
