----------------------------- MODULE MCStatement -----------------------------
(***************************************************************************)
(* A buffer of two bytes.  BLOBs of up to two segments, each empty, shorter*)
(* than the buffer, as long, or longer by a part or by a whole buffer.     *)
(***************************************************************************)
EXTENDS Statement

\* The n-th byte is n: no two bytes of a BLOB compare.
BlobOf(length, ends) == [bytes |-> [n \in 1..length |-> n], ends |-> ends]
Blobs ==
  {NoBlob} \cup {BlobOf(a, <<a>>) : a \in 0..4}
           \cup {BlobOf(a + b, <<a, a + b>>) : a \in 0..4, b \in 0..4}

MCResults == {<< >>} \cup {<<b>> : b \in Blobs}
             \cup {<<b, BlobOf(1, <<1>>)>> : b \in Blobs}
=============================================================================
