----------------------------- MODULE MCTransfer -----------------------------
(* Small instances of Transfer for TLC: batches with a file of several     *)
(* chunks, an empty one, and one whose length is a whole number of chunks. *)
EXTENDS Transfer, TLC

OrderlyBatch == <<3, 0, 2>>
MixedBatch == <<3, 0>>

BothSides == [s \in {"a", "b"} |-> 1]
TwoAndOne == [s \in {"a", "b"} |-> IF s = "a" THEN 2 ELSE 1]
TwoOfA == [s \in {"a", "b"} |-> IF s = "a" THEN 2 ELSE 0]
OneOfB == [s \in {"a", "b"} |-> IF s = "a" THEN 0 ELSE 1]
=============================================================================
