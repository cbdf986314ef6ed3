--------------------------- MODULE MCClientBatch ---------------------------
(***************************************************************************)
(* Instances of ClientBatch for TLC.                                       *)
(***************************************************************************)
EXTENDS ClientBatch, TLC

CONSTANTS c1, c2, c3, c4, CallSet, AsyncSet, Size

\* The calls of an instance, by the entry point that issues them.
MCKind == [c \in Calls |-> IF c \in CallSet THEN "call"
                           ELSE IF c \in AsyncSet THEN "async" ELSE "send"]

\* The batch: c1 and c2, or c1, c2 and c3.
MCOps == SubSeq(<<c1, c2, c3>>, 1, Size)

ObjSymmetry == Permutations(Objs)
============================================================================
