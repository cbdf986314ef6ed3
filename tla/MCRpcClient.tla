---------------------------- MODULE MCRpcClient ----------------------------
(***************************************************************************)
(* Instances of RpcClient for TLC.                                         *)
(***************************************************************************)
EXTENDS RpcClient, TLC

CONSTANTS c1, c2, c3, c4, CallSet, AsyncSet

\* The calls of an instance, by the entry point that issues them.
MCKind == [c \in Calls |-> IF c \in CallSet THEN "call"
                           ELSE IF c \in AsyncSet THEN "async" ELSE "send"]

ObjSymmetry == Permutations(Objs)
\* Asynchronous calls without body differ in nothing but their name.
FullSymmetry == Permutations(Objs) \cup Permutations(Conns)
                \cup Permutations(AsyncSet \ HasBody)
============================================================================
