----------------------------- MODULE SplicePool -----------------------------
(***************************************************************************)
(* The pipe pairs of package splice and the process-wide pool that keeps   *)
(* the unused ones (splice/pool.go, pair.go, pair_linux.go).  A pair is    *)
(* named by the order of its creation; its data is what was spliced or     *)
(* written into the pipe and not yet taken out.                            *)
(*                                                                         *)
(* Each operator is one call: it constrains the variables it changes and   *)
(* leaves the caller to say what becomes of its own.                       *)
(***************************************************************************)
EXTENDS Integers, Sequences, FiniteSets, SequencesExt

CONSTANTS PageSize,         \* os.Getpagesize()
          DefaultPipeSize,  \* capacity of a new pipe
          MaxPipeSize,      \* /proc/sys/fs/pipe-max-size
          MaxPairs          \* pairs for which the process has descriptors

ASSUME PoolAssumption ==
    /\ PageSize \in Nat \ {0} /\ DefaultPipeSize \in Nat /\ MaxPipeSize \in Nat
    /\ MaxPairs \in Nat

VARIABLES unused,     \* pairPool.unused, a stack
          usedCount,  \* pairPool.usedCount
          pair        \* the pairs made so far: capacity and contents

poolVars == <<unused, usedCount, pair>>

Pairs == 1 .. MaxPairs

NewPair == [size |-> DefaultPipeSize, data |-> <<>>]

PoolInit == unused = <<>> /\ usedCount = 0 /\ pair = <<>>

\* get: the last unused pair, or a new one
get(p) ==
    /\ usedCount' = usedCount + 1
    /\ \/ /\ unused # <<>>
          /\ p = Last(unused)
          /\ unused' = Front(unused)
          /\ UNCHANGED pair
       \/ /\ unused = <<>>
          /\ Len(pair) < MaxPairs
          /\ p = Len(pair) + 1
          /\ pair' = Append(pair, NewPair)
          /\ UNCHANGED unused

\* get has counted the pair that newSplicePair does not make, because pipe(2) or
\* fcntl failed.  Without descriptors pipe(2) always fails.
getFails ==
    /\ unused = <<>>
    /\ usedCount' = usedCount + 1
    /\ UNCHANGED <<unused, pair>>

Exhausted == Len(pair) = MaxPairs

\* Grow succeeds, unless fcntl fails, when the pipe is or can be made that large.
CanGrow(p, n) == n <= pair[p].size \/ n <= MaxPipeSize

Grow(p, n) ==
    /\ CanGrow(p, n)
    /\ pair' = [pair EXCEPT ![p].size = IF n <= @ THEN @ ELSE n]
    /\ UNCHANGED <<unused, usedCount>>

\* LoadFromAt and LoadFrom, and write(2) to WriteFd: bytes enter the pipe.
Load(p, bytes) ==
    /\ pair' = [pair EXCEPT ![p].data = @ \o bytes]
    /\ UNCHANGED <<unused, usedCount>>

\* WriteTo and Read: the first n bytes leave the pipe.
Drain(p, n) ==
    /\ pair' = [pair EXCEPT ![p].data = SubSeq(@, n + 1, Len(@))]
    /\ UNCHANGED <<unused, usedCount>>

\* discard: what is left in the pipe goes to /dev/null.  Mutant: it stays.
Discarded_Not(p) == pair

Discarded(p) == [pair EXCEPT ![p].data = <<>>]

\* Mutant: the pair stays counted.
CountBack_Not == usedCount

CountBack == usedCount - 1

\* done: discard runs before the lock is taken, on a pair that nobody else uses
\* as long as PairOwnership of MessageCodec holds, so the two are one step.
done(p) ==
    /\ pair' = Discarded(p)
    /\ usedCount' = CountBack
    /\ unused' = Append(unused, p)
=============================================================================
