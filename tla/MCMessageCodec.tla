-------------------------- MODULE MCMessageCodec --------------------------
(***************************************************************************)
(* Instances of MessageCodec for TLC.                                      *)
(***************************************************************************)
EXTENDS MessageCodec

\* Names of messages
CONSTANTS file, short, large, source, memory, passed, plain, oops, hollow

Of(f, default) == [m \in Msgs |-> IF m \in DOMAIN f THEN f[m] ELSE default]

\* What each message's body is read from.
MCKind == Of(file :> "file" @@ short :> "file" @@ large :> "file" @@ source :> "conn"
             @@ memory :> "buffer" @@ passed :> "pipe" @@ hollow :> "none", "plain")

\* The error has no body; memory has more bytes than its body, short has fewer, file
\* is sent from its second byte, more than its body arrives at source, no pipe is
\* large enough for large, and hollow announces a body that it does not have.
MCSize == Of(oops :> 0 @@ memory :> 1 @@ large :> 4, 2)
MCOffset == Of(file :> 1, 0)
MCSrcLen == Of(oops :> 0 @@ hollow :> 0 @@ file :> 3 @@ source :> 3 @@ short :> 1
               @@ large :> 4, 2)
MCFrom == Of(passed :> file, CHOOSE m \in Msgs : TRUE)

\* A body passed on while pairs are scarce, buffered headers before spliced bodies,
\* and every kind of reader.
MCScripts == {<<file, passed, plain>>, <<oops, file, passed>>, <<memory, file, passed>>,
              <<source, memory>>, <<large, memory>>, <<plain, short, oops>>,
              <<memory, hollow, file>>}
=============================================================================
