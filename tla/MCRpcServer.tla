---------------------------- MODULE MCRpcServer ----------------------------
(***************************************************************************)
(* Instances of RpcServer for TLC.                                         *)
(***************************************************************************)
EXTENDS RpcServer, TLC

CONSTANTS r1, r2, r3, k1, k2, SecondConn

\* The requests of the second connection; the others come from the first.
MCOrigin == [r \in Reqs |-> IF r \in SecondConn THEN k2 ELSE k1]

ObjSymmetry == Permutations(Objs)

\* With one request per connection, none of them special, the connections may
\* be exchanged together with their requests.
ConnSymmetry == ObjSymmetry
    \cup {k1 :> k2 @@ k2 :> k1 @@ r1 :> r2 @@ r2 :> r1}

\* For liveness: the server was started, a client has connected and sent r1, r2
\* and r3, and nothing of it was accepted yet.
MCLiveInit ==
    /\ stopChan = "open" /\ starts = 1 /\ faults = 0
    /\ bound = TRUE /\ listening = TRUE
    /\ acceptor = [pc |-> "accepting", conn |-> NoConn]
    /\ sock = [k \in Conns |-> "open"]
    /\ stream = [k \in Conns |-> <<r1, r2, r3>>]
    /\ sent = Reqs /\ stalled = {}
    /\ conn = [k \in Conns |-> "none"]
    /\ reader = [k \in Conns |-> NewReader("off")]
    /\ worker = [r \in Reqs |-> NewWorker]
    /\ workersCh = [g \in 1 .. MaxStarts |-> 0]
    /\ heap = [o \in Objs |-> NewMessage]
    /\ pool = {} /\ fresh = Objs
    /\ responsesChan = [k \in Conns |-> <<>>]
    /\ writer = [k \in Conns |-> NewWriter("off")]
    /\ out = [k \in Conns |-> {}]

MCLiveSpec == MCLiveInit /\ [][Next]_vars /\ Fairness
============================================================================
