----------------------------- MODULE AtMostOnce -----------------------------
(***************************************************************************)
(* What the client promises of a call: its request travels in one          *)
(* direction, from the caller over the client to the server, and reaches   *)
(* the server at most once; only a server that received it answers it, at  *)
(* most once; and the call returns once, with an answer only if there was  *)
(* one.  Requests may be lost at any time.                                 *)
(***************************************************************************)
CONSTANT Calls

VARIABLES stage,     \* where the request is: "new", "held" by the client,
                     \* "sent" to the server, or "over"
          answered,  \* the calls that the server answered
          result     \* "none" yet, an "answer" or "nothing"

vars == <<stage, answered, result>>

Init == /\ stage = [c \in Calls |-> "new"]
        /\ answered = {}
        /\ result = [c \in Calls |-> "none"]

\* The client takes the request; a call that expects no answer returns.
Accept(c) ==
    /\ stage[c] = "new"
    /\ stage' = [stage EXCEPT ![c] = "held"]
    /\ result' \in {result, [result EXCEPT ![c] = "nothing"]}
    /\ UNCHANGED answered

\* The call returns without having its request sent.
Refuse(c) ==
    /\ stage[c] \in {"new", "held"} /\ result[c] = "none"
    /\ stage' = [stage EXCEPT ![c] = "over"]
    /\ result' = [result EXCEPT ![c] = "nothing"]
    /\ UNCHANGED answered

Later(s) == CASE s = "held" -> {"held", "sent", "over"}
              [] s = "sent" -> {"sent", "over"}
              [] OTHER -> {s}

\* Requests reach the server or are lost, several at a time.
Move ==
    /\ stage' \in [Calls -> {"new", "held", "sent", "over"}]
    /\ \A c \in Calls : stage'[c] \in Later(stage[c])
    /\ UNCHANGED <<answered, result>>

Answer(c) ==
    /\ stage[c] = "sent" /\ c \notin answered
    /\ stage' = [stage EXCEPT ![c] = "over"]
    /\ answered' = answered \cup {c}
    /\ UNCHANGED result

Return(c) ==
    /\ result[c] = "none"
    /\ \E r \in {"answer", "nothing"} :
          /\ r = "answer" => c \in answered
          /\ result' = [result EXCEPT ![c] = r]
    /\ UNCHANGED <<stage, answered>>

Next == Move \/ \E c \in Calls : Accept(c) \/ Refuse(c) \/ Answer(c) \/ Return(c)

Spec == Init /\ [][Next]_vars
=============================================================================
