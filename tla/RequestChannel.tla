---------------------------- MODULE RequestChannel ----------------------------
(***************************************************************************)
(* What a connection promises to the callers of send_request(): a call     *)
(* ends with the answer the device gave to this very request, or with a    *)
(* failure (an exception of the library, not of the device).               *)
(***************************************************************************)
EXTENDS Naturals

CONSTANT Clients

VARIABLES calls,     \* calls made so far, by all clients
          request,   \* the number of each client's latest call
          busy,      \* the clients inside a call
          answered,  \* the requests the device has answered
          outcome    \* how each client's latest call ended: {} or {answer}
vars == <<calls, request, busy, answered, outcome>>

Init == /\ calls = 0
        /\ request = [c \in Clients |-> 0]
        /\ busy = {}
        /\ answered = {}
        /\ outcome = [c \in Clients |-> {}]

Ask(c) == /\ c \notin busy
          /\ calls' = calls + 1
          /\ request' = [request EXCEPT ![c] = calls + 1]
          /\ busy' = busy \union {c}
          /\ outcome' = [outcome EXCEPT ![c] = {}]
          /\ UNCHANGED answered

Answer(id) == /\ id \notin answered
              /\ answered' = answered \union {id}
              /\ UNCHANGED <<calls, request, busy, outcome>>

End(c) == /\ c \in busy
          /\ busy' = busy \ {c}
          /\ \/ outcome' = outcome
             \/ /\ request[c] \in answered
                /\ outcome' = [outcome EXCEPT ![c] = {request[c]}]
          /\ UNCHANGED <<calls, request, answered>>

Next == \/ \E c \in Clients : Ask(c) \/ End(c)
        \/ \E id \in 1..calls : Answer(id)

Spec == Init /\ [][Next]_vars
=============================================================================
