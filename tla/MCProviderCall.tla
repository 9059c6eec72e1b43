--------------------------- MODULE MCProviderCall ---------------------------
(***************************************************************************)
(* ProviderCall for TLC: conversations of up to three messages, so that a  *)
(* system message can come first, last, between turns, twice, or not at    *)
(* all; and one conversation with every combination of the options.  Two   *)
(* retries, the default: the first attempt, a middle one and the last one  *)
(* are told apart.                                                         *)
(***************************************************************************)
EXTENDS ProviderCall

CONSTANTS t, limit

Messages(n, roles) ==
    {[i \in 1..n |-> [role |-> f[i], content |-> i]] : f \in [1..n -> roles]}

MCRequests ==
    [messages : Messages(1, Roles) \cup Messages(3, {"system", "user", "assistant"}),
     temperature : {None}, max_tokens : {None}, stream : {None}]
    \cup
    [messages : {<<[role |-> "system", content |-> 1], [role |-> "user", content |-> 2]>>},
     temperature : {t, None}, max_tokens : {limit, None}, stream : {TRUE, FALSE, None}]

=============================================================================
