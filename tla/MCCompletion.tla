---------------------------- MODULE MCCompletion ----------------------------
(***************************************************************************)
(* Completion for TLC: a secret of two fragments in one message, where it  *)
(* is redacted, another secret that is redacted to the same, and the first *)
(* divided between two messages, where it is not.  One model is asked for  *)
(* with and without its prefix, and a provider may answer under another    *)
(* name.  The two calls are interchangeable.                               *)
(***************************************************************************)
EXTENDS Completion, TLC

CONSTANTS left, right, other, mark, m, alias, p, NoPrefix

MCRedacted ==
    [text \in {<<left, right>>, <<other, right>>, <<left>>, <<right>>} |->
        IF Len(text) = 2 THEN <<mark>> ELSE text]

MCPrompts == {<< <<left, right>> >>, << <<other, right>> >>, << <<left>>, <<right>> >>}
MCNames == {[prefix |-> NoPrefix, base |-> m], [prefix |-> p, base |-> m],
            [prefix |-> NoPrefix, base |-> alias]}
MCAnswering == {name \in MCNames : name.prefix = NoPrefix}
MCPolicies == {[allows |-> TRUE, redacts |-> TRUE], [allows |-> TRUE, redacts |-> FALSE],
               [allows |-> FALSE, redacts |-> TRUE]}

CallSymmetry == Permutations(Calls)

=============================================================================
