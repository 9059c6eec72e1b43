------------------------------- MODULE MCVault -------------------------------
(***************************************************************************)
(* Vault for TLC: clients, values and passwords are interchangeable.       *)
(***************************************************************************)
EXTENDS Vault, TLC

VaultSymmetry == Permutations(Clients) \cup Permutations(Values)
                    \cup Permutations(Passwords) \cup Permutations(Keys)

=============================================================================
