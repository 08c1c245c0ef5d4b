----------------------------- MODULE MCAccounts -----------------------------
EXTENDS Accounts, TLC

CodeSymmetry == Permutations(Requests) \cup Permutations(Invitations) \cup Permutations(Schools)
                    \cup Permutations(Resets)
=============================================================================
