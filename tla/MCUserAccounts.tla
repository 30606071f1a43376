----------------------------- MODULE MCUserAccounts -----------------------------
EXTENDS UserAccounts, TLC

\* Ids, slots and values are interchangeable.
Symmetric == Permutations(Account) \cup Permutations(Request)
             \cup Permutations(Email) \cup Permutations(Number)
=============================================================================
