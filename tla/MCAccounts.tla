----------------------------- MODULE MCAccounts -----------------------------
EXTENDS AccountsInvariants, TLC

Symmetry == Permutations(Requests) \cup Permutations(Sessions)
              \cup Permutations(Mails) \cup Permutations(Accounts) \cup Permutations(Passwords)

=============================================================================
