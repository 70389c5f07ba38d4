----------------------------- MODULE MCSession ------------------------------
EXTENDS Session, TLC
Symmetry == Permutations(Uids) \cup Permutations(Logins)
              \cup Permutations(Fds) \cup Permutations(Requests)
=============================================================================
