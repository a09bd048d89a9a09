--------------------------- MODULE MCAuthService ---------------------------
EXTENDS AuthService, TLC

Symmetry == Permutations(Handlers) \cup Permutations(Sessions)
                \cup Permutations(Challenges) \cup Permutations(Tokens)

=============================================================================
