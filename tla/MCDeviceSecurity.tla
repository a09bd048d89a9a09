-------------------------- MODULE MCDeviceSecurity --------------------------
EXTENDS DeviceSecurity, TLC

Symmetry == Permutations(Handlers) \cup Permutations(Sessions)
                \cup Permutations(Keys) \cup Permutations(Devices)

=============================================================================
