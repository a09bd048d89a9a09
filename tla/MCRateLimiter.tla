--------------------------- MODULE MCRateLimiter ---------------------------
EXTENDS RateLimiter, TLC

CONSTANTS c1, c2, t1

MCSenders == {{c1}, {c1, t1}, {c2, t1}}

MCLimit == [c \in Categories |-> IF c = "general" THEN 2 ELSE 1]

Symmetry == Permutations(Requests)

=============================================================================
