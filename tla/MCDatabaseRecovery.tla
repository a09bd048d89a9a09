------------------------- MODULE MCDatabaseRecovery -------------------------
EXTENDS DatabaseRecovery

\* A lock file removed under its owner is where the promises of the
\* operations end: the run does not go on from there.
UntilLockIsLost == ~raced

\* Bound: backups are verified before the incident only; what verifying
\* changes is the lock and the schema, as other operations do after it.
VerifiesEarly == incidents = MaxIncidents => op[CommandLine].kind # "verify"

=============================================================================
