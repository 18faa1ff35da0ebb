-------------------------- MODULE MCEnvironmentLease --------------------------
\* A deploy and rollbacks that contend for one environment.
EXTENDS EnvironmentLease

CONSTANTS d1, r1, r2
==============================================================================
