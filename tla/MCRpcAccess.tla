---------------------------- MODULE MCRpcAccess ----------------------------
EXTENDS RpcAccess

CONSTANTS s1, s2, s3

\* Two scans of one token, which share a load, and one of another, whose load
\* overlaps with theirs.
Tokens == [s \in {s1, s2, s3} |-> IF s = s3 THEN "second" ELSE "first"]

\* Two providers that are one host to the governor, two credentials of one
\* company; the transport knows the first only.
PrimaryFirst == [p \in Providers |-> IF p = "primary" THEN 1 ELSE 2]
OneHost == [p \in Providers |-> "host"]
=============================================================================
