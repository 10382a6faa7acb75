------------------------ MODULE MCExpiredLeaseRelease ------------------------
(* Finite instances of ExpiredLeaseRelease for TLC. *)
EXTENDS ExpiredLeaseRelease, TLC

CONSTANTS a, b

\* A later daemon may be able to recover other leases than the first.  Lease a has
\* no runtime: a daemon that cannot recover it leaves it alone.
MixedConfigs == {{a}, {b}}
=============================================================================
