--------------------------- MODULE MCRunLifecycle ---------------------------
EXTENDS RunLifecycle

\* The first wave's worker changes a file that no lease owns for certain, which is a warning
\* for its barrier and for the final verification; the second wave is clean.
MCWrites == {<<1, "uncertain">>}
MCReports == <<{"verified_success", "failed"}, {"verified_success"}>>
=============================================================================
