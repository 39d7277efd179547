------------------------------ MODULE MCWebUI ------------------------------
EXTENDS WebUI

\* Provider 1 may complete the job, as version 1; a lease recovered meanwhile
\* is renewed as version 2, and provider 3 may complete that one.
JobRecords == {[v |-> 1, by |-> 1], [v |-> 2, by |-> 0], [v |-> 2, by |-> 3]}
=============================================================================
