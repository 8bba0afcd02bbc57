------------------------------ MODULE MCRequests ------------------------------
\* Requests with filters: none, and one that leaves a pre-signed order out.
EXTENDS Requests

SomeFilters == {Orders} \union {Orders \ {o} : o \in PreSigned}
===============================================================================
