------------------------------ MODULE MCDriver ------------------------------
EXTENDS Driver

\* Every ring is used: batches go to <<"root", FALSE>>, and the last message of an
\* unload to <<"nonroot", TRUE>>.
TwoRings == {<<"nonroot", FALSE>>, <<"root", TRUE>>}
=============================================================================
