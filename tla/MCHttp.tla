------------------------------ MODULE MCHttp ------------------------------
\* Model checking of Http.
EXTENDS Http
============================================================================
