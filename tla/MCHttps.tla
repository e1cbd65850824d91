------------------------------ MODULE MCHttps ------------------------------
\* Model checking of Https.
EXTENDS Https
============================================================================
