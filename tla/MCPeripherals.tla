--------------------------- MODULE MCPeripherals ---------------------------
\* Model checking of Peripherals.
EXTENDS Peripherals
============================================================================
