------------------------------- MODULE MCGpio -------------------------------
EXTENDS GpioInterrupt

CONSTANTS t1, t2, p1, p2
=============================================================================
