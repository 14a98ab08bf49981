------------------------------ MODULE MCCoap ------------------------------
EXTENDS Coap
===========================================================================
