------------------------------ MODULE MCOutbox ------------------------------
EXTENDS Outbox

CONSTANTS c1, c2, t1, t2
=============================================================================
