------------------------------ MODULE MCOutbox ------------------------------
EXTENDS Outbox, TLC
CONSTANTS e1, e2
\* One event the server takes and one it refuses as invalid; screenshots of the first.
Fates == e1 :> "accept" @@ e2 :> "invalid"
OwnEvent == <<e1, e1>>
=============================================================================
