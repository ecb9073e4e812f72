-------------------------- MODULE MCAnswerDelivery --------------------------
EXTENDS AnswerDelivery, TLC
Devices == Permutations(Browsers)
=============================================================================
