------------------------- MODULE MCWebhookDelivery -------------------------
EXTENDS WebhookDelivery, TLC

CONSTANTS i1, i2, c1

\* One call at a time, in the first process.
CallsAtFirst == (c1 :> i1)

\* A retry is due after the recovery ceiling: the worker wakes in between.
Delays == [n \in 1 .. MaxAttempts |-> Ceiling + 1]
=============================================================================
