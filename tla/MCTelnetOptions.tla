-------------------------- MODULE MCTelnetOptions --------------------------
(* TelnetOptions on one option at a time: an option without a handler that *)
(* may be given any handler, of every policy.                              *)
EXTENDS TelnetOptions

MCHandlers ==
    [initial : SUBSET Side, accept : SUBSET Side, speaks : {{}, Callback}]
=============================================================================
