------------------------------ MODULE MCSetup -------------------------------
(* Setup on the sandbox and on one remote network, where the token and the  *)
(* dripper of the override are deployed.                                    *)
EXTENDS Setup

CONSTANTS testnet, sandbox

MCAddresses == 1..9
MCExisting == [net |-> testnet, token |-> 1, dripper |-> 2]
=============================================================================
