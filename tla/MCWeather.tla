----------------------------- MODULE MCWeather -----------------------------
(* Instances of Weather for TLC.                                           *)
EXTENDS Weather

CONSTANTS a, b   \* SSIDs

OneNetwork   == {[ssid |-> a, right |-> TRUE]}
TwoPasswords == {[ssid |-> a, right |-> TRUE], [ssid |-> a, right |-> FALSE]}
TwoNetworks  == {[ssid |-> a, right |-> TRUE], [ssid |-> b, right |-> TRUE]}
=============================================================================
