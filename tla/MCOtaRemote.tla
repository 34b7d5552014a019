---------------------------- MODULE MCOtaRemote ----------------------------
(* Instance of OtaRemote for TLC.                                          *)
EXTENDS OtaRemote

OfferTwo   == [id |-> "two", ver |-> 2]
OfferThree == [id |-> "three", ver |-> 3]

OneOffer  == {OfferTwo}
TwoOffers == {OfferTwo, OfferThree}
=============================================================================
