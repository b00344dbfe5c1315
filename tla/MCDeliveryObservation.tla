------------------------- MODULE MCDeliveryObservation -------------------------
(* Instances of DeliveryObservation: one message, scheduled for later; two *)
(* interchangeable scrapes.                                                *)
EXTENDS DeliveryObservation, TLC

OneResource == [m \in Msg |-> CHOOSE r \in Resource : TRUE]
Later == {"future"}
Scrapes == Permutations(Scraper)
=============================================================================
