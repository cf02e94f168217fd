------------------------------ MODULE MCAutoAd ------------------------------
(* Constants of the TLC run of AutoAd.                                     *)
EXTENDS AutoAd

(* No refreshing; a time below and one above the limits.                   *)
Times == {0, 1, 500000}
=============================================================================
