----------------------------- MODULE MCEarnings -----------------------------
(***************************************************************************)
(* Small instances of Earnings.                                            *)
(***************************************************************************)
EXTENDS Earnings

ExpiryFaults == {"stripe", "lost", "restart", "refused", "expiry"}
AllFaults    == ExpiryFaults \cup {"reversal"}
=============================================================================
