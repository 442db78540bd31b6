--------------------------- MODULE MCSubscriptions --------------------------
(***************************************************************************)
(* Small instances of SubscriptionSystem.                                  *)
(***************************************************************************)
EXTENDS SubscriptionSystem, TLC

CONSTANTS a1, g1, s1, s2

InAppStores == (a1 :> "apple") @@ (g1 :> "google")
AllStores   == (a1 :> "apple") @@ (g1 :> "google") @@ (s1 :> "stripe") @@ (s2 :> "stripe")

AppAndWeb   == (a1 :> "apple") @@ (s1 :> "stripe")

ExpertSymmetry == Permutations(Experts)

\* An in-app purchase with all its periods, or two purchases of Stripe with one
\* period, or a single purchase with one period and faults: the periods of the
\* other purchases, and otherwise the faults, have been used up.
OneStoreInit ==
    /\ TableInit /\ RequestsIdle /\ heals = {}
    /\ checkout = [p \in Purchases |-> NoSession] /\ hooks = {}
    /\ \E <<open, used, spent>> \in {<<{a1}, 0, MaxFaults>>, <<{g1}, 0, MaxFaults>>,
                                   <<{s1, s2}, 1, MaxFaults>>, <<{g1}, 1, 0>>, <<{s1}, 1, 0>>} :
         /\ store = [p \in Purchases |-> [Unsold EXCEPT !.period =
                        IF p \in open THEN used ELSE MaxPeriods]]
         /\ faults = spent

OneStoreSpec == OneStoreInit /\ [][Next]_vars /\ Fairness
=============================================================================
