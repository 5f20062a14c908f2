----------------------------- MODULE MCCatalogue -----------------------------
(* Model checking Catalogue: one account, two models, one of them a seed.   *)
EXTENDS Catalogue

CONSTANTS m1, m2, d1, d2

Offer(agent, builtin, benefit) ==
  [s \in Sources |-> CASE s = "agent" -> agent [] s = "builtin" -> builtin
                        [] s = "benefit" -> benefit]

\* The benefit model m1 beside m2; m1 become an ordinary model; the benefits
\* over; both in the package.
MCFirstOffer == Offer({}, {m2}, {m1})

\* A client of GET /v1/models, and the panel, which also presses the button.
MCRoles == [d \in Discoverers |-> IF d = d1 THEN {"list"} ELSE {"list", "reload"}]

MCOffers ==
  {Offer({}, {m2}, {m1}), Offer({m2}, {m1}, {}), Offer({}, {m2}, {}),
   Offer({m2}, {}, {m1, m2})}
=============================================================================
