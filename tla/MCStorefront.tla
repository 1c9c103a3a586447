---------------------------- MODULE MCStorefront ----------------------------
(* Constants of the TLC run of Storefront: one product of each kind. *)
EXTENDS Storefront

CONSTANTS month, year, life

Prices == [v \in Variants |-> IF v = year THEN 2 ELSE 1]

Card(kind, by, variants) ==
  [kind |-> kind, service |-> by, manual |-> FALSE, variants |-> variants, soldOut |-> {}]
OneEach ==
  {Card("other", "panel", <<month, life>>), Card("promax", "panel", <<month>>),
   Card("hotplayer", "nodns", <<life, year>>), Card("golden_api", "nodns", <<year>>),
   Card("redfoxx", "nodns", <<year>>), Card("other", "whatsapp", <<month>>),
   Card("other", "broken", <<year>>),
   [Card("other", "none", <<month, year>>) EXCEPT !.manual = TRUE, !.soldOut = {month}]}
=============================================================================
