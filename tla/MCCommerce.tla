----------------------------- MODULE MCCommerce -----------------------------
(* Instances of Commerce for TLC.                                          *)
EXTENDS Commerce

CONSTANTS d1, d2, a1, y1

\* Two customers with one card and one address.
Ids(device, address) == [devices |-> <<device>>, addresses |-> <<address>>, payments |-> <<y1>>]
OnePopulation == {<<Ids(d1, a1), Ids(d2, a1)>>}

CheapAndDear == {[price |-> 1000, category |-> "home"], [price |-> 5000, category |-> "home"]}
Hard(first, second) == <<first, second>>
Draw(candidates, multi, serial, difficulty, addressed) ==
    [candidates |-> candidates, multi |-> multi, serial |-> serial,
     difficulty |-> difficulty, addressed |-> addressed]

\* A ring of two, and a candidate left over from a ring with a serial returner
\* of either difficulty and with a wardrober.
SomeDraws == {Draw(<<2, 1>>, 2, 0, Hard("moderate", "stealthy"), {}),
              Draw(<<1, 2>>, 1, 1, Hard("easy", "stealthy"), {}),
              Draw(<<2, 1>>, 1, 1, Hard("moderate", "easy"), {}),
              Draw(<<2, 1>>, 1, 0, Hard("stealthy", "easy"), {})}
=============================================================================
