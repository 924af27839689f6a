------------------------ MODULE MCBandwidthScheduler ------------------------
(* A week of two days of three minutes, one window past midnight and one in *)
(* the morning of the first day.                                            *)
EXTENDS BandwidthScheduler

CONSTANTS r1, r2, q1

Night   == [days |-> {0}, start |-> 2, end |-> 1]
Morning == [days |-> {0}, start |-> 0, end |-> 2]

TwoWindows  == {Night, Morning}
OneWindow   == {Morning}
TwoRules    == {r1, r2}
OneRule     == {r1}
OneRequest  == {q1}
TwoRates    == {0, 1}
Low         == [down |-> 0, up |-> 0]
TwoOffers   == {Low, [down |-> 1, up |-> 1]}
=============================================================================
