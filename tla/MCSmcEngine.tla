---------------------------- MODULE MCSmcEngine -----------------------------
(* Small instance of SmcEngine for TLC.                                    *)
EXTENDS SmcEngine

\* Prices in sixtieths, so that the average of up to six of them is exact
Shape(o, h, l, c) == [o |-> 60 * o, h |-> 60 * h, l |-> 60 * l, c |-> 60 * c]

Up1 == Shape(10, 12, 10, 12)
Down1 == Shape(12, 12, 10, 10)
Up2 == Shape(12, 14, 12, 14)
Down2 == Shape(14, 14, 12, 12)
Wide == Shape(11, 15, 9, 11)
Low == Shape(10, 10, 8, 8)

MCShapes == {Up1, Down1, Up2, Down2, Wide, Low}
MCWarmups == {<<Down1, Up1, Down1, Up1, Wide>>, <<Up1, Down2, Up2, Low, Up1>>}

MCEqTolerance == <<12, 100>>
MCBosMinAtr == <<6, 10>>
MCBosMinPct == <<18, 10000>>
MCLegMinAtr == <<8, 10>>
MCBodyDomination == <<65, 100>>
MCBodyMin == <<25, 100>>
MCMaxDistanceAtr == <<15, 1>>
MCBreakerTolerance == <<15, 10000>>
MCBreakerMinBody == <<35, 100>>
MCBreakerMinDisplacement == <<75, 100>>
=============================================================================
