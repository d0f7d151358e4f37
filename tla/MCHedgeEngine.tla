---------------------------- MODULE MCHedgeEngine ----------------------------
(* Small instances of HedgeEngine: tick prices for each arrangement of levels. *)
EXTENDS HedgeEngine

\* Three zones of width 4 below 16, stops 4, 3 and 2 above the entries: every
\* boundary and stop, a price inside each zone, and both outer regions.
NarrowPrices == {4, 6, 8, 10, 12, 14, 15, 16, 20}

\* Five zones of width 2 below 14 with stops 3, 3, 2, 2 and 1 above the entries:
\* the stop of level 2 lies above the entry of level 1.
WidePrices == {4, 8, 10, 11, 12, 13, 14, 15, 17}
=============================================================================
