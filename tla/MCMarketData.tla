---------------------------- MODULE MCMarketData ----------------------------
(***************************************************************************)
(* Small instances of MarketData: two timeframes, of two and four units.    *)
(***************************************************************************)
EXTENDS MarketData

MCDurationOf == <<2, 4>>
MCCountOf == <<2, 1>>
MCMaxAgeOf == <<1, 2>>

\* The server is right, or two units behind or ahead.
MCOffsets == {-2, 0, 2}

\* The host clock is right, or one unit behind.
MCCorrections == {-1, 0}
=============================================================================
