---------------------------- MODULE MCRatesProvider ----------------------------
(***************************************************************************)
(* Small instances of RatesProvider for TLC.  Callers are interchangeable. *)
(***************************************************************************)
EXTENDS RatesProvider, TLC

CONSTANTS c1, c2, usd, eur, gbp

MCCallers1   == {c1}
MCCallers2   == {c1, c2}
MCCurrencies == {usd, eur, gbp, Blank}
MCSupported  == {usd, eur}
MCWeekend    == {5, 6, 7, 8}   \* Friday to Monday

Symmetry == Permutations(Callers)
================================================================================
