---------------------------- MODULE MCCandleCache ----------------------------
(***************************************************************************)
(* Small instances of CandleCache for TLC: at most two bars close while    *)
(* requests are under way, fewer than a page has.                          *)
(***************************************************************************)
EXTENDS CandleCache

\* Everything, everything up to the middle of a day, a range, a range up to now.
MCAsks == {<<NoBound, NoBound>>, <<NoBound, 4>>, <<2, 5>>, <<2, NoBound>>}

\* Two bars a day.
MCDayOpen == [t \in Times |-> IF t % 2 = 1 THEN t ELSE t - 1]

=============================================================================
