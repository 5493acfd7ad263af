----------------------------- MODULE MCExecutor -----------------------------
(***************************************************************************)
(* Small instances of Executor for TLC.  Limits are scaled so that every   *)
(* rule can fire: with equities 8 and 10 a fall from the peak is a total   *)
(* drawdown, and one losing close is a daily one.                          *)
(***************************************************************************)
EXTENDS Executor

MCRiskCfg == [maxOpen |-> 1, dailyPct |-> 5, totalPct |-> 10, killSwitch |-> TRUE]

\* No drawdown limit is ever reached: halts come from errors alone.
MCNoDrawdown == [maxOpen |-> 2, dailyPct |-> 100, totalPct |-> 100, killSwitch |-> TRUE]

MCEquities == {8, 10}
MCPnls == {-1, 0}
MCSettled == {0}

\* What the strategy cards of the web client offer (Strategies.tsx:196-198).
MCPaperClient == {<<"draft", "paper">>, <<"paused", "paper">>, <<"paper", "paused">>}
MCWebClient == MCPaperClient \cup {<<"paper", "live">>, <<"live", "paused">>}
\* Any status the PATCH route accepts, restricted to pausing and paper trading.
MCAnyClient == ({"draft", "paper", "paused", "halted"} \X {"paper", "paused"})
MCStart == {<<"draft", "paper">>, <<"draft", "live">>}

=============================================================================
