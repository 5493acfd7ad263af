----------------------------- MODULE Reconcile -----------------------------
(***************************************************************************)
(* The pure reconciliation policy of domain/execution/reconcile.py: from   *)
(* the direction a signal asks for and the position held, the orders that  *)
(* reach the intent.  It is shared by the live ExecutionEngine and by the  *)
(* BacktestEngine.                                                         *)
(*                                                                         *)
(* Abstraction.  A position is its sign (Long, Flat, Short): sizes are     *)
(* left to the sizing rules.  The Python list of actions holds at most one *)
(* close followed by at most one open, so a plan is the record of the two. *)
(***************************************************************************)
EXTENDS Integers

Short == -1
Flat  == 0
Long  == 1

Positions == {Short, Flat, Long}

\* The side of a held quantity.
SideOf(quantity) ==
  IF quantity > 0 THEN Long ELSE IF quantity < 0 THEN Short ELSE Flat

\* Direction of a signal (core/enums.py); "none" is a cycle without a signal.
Directions == {"long", "short", "neutral", "close"}

Plans == [close : BOOLEAN, open : Positions]

NoPlan == [close |-> FALSE, open |-> Flat]

\* What a stop-loss or a take-profit asks for: a close and nothing else.
ExitPlan == [close |-> TRUE, open |-> Flat]

\* The side a direction wants to hold; NEUTRAL is a synonym of CLOSE.
Wanted(intent) ==
  CASE intent = "long"  -> Long
    [] intent = "short" -> Short
    [] OTHER            -> Flat

\* MAlwaysOpens: a signal for the side already held opens again.
MAlwaysOpens(intent, side, allowShort) ==
  LET want == Wanted(intent)
  IN  [close |-> intent # "none" /\ want = Flat /\ side # Flat,
       open  |-> IF want = Short /\ ~allowShort THEN Flat ELSE want]

\* A held position on another side than the wanted one is closed first; the
\* wanted side is then opened, unless it is a short and shorting is disabled.
PlanActions(intent, side, allowShort) ==
  LET want == Wanted(intent)
      move == intent # "none" /\ want # side
  IN  [close |-> move /\ side # Flat,
       open  |-> IF move /\ (want = Short => allowShort) THEN want ELSE Flat]

=============================================================================
