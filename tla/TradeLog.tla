------------------------------ MODULE TradeLog ------------------------------
(***************************************************************************)
(* What the paper executor promises about the database, without tasks,     *)
(* sessions, memory or faults: a strategy's virtual position only moves    *)
(* together with the order records that explain the move, along legal      *)
(* plans, and only while the strategy exists.                              *)
(*                                                                         *)
(* The module is the specification the docstring of the simulated broker   *)
(* gives (simulated_adapter.py:8-15): fills and OrderRecords are atomic,   *)
(* and the engine opens from flat or fully closes.  Executor implements    *)
(* it; see TradeLog!Spec there.                                            *)
(***************************************************************************)
EXTENDS Integers

CONSTANTS
  Strategies,
  Positions,   \* the unit positions: short, flat, long
  Results      \* realized results of a cycle, 0 among them

VARIABLES
  status,  \* the status of the strategy row
  pos,     \* the open virtual position
  net,     \* the net filled quantity of its order records
  closed   \* the realized P&L of today's closing records

logVars == <<status, pos, net, closed>>

Init ==
  /\ status = [s \in Strategies |-> "draft"]
  /\ pos    = [s \in Strategies |-> 0]
  /\ net    = [s \in Strategies |-> 0]
  /\ closed = [s \in Strategies |-> 0]

\* A cycle commits: the position moves to a unit position, the records move with
\* it, and only a cycle that leaves a held position realizes a result.  The cycle
\* may also halt the strategy.
Cycle(s) ==
  /\ status[s] # "gone"
  /\ \E p \in Positions, result \in Results :
       /\ p = pos[s] \/ pos[s] = 0 => result = 0
       /\ pos' = [pos EXCEPT ![s] = p]
       /\ net' = [net EXCEPT ![s] = @ + p - pos[s]]
       /\ closed' = [closed EXCEPT ![s] = @ + result]
  /\ \/ status' = status
     \/ status' = [status EXCEPT ![s] = "halted"]

\* A client changes the status; it cannot halt a strategy nor revive a deleted one.
SetStatus(s) ==
  /\ status[s] # "gone"
  /\ \E new \in {"draft", "paper", "live", "paused", "archived"} :
       status' = [status EXCEPT ![s] = new]
  /\ UNCHANGED <<pos, net, closed>>

\* A deletion takes the position and the records with it, for good.
Delete(s) ==
  /\ status' = [status EXCEPT ![s] = "gone"]
  /\ pos'    = [pos EXCEPT ![s] = 0]
  /\ net'    = [net EXCEPT ![s] = 0]
  /\ closed' = [closed EXCEPT ![s] = 0]

NewDay ==
  /\ closed' = [s \in Strategies |-> 0]
  /\ UNCHANGED <<status, pos, net>>

Next ==
  \/ \E s \in Strategies : Cycle(s) \/ SetStatus(s) \/ Delete(s)
  \/ NewDay

Spec == Init /\ [][Next]_logVars

\* What the contract comes to: the records account for the position.
Accounted == \A s \in Strategies : pos[s] = net[s] /\ pos[s] \in Positions

=============================================================================
