------------------------------ MODULE Executor ------------------------------
(***************************************************************************)
(* StrategyExecutor (services/strategy_executor.py): one asyncio task per  *)
(* active strategy polls the market, trades through the ExecutionEngine    *)
(* and the simulated broker, and commits once per cycle, while HTTP        *)
(* handlers change the strategy row and start, stop or reload its loop.    *)
(*                                                                         *)
(* An action is the code between two awaits that change or read shared     *)
(* state.  A cycle runs  sleep -> read -> trade -> settle -> broadcast     *)
(* and its session is the record `c`: nothing of it is in the database     *)
(* before Commit.  The handlers commit first and notify the executor in a  *)
(* later step of the event loop, in commit order (`notices`).              *)
(*                                                                         *)
(* Abstractions.  An entry has the size 1; a bar is new or already seen;   *)
(* the profit of a close, the equity read and whether an exit price was    *)
(* hit are chosen from small sets.  The database gives each session its    *)
(* own transaction and enforces foreign keys (PostgreSQL).  A live         *)
(* strategy of this module has no usable broker connection.                *)
(***************************************************************************)
EXTENDS Integers, Sequences, FiniteSets, Reconcile, RiskRules

CONSTANTS
  Strategies,   \* strategy instances
  Slots,        \* room for the task of a strategy and its cancelled elders
  None,         \* absent: no task, no risk state
  Equities,     \* account equities a broker can report
  Pnls,         \* realized results a filled close can have
  Intents,      \* directions the strategies emit
  RiskCfg,      \* the merged RiskConfig
  AllowShort,   \* the strategies' allow_short
  MaxErrors,    \* _MAX_CONSECUTIVE_ERRORS
  Requests,     \* <<old, new>> status changes a client asks for
  Enabled,      \* faults and environment events that are explored
  PnlBound,     \* bound on the daily result either way
  CountBound,   \* bound on the open-position count either way
  MaxNotices    \* handlers between their commit and their notification

Active   == {"paper", "live"}
Statuses == {"draft", "paused", "archived", "halted", "gone"} \cup Active

ASSUME ExecutorAssumption ==
  /\ None \notin Slots
  /\ Equities \subseteq Nat \ {0} /\ Equities # {}
  /\ Pnls \subseteq Int /\ Intents \subseteq Directions
  /\ RiskCfg \in RiskConfigs /\ AllowShort \in BOOLEAN
  /\ MaxErrors \in Nat \ {0}
  /\ Requests \subseteq (Statuses \ {"gone"}) \X (Statuses \ {"gone", "halted"})
  /\ PnlBound \in Nat /\ CountBound \in Nat /\ MaxNotices \in Nat

VARIABLES
  \* the database, as committed
  row,      \* strategy_instances: status, error_count, peak_equity
  book,     \* sim_positions (pos), and of order_records: the net filled
            \* quantity (net) and the realized P&L of today's closes (closed)
  \* the executor's memory
  tasks,    \* _tasks: the slot of a strategy's current task, or None
  loop,     \* every task that still runs, cancelled ones included
  seen,     \* _last_bar_ts holds the current bar
  risk,     \* RiskManager._states
  \* the HTTP handlers
  notices   \* handlers that committed and have yet to notify the executor

vars == <<row, book, tasks, loop, seen, risk, notices>>

Rows    == [status : Statuses, errors : 0..MaxErrors, peak : Nat]
Books   == [pos : Int, net : Int, closed : Int]
Risks   == [peak : Nat, open : Int, daily : Int, halted : BOOLEAN]
Notices == [kind : {"status", "config"}, sid : Strategies, status : Statuses]

\* A missing risk state is none of them.
ASSUME NoneAssumption == None \notin Risks

EmptyBook == [pos |-> Flat, net |-> 0, closed |-> 0]

\* The locals of one _execute_once and what its session holds uncommitted:
\* the working position, and of the staged OrderRecords the net quantity and
\* the realized P&L; `wrote` once a fill changed the ledger, `broken` once a
\* flush failed.  (SignalRecords are left out: no decision reads them.)
Cycles ==
  [intent : Directions \cup {"none"}, plan : Plans,
   equity : Nat, pos : Int, filled : Int, real : Int, wrote : BOOLEAN,
   broken : BOOLEAN, errored : BOOLEAN, halted : BOOLEAN, keep : BOOLEAN]

NoCycle ==
  [intent |-> "none", plan |-> NoPlan,
   equity |-> 0, pos |-> Flat, filled |-> 0, real |-> 0, wrote |-> FALSE,
   broken |-> FALSE, errored |-> FALSE, halted |-> FALSE, keep |-> TRUE]

Stages == {"free", "sleep", "read", "trade", "settle", "broadcast"}
Tasks  == [pc : Stages, mode : Active, cancelled : BOOLEAN, c : Cycles]

FreeTask == [pc |-> "free", mode |-> "paper", cancelled |-> FALSE, c |-> NoCycle]

NewTask(status) == [FreeTask EXCEPT !.pc = "sleep", !.mode = status]

TypeOK ==
  /\ row \in [Strategies -> Rows]
  /\ book \in [Strategies -> Books]
  /\ tasks \in [Strategies -> Slots \cup {None}]
  /\ loop \in [Strategies -> [Slots -> Tasks]]
  /\ seen \in [Strategies -> BOOLEAN]
  /\ risk \in [Strategies -> Risks \cup {None}]
  /\ notices \in Seq(Notices)

\* A process that booted on a database of drafts.
Init ==
  /\ row = [s \in Strategies |-> [status |-> "draft", errors |-> 0, peak |-> NoPeak]]
  /\ book = [s \in Strategies |-> EmptyBook]
  /\ tasks = [s \in Strategies |-> None]
  /\ loop = [s \in Strategies |-> [k \in Slots |-> FreeTask]]
  /\ seen = [s \in Strategies |-> FALSE]
  /\ risk = [s \in Strategies |-> None]
  /\ notices = <<>>

-----------------------------------------------------------------------------
(***************************************************************************)
(* The loop of a strategy.                                                 *)
(***************************************************************************)

At(s, k, stage) == loop[s][k].pc = stage

Runs(s, k, stage) == At(s, k, stage) /\ ~loop[s][k].cancelled

Goto(s, k, stage, c) ==
  loop' = [loop EXCEPT ![s][k].pc = stage, ![s][k].c = c]

\* The row was deleted under the cycle: whatever it stages violates a foreign key.
\* MForgetsOrphans: the ledger written without the foreign key.
MForgetsOrphans(s) == FALSE
Orphan(s) == row[s].status = "gone"

NextStage(plan) == IF plan = NoPlan THEN "settle" ELSE "trade"

\* _execute_once up to the opening of its session: bars are fetched, and the
\* strategy is asked for signals when the last bar is not the one it was asked
\* for before.  The cursor moves with the generation, before anything is traded;
\* a generation that raises leaves it.  (A fetch without bars changes nothing.)
\* A loop starts with a sleep of two seconds, in which a cancelled elder of the
\* same strategy ends: the guard on the other slots stands for it.
StartCycle(s, k) ==
  /\ Runs(s, k, "sleep")
  /\ \A j \in Slots \ {k} : At(s, j, "free")
  /\ \/ /\ ~seen[s]
        /\ \E i \in Intents \cup {"none"} :
             Goto(s, k, "read", [NoCycle EXCEPT !.intent = i])
        /\ seen' = [seen EXCEPT ![s] = TRUE]
     \/ /\ seen[s] \/ "generate" \in Enabled
        /\ Goto(s, k, "read", NoCycle)
        /\ seen' = seen
  /\ UNCHANGED <<row, book, tasks, risk, notices>>

\* The account and the position are read, the equity observed, and the engine
\* decides: an exit that was hit comes before the signal, and is all it does.
ReadAccount(s, k) ==
  LET c == loop[s][k].c
      p == book[s].pos
  IN  /\ Runs(s, k, "read") /\ loop[s][k].mode = "paper" /\ ~Orphan(s)
      /\ \E eq \in Equities, exit \in BOOLEAN :
           LET plan == IF exit THEN ExitPlan ELSE PlanActions(c.intent, SideOf(p), AllowShort)
           IN  /\ exit => p # Flat
               /\ risk' = [risk EXCEPT ![s] = ObserveEquity(@ # None, @, eq)]
               /\ Goto(s, k, NextStage(plan), [c EXCEPT !.plan = plan, !.equity = eq, !.pos = p])
      /\ UNCHANGED <<row, book, tasks, seen, notices>>

\* connect, get_account or get_positions raises - always for a deleted strategy,
\* whose rows violate a foreign key: the session is rolled back and an error
\* outcome is recorded.
ReadFails(s, k) ==
  LET c == loop[s][k].c
  IN  /\ Runs(s, k, "read") /\ loop[s][k].mode = "paper"
      /\ \/ Orphan(s) /\ risk' = risk
         \/ /\ ~Orphan(s) /\ "read" \in Enabled
            /\ \/ risk' = risk
               \/ \E eq \in Equities : risk' = [risk EXCEPT ![s] = ObserveEquity(@ # None, @, eq)]
      /\ Goto(s, k, "settle", [c EXCEPT !.errored = TRUE])
      /\ UNCHANGED <<row, book, tasks, seen, notices>>

\* A live strategy without a broker connection: an error outcome, nothing read.
NoAdapter(s, k) ==
  /\ Runs(s, k, "read") /\ loop[s][k].mode = "live"
  /\ Goto(s, k, "settle", [loop[s][k].c EXCEPT !.errored = TRUE])
  /\ UNCHANGED <<row, book, tasks, seen, risk, notices>>

\* The order at hand: the close of the plan, or the open once the close is gone,
\* whatever became of it.
ClosePending(s, k) == Runs(s, k, "trade") /\ loop[s][k].c.plan.close
OpenPending(s, k)  == Runs(s, k, "trade") /\ ~loop[s][k].c.plan.close

Approved(s, c, oversized, throttled) ==
  Veto(risk[s], c.equity, RiskCfg, oversized, throttled) = "none"

\* The close fills: the ledger position is dropped, and the result of the close
\* counts towards the day.  No risk check stands before it.
CloseFills(s, k) ==
  LET c == loop[s][k].c
      plan == [c.plan EXCEPT !.close = FALSE]
  IN  /\ ClosePending(s, k) /\ ~c.broken
      /\ risk[s].open > -CountBound
      /\ \E pnl \in Pnls :
           /\ risk[s].daily + pnl \in -PnlBound..PnlBound
           /\ book[s].closed + c.real + pnl \in -PnlBound..PnlBound
           /\ risk' = [risk EXCEPT ![s] = AfterClose(@, pnl)]
           /\ Goto(s, k, NextStage(plan),
                   [c EXCEPT !.plan = plan, !.pos = Flat, !.filled = @ - c.pos,
                             !.real = @ + pnl, !.wrote = TRUE])
      /\ UNCHANGED <<row, book, tasks, seen, notices>>

\* The open is approved and fills at once.
OpenFills(s, k) ==
  LET c == loop[s][k].c
  IN  /\ OpenPending(s, k) /\ ~c.broken
      /\ Approved(s, c, FALSE, FALSE)
      /\ risk[s].open < CountBound
      /\ risk' = [risk EXCEPT ![s] = AfterOpen(@)]
      /\ Goto(s, k, "settle",
              [c EXCEPT !.plan = NoPlan, !.pos = @ + c.plan.open,
                        !.filled = @ + c.plan.open, !.wrote = TRUE])
      /\ UNCHANGED <<row, book, tasks, seen, notices>>

\* The open does not reach the broker: the instrument's grid rejects it before
\* the risk gate sees it, or the gate vetoes it; a drawdown trips the switch.
OpenRejected(s, k) ==
  LET c == loop[s][k].c
      c2(halts) == [c EXCEPT !.plan = NoPlan, !.halted = halts]
  IN  /\ OpenPending(s, k)
      /\ \/ risk' = risk /\ Goto(s, k, "settle", c2(FALSE))
         \/ \E oversized, throttled \in BOOLEAN :
              LET rule == Veto(risk[s], c.equity, RiskCfg, oversized, throttled)
              IN  /\ rule # "none"
                  /\ risk' = [risk EXCEPT ![s] = AfterVeto(@, rule, RiskCfg)]
                  /\ Goto(s, k, "settle", c2(Halts(rule, RiskCfg)))
      /\ UNCHANGED <<row, book, tasks, seen, notices>>

\* place_order raises, because the flush failed or an earlier flush of this
\* session did.  The engine turns that into an error outcome and goes on with
\* the plan; the session stays unusable.
OrderFails(s, k) ==
  LET c == loop[s][k].c
      plan == IF c.plan.close THEN [c.plan EXCEPT !.close = FALSE] ELSE NoPlan
  IN  /\ \/ ClosePending(s, k)
         \/ OpenPending(s, k) /\ Approved(s, c, FALSE, FALSE)
      /\ c.broken \/ "place" \in Enabled
      /\ Goto(s, k, NextStage(plan),
              [c EXCEPT !.plan = plan, !.broken = TRUE, !.errored = TRUE])
      /\ UNCHANGED <<row, book, tasks, seen, risk, notices>>

\* The consecutive errors after a cycle, saturating at the limit that halts.
ErrorsAfter(errors, c) ==
  IF ~c.errored THEN 0 ELSE IF errors < MaxErrors THEN errors + 1 ELSE MaxErrors

\* What the commit of a session leaves in the ledger and the order records.
\* MSkipsCloses: a close that leaves no position is not recorded.  MDropsReversal:
\* of a reversal only the open is recorded.
MSkipsCloses(b, c) ==
  [pos    |-> IF c.wrote THEN c.pos ELSE b.pos,
   net    |-> IF c.wrote /\ c.pos = Flat THEN b.net ELSE b.net + c.filled,
   closed |-> b.closed + c.real]
MDropsReversal(b, c) ==
  [pos    |-> IF c.wrote THEN c.pos ELSE b.pos,
   net    |-> IF c.wrote /\ c.pos # Flat THEN b.net + c.pos ELSE b.net + c.filled,
   closed |-> b.closed + c.real]
Booked(b, c) ==
  [pos    |-> IF c.wrote THEN c.pos ELSE b.pos,
   net    |-> b.net + c.filled,
   closed |-> b.closed + c.real]

\* _update_instance and the commit: the fills, the records and the row's
\* accounting become durable together.
\* The commit of a task cancelled meanwhile may still have been executed.
Commit(s, k) ==
  LET c      == loop[s][k].c
      errors == ErrorsAfter(row[s].errors, c)
      halts  == c.halted \/ errors = MaxErrors
  IN  /\ At(s, k, "settle") /\ ~c.broken /\ ~Orphan(s)
      /\ row' = [row EXCEPT ![s] =
                   [status |-> IF halts THEN "halted" ELSE @.status,
                    errors |-> errors,
                    peak   |-> IF risk[s] = None THEN @.peak ELSE risk[s].peak]]
      /\ book' = [book EXCEPT ![s] = Booked(@, c)]
      /\ Goto(s, k, "broadcast", [c EXCEPT !.keep = ~halts])
      /\ UNCHANGED <<tasks, seen, risk, notices>>

\* The commit cannot succeed.
Unusable(s, c) == c.broken \/ Orphan(s)

\* MRetries: a failed commit is tried again with the same session.
MRetries(s, k) ==
  /\ Runs(s, k, "settle")
  /\ Unusable(s, loop[s][k].c) \/ "commit" \in Enabled
  /\ UNCHANGED vars

\* The session cannot be used (a failed flush), its rows no longer have a parent,
\* or the commit raises: the loop logs it and sleeps, the database is untouched,
\* and the RiskManager keeps what the cycle told it.
CycleLost(s, k) ==
  /\ Runs(s, k, "settle")
  /\ Unusable(s, loop[s][k].c) \/ "commit" \in Enabled
  /\ Goto(s, k, "sleep", NoCycle)
  /\ UNCHANGED <<row, book, tasks, seen, risk, notices>>

\* The broadcast is over: the loop sleeps until the next poll or, told to stop,
\* drops the strategy's entries by its id and ends.
Finish(s, k) ==
  /\ Runs(s, k, "broadcast")
  /\ IF loop[s][k].c.keep
     THEN /\ Goto(s, k, "sleep", NoCycle)
          /\ UNCHANGED <<tasks, seen>>
     ELSE /\ loop' = [loop EXCEPT ![s][k] = FreeTask]
          /\ tasks' = [tasks EXCEPT ![s] = None]
          /\ seen' = [seen EXCEPT ![s] = FALSE]
  /\ UNCHANGED <<row, book, risk, notices>>

\* CancelledError reaches a cancelled task: its session is rolled back.
Aborted(s, k) ==
  /\ loop[s][k].cancelled
  /\ loop' = [loop EXCEPT ![s][k] = FreeTask]
  /\ UNCHANGED <<row, book, tasks, seen, risk, notices>>

-----------------------------------------------------------------------------
(***************************************************************************)
(* The HTTP handlers, the executor's notifications, and the environment.   *)
(***************************************************************************)

CanNotify == Len(notices) < MaxNotices

\* MStaleNotice: the notification carries the row as it was read.
MStaleNotice(kind, s, status) == [kind |-> kind, sid |-> s, status |-> row[s].status]
Notice(kind, s, status) == [kind |-> kind, sid |-> s, status |-> status]

\* PATCH .../status: the new status is committed, the notification follows.
PatchStatus(s, status) ==
  /\ CanNotify
  /\ <<row[s].status, status>> \in Requests
  /\ row' = [row EXCEPT ![s].status = status]
  /\ notices' = Append(notices, Notice("status", s, status))
  /\ UNCHANGED <<book, tasks, loop, seen, risk>>

\* PATCH .../config: the notification carries the status the handler read.
PatchConfig(s) ==
  /\ "config" \in Enabled /\ CanNotify
  /\ row[s].status # "gone"
  /\ notices' = Append(notices, Notice("config", s, row[s].status))
  /\ UNCHANGED <<row, book, tasks, loop, seen, risk>>

\* DELETE: the row and, by cascade, everything recorded under it.  The executor
\* is not told.
DeleteStrategy(s) ==
  /\ "delete" \in Enabled
  /\ row[s].status # "gone"
  /\ row' = [row EXCEPT ![s] = [status |-> "gone", errors |-> 0, peak |-> NoPeak]]
  /\ book' = [book EXCEPT ![s] = EmptyBook]
  /\ UNCHANGED <<tasks, loop, seen, risk, notices>>

\* Which statuses have a loop.  MStartsAny: no look at the status.
MStartsAny(status) == TRUE
Starts(status) == status \in Active

\* _stop: the entry and the cursor are dropped, the task is asked to end.
\* MForgetsTask: the entry is dropped and the task runs on.
MForgetsTask(s) == loop
Cancelled(s) == [loop EXCEPT ![s][tasks[s]].cancelled = TRUE]

\* notify_status_change.  A (re)activation of a strategy without a task releases
\* its halt; one with a task is left as it is.
NotifyStatus(s, status) ==
  IF Starts(status)
  THEN IF tasks[s] # None
       THEN UNCHANGED <<tasks, loop, seen, risk>>
       ELSE \E k \in Slots :
              /\ At(s, k, "free")
              /\ loop' = [loop EXCEPT ![s][k] = NewTask(status)]
              /\ tasks' = [tasks EXCEPT ![s] = k]
              /\ risk' = IF risk[s] = None THEN risk
                         ELSE [risk EXCEPT ![s] = Released(@)]
              /\ seen' = seen
  ELSE /\ loop' = IF tasks[s] = None THEN loop ELSE Cancelled(s)
       /\ tasks' = [tasks EXCEPT ![s] = None]
       /\ seen' = [seen EXCEPT ![s] = FALSE]
       /\ risk' = risk

\* notify_config_change: a running task is replaced.
NotifyConfig(s, status) ==
  IF tasks[s] # None /\ Starts(status)
  THEN \E k \in Slots :
         /\ At(s, k, "free")
         /\ loop' = [Cancelled(s) EXCEPT ![s][k] = NewTask(status)]
         /\ tasks' = [tasks EXCEPT ![s] = k]
         /\ seen' = [seen EXCEPT ![s] = FALSE]
         /\ risk' = risk
  ELSE UNCHANGED <<tasks, loop, seen, risk>>

Notify ==
  /\ notices # <<>>
  /\ LET n == Head(notices)
     IN  IF n.kind = "status" THEN NotifyStatus(n.sid, n.status)
                              ELSE NotifyConfig(n.sid, n.status)
  /\ notices' = Tail(notices)
  /\ UNCHANGED <<row, book>>

\* The process ends, gracefully or not, and boots: the active strategies are
\* rehydrated and launched.  A rehydration that fails, or has no adapter, leaves
\* no risk state; nor has a strategy that was not active.
Restart ==
  /\ "crash" \in Enabled
  /\ \E equity \in [Strategies -> Equities], slot \in [Strategies -> Slots],
        failed \in IF "rehydrate" \in Enabled THEN SUBSET Strategies ELSE {{}} :
       LET Boots(s) == Starts(row[s].status)
           Seeded(s) == row[s].status = "paper" /\ s \notin failed
           open(s) == IF book[s].pos = Flat THEN 0 ELSE 1
       IN  /\ tasks' = [s \in Strategies |-> IF Boots(s) THEN slot[s] ELSE None]
           /\ loop' = [s \in Strategies |-> [k \in Slots |->
                         IF Boots(s) /\ k = slot[s] THEN NewTask(row[s].status) ELSE FreeTask]]
           /\ risk' = [s \in Strategies |->
                         IF Seeded(s)
                         THEN SeedState(equity[s], open(s), row[s].peak, book[s].closed)
                         ELSE None]
  /\ seen' = [s \in Strategies |-> FALSE]
  /\ notices' = <<>>
  /\ UNCHANGED <<row, book>>

\* A bar closes.
NewBar(s) ==
  /\ seen[s]
  /\ seen' = [seen EXCEPT ![s] = FALSE]
  /\ UNCHANGED <<row, book, tasks, loop, risk, notices>>

\* A UTC midnight: the closes recorded so far are no longer today's.  Nothing
\* calls RiskManager.reset_daily_state.
Midnight ==
  /\ "midnight" \in Enabled
  /\ book' = [s \in Strategies |-> [book[s] EXCEPT !.closed = 0]]
  /\ loop' = [s \in Strategies |-> [k \in Slots |-> [loop[s][k] EXCEPT !.c.real = 0]]]
  /\ UNCHANGED <<row, tasks, seen, risk, notices>>

-----------------------------------------------------------------------------

Step(s, k) ==
  \/ StartCycle(s, k)
  \/ ReadAccount(s, k)
  \/ ReadFails(s, k)
  \/ NoAdapter(s, k)
  \/ CloseFills(s, k)
  \/ OpenFills(s, k)
  \/ OpenRejected(s, k)
  \/ OrderFails(s, k)
  \/ Commit(s, k)
  \/ CycleLost(s, k)
  \/ Finish(s, k)
  \/ Aborted(s, k)

Next ==
  \/ \E s \in Strategies, k \in Slots : Step(s, k)
  \/ \E s \in Strategies, status \in Statuses : PatchStatus(s, status)
  \/ \E s \in Strategies : PatchConfig(s) \/ DeleteStrategy(s) \/ NewBar(s)
  \/ Notify
  \/ Restart
  \/ Midnight

Spec == Init /\ [][Next]_vars

\* The event loop runs every ready task and every handler; the environment
\* (requests, deletions, restarts, bars, midnights) owes nothing.
Fairness ==
  /\ \A s \in Strategies, k \in Slots : WF_vars(Step(s, k))
  /\ WF_vars(Notify)

FairSpec == Spec /\ Fairness

-----------------------------------------------------------------------------
(***************************************************************************)
(* Safety.                                                                 *)
(***************************************************************************)

\* _tasks holds exactly the tasks that were not cancelled: whatever the order
\* of reloads, stops and exits, a strategy never has two loops that both go on
\* trading, and none goes on that the executor could not stop.
TaskTableExact ==
  \A s \in Strategies, k \in Slots :
    tasks[s] = k <=> loop[s][k].pc # "free" /\ ~loop[s][k].cancelled

\* Nothing is on its way that would still start or stop the loop of s.
Quiet(s) ==
  /\ \A i \in DOMAIN notices : notices[i].sid # s
  /\ \A k \in Slots : ~Runs(s, k, "broadcast")

\* "Manages one asyncio task per active (paper/live) strategy instance"
\* (strategy_executor.py:48): at rest a loop runs exactly for the active
\* rows, and in the mode the row names.
LoopMatchesRow ==
  \A s \in Strategies : Quiet(s) =>
    IF row[s].status \in Active
    THEN tasks[s] # None /\ loop[s][tasks[s]].mode = row[s].status
    ELSE tasks[s] = None

\* A strategy the user took out of trading has no loop once the handler has
\* notified the executor, however a halting cycle, a reload or an earlier
\* request of the user was interleaved with it.
StoppedStaysStopped ==
  \A s \in Strategies :
    Quiet(s) /\ row[s].status \in {"draft", "paused", "archived"} => tasks[s] = None

\* Fills and OrderRecords are atomic (simulated_adapter.py:13-15): whatever was
\* lost, cancelled or rolled back, the records account for the position.
FillsRecorded == \A s \in Strategies : book[s].pos = book[s].net

\* The engine only opens from flat or fully closes (simulated_adapter.py:10-11):
\* neither the ledger nor a session ever holds more than one entry, though the
\* engine ignores how the close of a reversal ended.
NeverPyramids ==
  \A s \in Strategies :
    /\ book[s].pos \in Positions
    /\ \A k \in Slots : loop[s][k].c.pos \in Positions

\* A deleted strategy stays deleted: its loop, which nobody stops, records
\* nothing under it.
GoneIsInert ==
  \A s \in Strategies : row[s].status = "gone" => book[s] = EmptyBook

\* The position, and of today's result what is staged, as the session of the
\* loop that runs sees them.
Held(s) ==
  IF \E k \in Slots : loop[s][k].c.wrote
  THEN loop[s][CHOOSE k \in Slots : loop[s][k].c.wrote].c.pos
  ELSE book[s].pos
Staged(s) ==
  IF \E k \in Slots : loop[s][k].c.wrote /\ ~At(s, k, "broadcast")
  THEN loop[s][CHOOSE k \in Slots : loop[s][k].c.wrote].c.real
  ELSE 0

\* The counters of the RiskManager, which no transaction protects, agree with
\* the ledger at every step: the open-position count with the position, the
\* daily result with the closes of the day (strategy_executor.py:91-92,
\* 124-125).  A restart at any point of a cycle restores both.
OpenCountExact ==
  \A s \in Strategies :
    risk[s] # None => risk[s].open = (IF Held(s) = Flat THEN 0 ELSE 1)
DailyPnlIsTodays ==
  \A s \in Strategies :
    risk[s] # None => risk[s].daily = book[s].closed + Staged(s)

\* A drawdown halt the RiskManager took reaches the strategy row: no strategy is
\* left active in the database, polling, with every order vetoed.
HaltReachesRow ==
  \A s \in Strategies :
    /\ risk[s] # None /\ risk[s].halted
    /\ \A k \in Slots : loop[s][k].pc \in {"free", "sleep"}
    => row[s].status \notin Active

(***************************************************************************)
(* Steps.                                                                  *)
(***************************************************************************)

\* The persisted high-water mark survives restarts (strategy_instance.py:47,
\* strategy_executor.py:452): it is never lowered while the strategy exists.
PeakNeverDecreases ==
  [][\A s \in Strategies : row'[s].status # "gone" => row'[s].peak >= row[s].peak]_vars

Halted(s) == risk[s] # None /\ risk[s].halted

\* "Requires explicit authorization - never auto-released" (risk_manager.py:183-
\* 187): only the user's change of the status, or the end of the process, releases
\* a halt; no reading of the account, reload of the configuration or close does.
HaltReleasedByUser ==
  [][\A s \in Strategies :
       Halted(s) /\ ~Halted(s)'
       => \/ Restart
          \/ Notify /\ Head(notices).kind = "status" /\ Head(notices).sid = s]_vars

\* While a strategy stays halted no order of it opens a position, whichever of
\* its loops is running: the positions in its sessions and the count of open
\* positions can only fall, by exits and closes.
HaltedNeverOpens ==
  [][\A s \in Strategies :
       Halted(s) /\ Halted(s)'
       => /\ risk'[s].open <= risk[s].open
          /\ \A k \in Slots :
               At(s, k, "trade") /\ loop[s][k].c.pos = Flat => loop'[s][k].c.pos = Flat]_vars

\* A failed cycle is accounted for (strategy_executor.py:356-361, "so error_count
\* advances and the strategy eventually halts"): a cycle with an error outcome that
\* is not cancelled nor cut off by the end of the process leaves the count higher,
\* or at the limit that halts the strategy.
ErrorsAdvance ==
  [][\A s \in Strategies, k \in Slots :
       LET ends == Runs(s, k, "settle") /\ loop'[s][k].pc # "settle"
       IN  ends /\ loop[s][k].c.errored /\ row[s].status # "gone" /\ ~Restart
           => row'[s].errors > row[s].errors \/ row'[s].errors = MaxErrors]_vars

(***************************************************************************)
(* Liveness.                                                               *)
(***************************************************************************)

\* Pausing a strategy ends its loop, whatever it was doing, unless the user
\* changes the status again first.
PauseEndsLoop ==
  \A s \in Strategies :
    row[s].status = "paused"
      ~> row[s].status # "paused" \/ \A k \in Slots : At(s, k, "free")

\* Every cycle ends: no failure leaves a loop that neither sleeps nor ended.
CycleEnds ==
  \A s \in Strategies, k \in Slots :
    loop[s][k].pc \in {"read", "trade", "settle", "broadcast"}
      ~> loop[s][k].pc \in {"sleep", "free"}

(***************************************************************************)
(* Refinement.                                                             *)
(***************************************************************************)

Log == INSTANCE TradeLog WITH
  Results <- Pnls \cup {0},
  status  <- [s \in Strategies |-> row[s].status],
  pos     <- [s \in Strategies |-> book[s].pos],
  net     <- [s \in Strategies |-> book[s].net],
  closed  <- [s \in Strategies |-> book[s].closed]

\* The database of the executor evolves as the trade log promises.
LogSpec == Log!Spec

=============================================================================
