--------------------------- MODULE ExecutorProofs ---------------------------
(***************************************************************************)
(* Theorems of Executor, for every number of strategies and slots, every   *)
(* risk configuration, every fault that may be enabled and every bound.    *)
(***************************************************************************)
EXTENDS Executor, TLAPS

(***************************************************************************)
(* The inductive invariant.                                                *)
(***************************************************************************)

\* A risk state stands behind every order at hand.
Armed == \A s \in Strategies, k \in Slots : At(s, k, "trade") => risk[s] \in Risks

\* Of all the tasks of a strategy, one at most is within a cycle.
Busy == {"read", "trade", "settle", "broadcast"}
Solo ==
  \A s \in Strategies, k, j \in Slots :
    loop[s][k].pc \in Busy /\ loop[s][j].pc \in Busy => k = j

\* The ledger is explained, holds one entry at most, and is empty for the deleted.
Ledger == FillsRecorded /\ GoneIsInert /\ \A s \in Strategies : book[s].pos \in Positions

\* What a session knows of the ledger it will commit to.
SessionOK(s, t) ==
  /\ t.c.pos \in Positions
  /\ t.pc = "read" =>
       /\ t.c.pos = Flat /\ t.c.filled = 0 /\ t.c.real = 0
       /\ ~t.c.wrote /\ ~t.c.broken
  /\ t.pc = "trade" /\ ~t.c.plan.close /\ ~t.c.broken => t.c.pos = Flat
  /\ t.pc \in {"trade", "settle"} /\ ~Orphan(s) /\ ~t.c.broken =>
       /\ IF t.c.wrote THEN t.c.pos = book[s].pos + t.c.filled ELSE t.c.filled = 0
       /\ t.pc = "trade" => t.c.pos = book[s].pos + t.c.filled

Sessions == \A s \in Strategies, k \in Slots : SessionOK(s, loop[s][k])

-----------------------------------------------------------------------------
(***************************************************************************)
(* Facts about the operators the actions are built from.                   *)
(***************************************************************************)

\* A plan is a close or not, and an open of a unit position or none.
LEMMA PlanTyped ==
  ASSUME NEW intent, NEW p \in Int, NEW short
  PROVE  PlanActions(intent, SideOf(p), short) \in Plans
  BY DEF PlanActions, SideOf, Wanted, Plans, Positions, Long, Flat, Short

\* A plan that opens without closing starts from no position.
LEMMA OpensFromFlat ==
  ASSUME NEW intent, NEW p \in Int, NEW short,
         PlanActions(intent, SideOf(p), short) # NoPlan,
         ~PlanActions(intent, SideOf(p), short).close
  PROVE  p = Flat
<1> DEFINE plan == PlanActions(intent, SideOf(p), short)
           move == intent # "none" /\ Wanted(intent) # SideOf(p)
<1>1. plan.close = (move /\ SideOf(p) # Flat)
  BY DEF PlanActions
<1>2. CASE move
  <2>1. SideOf(p) = Flat
    BY <1>1, <1>2
  <2> QED
    BY <2>1 DEF SideOf, Long, Flat, Short
<1>3. CASE ~move
  <2>1. plan = [close |-> FALSE, open |-> Flat]
    BY <1>3 DEF PlanActions
  <2> QED
    BY <2>1 DEF NoPlan
<1> QED
  BY <1>2, <1>3

\* What moving a task to another stage changes, and that it changes nothing else.
LEMMA GotoFacts ==
  ASSUME loop \in [Strategies -> [Slots -> Tasks]],
         NEW s \in Strategies, NEW k \in Slots,
         NEW stage \in Stages, NEW c \in Cycles, Goto(s, k, stage, c)
  PROVE  /\ loop' \in [Strategies -> [Slots -> Tasks]]
         /\ loop'[s][k].pc = stage /\ loop'[s][k].c = c
         /\ loop'[s][k].cancelled = loop[s][k].cancelled
         /\ \A t \in Strategies, j \in Slots :
              t # s \/ j # k => loop'[t][j] = loop[t][j]
<1>1. loop' = [loop EXCEPT ![s] = [loop[s] EXCEPT ![k] =
                 [loop[s][k] EXCEPT !.pc = stage, !.c = c]]]
  BY DEF Goto
<1>2. loop[s] \in [Slots -> Tasks] /\ loop[s][k] \in Tasks
  OBVIOUS
<1>3. [loop[s][k] EXCEPT !.pc = stage, !.c = c] \in Tasks
  BY <1>2 DEF Tasks
<1> QED
  BY <1>1, <1>2, <1>3 DEF Tasks

\* The cycle of a task is a record of its type.
LEMMA CycleTyped ==
  ASSUME loop \in [Strategies -> [Slots -> Tasks]],
         NEW s \in Strategies, NEW k \in Slots
  PROVE  /\ loop[s][k] \in Tasks
         /\ loop[s][k].c \in Cycles /\ loop[s][k].pc \in Stages
         /\ loop[s][k].cancelled \in BOOLEAN
  BY DEF Tasks

\* The idle cycle and the free slot have their types.
LEMMA NoCycleTyped == NoCycle \in Cycles /\ FreeTask \in Tasks
<1>1. NoPlan \in Plans
  BY DEF NoPlan, Plans, Positions, Flat
<1>2. NoCycle \in Cycles
  BY <1>1 DEF NoCycle, Cycles, Directions, Flat
<1> QED
  BY <1>2 DEF FreeTask, Tasks, Stages, Active

\* The risk rules keep risk states risk states.
LEMMA ObserveTyped ==
  ASSUME NEW st \in Risks \cup {None}, NEW eq \in Nat
  PROVE  ObserveEquity(st # None, st, eq) \in Risks
<1>1. CASE st # None
  <2>1. ObserveEquity(st # None, st, eq) = [st EXCEPT !.peak = Higher(@, eq)]
    BY <1>1 DEF ObserveEquity
  <2>2. [st EXCEPT !.peak = Higher(@, eq)] \in Risks
    BY <1>1 DEF Higher, Risks
  <2> QED
    BY <2>1, <2>2
<1>2. CASE st = None
  <2>1. ObserveEquity(st # None, st, eq) = FreshState(eq)
    BY <1>2 DEF ObserveEquity
  <2>2. FreshState(eq) \in Risks
    BY DEF FreshState, Risks
  <2> QED
    BY <2>1, <2>2
<1> QED
  BY <1>1, <1>2

\* The counters after a fill are a risk state.
LEMMA FillTyped ==
  ASSUME NEW st \in Risks
  PROVE  AfterOpen(st) \in Risks /\ \A pnl \in Int : AfterClose(st, pnl) \in Risks
<1>1. \A n, d \in Int : [st EXCEPT !.open = n] \in Risks
                       /\ [st EXCEPT !.open = n, !.daily = d] \in Risks
  BY DEF Risks
<1>2. /\ st.open + 1 \in Int /\ st.open - 1 \in Int
      /\ \A pnl \in Int : st.daily + pnl \in Int
  BY DEF Risks
<1> QED
  BY <1>1, <1>2 DEF AfterOpen, AfterClose

\* A veto leaves a risk state, halted or not.
LEMMA VetoTyped ==
  ASSUME NEW st \in Risks
  PROVE  \A rule : AfterVeto(st, rule, RiskCfg) \in Risks
<1>1. [st EXCEPT !.halted = TRUE] \in Risks
  BY DEF Risks
<1> QED
  BY <1>1 DEF AfterVeto

\* A release leaves a risk state.
LEMMA ReleaseTyped ==
  ASSUME NEW st \in Risks
  PROVE  Released(st) \in Risks
  BY DEF Risks, Released

\* A rehydration yields a risk state.
LEMMA SeedTyped ==
  ASSUME NEW eq \in Nat, NEW peak \in Nat, NEW n \in Int, NEW day \in Int
  PROVE  SeedState(eq, n, peak, day) \in Risks
  BY DEF Risks, SeedState, Higher

-----------------------------------------------------------------------------
(***************************************************************************)
(* Type correctness.                                                       *)
(***************************************************************************)

\* A risk state that changed is still one.
RiskKept == risk' \in [Strategies -> Risks \cup {None}]
            /\ \A t \in Strategies : risk[t] \in Risks => risk'[t] \in Risks

\* A step that gives one strategy a risk state keeps every order armed.
LEMMA RiskStep ==
  ASSUME TypeOK, NEW s \in Strategies, NEW st \in Risks,
         risk' = [risk EXCEPT ![s] = st]
  PROVE  RiskKept /\ risk'[s] \in Risks
  BY DEF RiskKept, TypeOK

\* So does a step that leaves the risk manager alone.
LEMMA RiskSame ==
  ASSUME TypeOK, risk' = risk
  PROVE  RiskKept
  BY DEF RiskKept, TypeOK

\* A step that moves one task keeps the types when its parts do.
LEMMA GotoTypes ==
  ASSUME TypeOK, Armed,
         NEW s \in Strategies, NEW k \in Slots,
         NEW stage \in Stages, NEW c \in Cycles, Goto(s, k, stage, c),
         row' \in [Strategies -> Rows], book' \in [Strategies -> Books],
         seen' \in [Strategies -> BOOLEAN], UNCHANGED <<tasks, notices>>,
         RiskKept, stage = "trade" => risk'[s] \in Risks
  PROVE  TypeOK' /\ Armed'
<1>1. loop \in [Strategies -> [Slots -> Tasks]]
  BY DEF TypeOK
<1>2. /\ loop' \in [Strategies -> [Slots -> Tasks]]
      /\ loop'[s][k].pc = stage
      /\ \A t \in Strategies, j \in Slots :
           t # s \/ j # k => loop'[t][j] = loop[t][j]
  BY <1>1, GotoFacts
<1>3. TypeOK'
  BY <1>2 DEF TypeOK, RiskKept
<1>4. Armed'
  BY <1>2 DEF Armed, At, RiskKept
<1> QED
  BY <1>3, <1>4

\* A plan leads to a stage of the cycle.
LEMMA StageTyped == \A plan : NextStage(plan) \in Stages
  BY DEF NextStage, Stages

\* The empty plan and the exit plan are plans.
LEMMA NoPlanTyped == NoPlan \in Plans /\ ExitPlan \in Plans
  BY DEF NoPlan, ExitPlan, Plans, Positions, Flat

\* The cycle's part of a step of the loop: the plan, the order, the outcome.
LEMMA CycleSteps ==
  ASSUME NEW c \in Cycles
  PROVE  /\ \A plan \in Plans, eq \in Nat, n \in Int :
              [c EXCEPT !.plan = plan, !.equity = eq, !.pos = n] \in Cycles
         /\ [c EXCEPT !.errored = TRUE] \in Cycles
         /\ \A plan \in Plans, n, m, r \in Int :
              [c EXCEPT !.plan = plan, !.pos = n, !.filled = m,
                        !.real = r, !.wrote = TRUE] \in Cycles
         /\ \A plan \in Plans, n, m \in Int :
              [c EXCEPT !.plan = plan, !.pos = n, !.filled = m, !.wrote = TRUE] \in Cycles
         /\ \A plan \in Plans, b \in BOOLEAN :
              [c EXCEPT !.plan = plan, !.halted = b] \in Cycles
         /\ \A plan \in Plans :
              [c EXCEPT !.plan = plan, !.broken = TRUE, !.errored = TRUE] \in Cycles
         /\ \A b \in BOOLEAN : [c EXCEPT !.keep = b] \in Cycles
<1>1. \A plan \in Plans, eq \in Nat, n \in Int :
         [c EXCEPT !.plan = plan, !.equity = eq, !.pos = n] \in Cycles
  BY DEF Cycles
<1>2. [c EXCEPT !.errored = TRUE] \in Cycles
  BY DEF Cycles
<1>3. \A plan \in Plans, n, m, r \in Int :
         [c EXCEPT !.plan = plan, !.pos = n, !.filled = m,
                   !.real = r, !.wrote = TRUE] \in Cycles
  BY DEF Cycles
<1>4. \A plan \in Plans, n, m \in Int :
         [c EXCEPT !.plan = plan, !.pos = n, !.filled = m, !.wrote = TRUE] \in Cycles
  BY DEF Cycles
<1>5. \A plan \in Plans :
         /\ \A b \in BOOLEAN : [c EXCEPT !.plan = plan, !.halted = b] \in Cycles
         /\ [c EXCEPT !.plan = plan, !.broken = TRUE, !.errored = TRUE] \in Cycles
  BY DEF Cycles
<1>6. \A b \in BOOLEAN : [c EXCEPT !.keep = b] \in Cycles
  BY DEF Cycles
<1> QED
  BY <1>1, <1>2, <1>3, <1>4, <1>5, <1>6

\* Each step of a loop keeps the types.
LEMMA StepTypes ==
  ASSUME TypeOK, Armed, NEW s \in Strategies, NEW k \in Slots, Step(s, k)
  PROVE  TypeOK' /\ Armed'
<1> USE ExecutorAssumption
<1> DEFINE t == loop[s][k]
           c == loop[s][k].c
<1>0. /\ t \in Tasks /\ c \in Cycles /\ c.plan \in Plans /\ c.pos \in Int
      /\ c.filled \in Int /\ c.real \in Int /\ c.plan.open \in Int
      /\ row[s] \in Rows /\ book[s] \in Books /\ risk[s] \in Risks \cup {None}
      /\ tasks \in [Strategies -> Slots \cup {None}]
      /\ row \in [Strategies -> Rows] /\ book \in [Strategies -> Books]
      /\ seen \in [Strategies -> BOOLEAN]
  BY CycleTyped DEF TypeOK, Cycles, Plans, Positions, Long, Short, Flat
<1>1. CASE StartCycle(s, k)
  <2>1. PICK c2 \in Cycles : Goto(s, k, "read", c2)
    <3>1. CASE Goto(s, k, "read", NoCycle)
      BY <3>1, NoCycleTyped
    <3>2. ASSUME NEW i \in Intents \cup {"none"},
                 Goto(s, k, "read", [NoCycle EXCEPT !.intent = i])
          PROVE  \E c2 \in Cycles : Goto(s, k, "read", c2)
      <4>1. i \in Directions \cup {"none"} /\ (i # "none") \in BOOLEAN
        OBVIOUS
      <4>2. [NoCycle EXCEPT !.intent = i] \in Cycles
        BY <4>1, NoCycleTyped DEF Cycles
      <4> QED
        BY <3>2, <4>2
    <3> QED
      BY <1>1, <3>1, <3>2 DEF StartCycle
  <2>2. seen' \in [Strategies -> BOOLEAN]
    BY <1>0, <1>1 DEF StartCycle
  <2>3. UNCHANGED <<row, book, tasks, risk, notices>>
    BY <1>1 DEF StartCycle
  <2> QED
    BY <1>0, <2>1, <2>2, <2>3, RiskSame, GotoTypes DEF Stages
<1>2. CASE ReadAccount(s, k)
  <2>1. PICK eq \in Equities, exit \in BOOLEAN :
          LET plan == IF exit THEN ExitPlan ELSE PlanActions(c.intent, SideOf(book[s].pos), AllowShort)
          IN  /\ risk' = [risk EXCEPT ![s] = ObserveEquity(@ # None, @, eq)]
              /\ Goto(s, k, NextStage(plan),
                      [c EXCEPT !.plan = plan, !.equity = eq, !.pos = book[s].pos])
    BY <1>2 DEF ReadAccount
  <2> DEFINE plan == IF exit THEN ExitPlan ELSE PlanActions(c.intent, SideOf(book[s].pos), AllowShort)
             c2 == [c EXCEPT !.plan = plan, !.equity = eq, !.pos = book[s].pos]
             st == ObserveEquity(risk[s] # None, risk[s], eq)
  <2>2. eq \in Nat /\ book[s].pos \in Int
    BY <1>0 DEF Books
  <2>3. plan \in Plans
    BY <2>2, NoPlanTyped, PlanTyped
  <2>4. c2 \in Cycles
    <3> HIDE DEF plan
    <3> QED
      BY <1>0, <2>2, <2>3, CycleSteps
  <2>5. st \in Risks
    BY <1>0, <2>2, ObserveTyped
  <2>6. RiskKept /\ risk'[s] \in Risks
    <3>1. risk' = [risk EXCEPT ![s] = st]
      BY <2>1 DEF TypeOK
    <3> HIDE DEF st
    <3> QED
      BY <2>5, <3>1, RiskStep
  <2>7. UNCHANGED <<row, book, tasks, seen, notices>>
    BY <1>2 DEF ReadAccount
  <2>8. Goto(s, k, NextStage(plan), c2)
    BY <2>1
  <2> HIDE DEF plan, c2
  <2> QED
    BY <1>0, <2>4, <2>6, <2>7, <2>8, StageTyped, GotoTypes
<1>3. CASE ReadFails(s, k)
  <2> DEFINE c2 == [c EXCEPT !.errored = TRUE]
  <2>1. Goto(s, k, "settle", c2) /\ UNCHANGED <<row, book, tasks, seen, notices>>
    BY <1>3 DEF ReadFails
  <2>2. c2 \in Cycles
    BY <1>0, NoPlanTyped, CycleSteps
  <2>3. RiskKept
    <3>1. CASE risk' = risk
      BY <3>1, RiskSame
    <3>2. ASSUME NEW eq \in Equities,
                 risk' = [risk EXCEPT ![s] = ObserveEquity(@ # None, @, eq)]
          PROVE  RiskKept
      <4> DEFINE st == ObserveEquity(risk[s] # None, risk[s], eq)
      <4>1. st \in Risks
        BY <1>0, ObserveTyped
      <4>2. risk' = [risk EXCEPT ![s] = st]
        BY <3>2 DEF TypeOK
      <4> HIDE DEF st
      <4> QED
        BY <4>1, <4>2, RiskStep
    <3> QED
      BY <1>3, <3>1, <3>2 DEF ReadFails
  <2> HIDE DEF c2
  <2> QED
    BY <1>0, <2>1, <2>2, <2>3, GotoTypes DEF Stages
<1>4. CASE NoAdapter(s, k)
  <2>1. /\ Goto(s, k, "settle", [c EXCEPT !.errored = TRUE])
        /\ UNCHANGED <<row, book, tasks, seen, risk, notices>>
    BY <1>4 DEF NoAdapter
  <2>2. [c EXCEPT !.errored = TRUE] \in Cycles
    BY <1>0, NoPlanTyped, CycleSteps
  <2> QED
    BY <1>0, <2>1, <2>2, RiskSame, GotoTypes DEF Stages
<1>5. CASE CloseFills(s, k)
  <2> DEFINE plan == [c.plan EXCEPT !.close = FALSE]
  <2>1. PICK pnl \in Pnls :
          /\ risk' = [risk EXCEPT ![s] = AfterClose(@, pnl)]
          /\ Goto(s, k, NextStage(plan),
                  [c EXCEPT !.plan = plan, !.pos = Flat, !.filled = @ - c.pos,
                            !.real = @ + pnl, !.wrote = TRUE])
    BY <1>5 DEF CloseFills
  <2> DEFINE c2 == [c EXCEPT !.plan = plan, !.pos = Flat, !.filled = c.filled - c.pos,
                             !.real = c.real + pnl, !.wrote = TRUE]
  <2>2. plan \in Plans
    BY <1>0 DEF Plans
  <2>3. c2 \in Cycles
    <3>1. Flat \in Int /\ c.filled - c.pos \in Int /\ c.real + pnl \in Int
      BY <1>0 DEF Flat
    <3> HIDE DEF plan
    <3> QED
      BY <1>0, <2>2, <3>1, CycleSteps
  <2>4. Goto(s, k, NextStage(plan), c2)
    BY <1>0, <2>1 DEF Cycles
  <2>5. RiskKept /\ risk'[s] \in Risks
    <3>1. risk[s] \in Risks
      BY <1>5 DEF CloseFills, ClosePending, Runs, Armed
    <3>2. AfterClose(risk[s], pnl) \in Risks
      BY <3>1, FillTyped
    <3>3. risk' = [risk EXCEPT ![s] = AfterClose(risk[s], pnl)]
      BY <2>1 DEF TypeOK
    <3> QED
      BY <3>2, <3>3, RiskStep
  <2>6. UNCHANGED <<row, book, tasks, seen, notices>>
    BY <1>5 DEF CloseFills
  <2> HIDE DEF plan, c2
  <2> QED
    BY <1>0, <2>3, <2>4, <2>5, <2>6, StageTyped, GotoTypes
<1>6. CASE OpenFills(s, k)
  <2> DEFINE c2 == [c EXCEPT !.plan = NoPlan, !.pos = c.pos + c.plan.open,
                             !.filled = c.filled + c.plan.open, !.wrote = TRUE]
  <2>1. Goto(s, k, "settle", c2) /\ UNCHANGED <<row, book, tasks, seen, notices>>
    BY <1>0, <1>6 DEF OpenFills, Cycles
  <2>2. c2 \in Cycles
    <3>1. c.pos + c.plan.open \in Int /\ c.filled + c.plan.open \in Int
      BY <1>0
    <3> QED
      BY <1>0, <3>1, NoPlanTyped, CycleSteps
  <2>3. RiskKept
    <3>1. risk[s] \in Risks
      BY <1>6 DEF OpenFills, OpenPending, Runs, Armed
    <3>2. AfterOpen(risk[s]) \in Risks
      BY <3>1, FillTyped
    <3>3. risk' = [risk EXCEPT ![s] = AfterOpen(risk[s])]
      BY <1>6 DEF OpenFills, TypeOK
    <3> QED
      BY <3>2, <3>3, RiskStep
  <2> HIDE DEF c2
  <2> QED
    BY <1>0, <2>1, <2>2, <2>3, GotoTypes DEF Stages
<1>7. CASE OpenRejected(s, k)
  <2>0. UNCHANGED <<row, book, tasks, seen, notices>>
    BY <1>7 DEF OpenRejected
  <2>1. ASSUME NEW b \in BOOLEAN, RiskKept,
               Goto(s, k, "settle", [c EXCEPT !.plan = NoPlan, !.halted = b])
        PROVE  TypeOK' /\ Armed'
    <3>1. [c EXCEPT !.plan = NoPlan, !.halted = b] \in Cycles
      BY <1>0, NoPlanTyped, CycleSteps
    <3> QED
      BY <1>0, <2>0, <2>1, <3>1, GotoTypes DEF Stages
  <2>2. CASE risk' = risk /\ Goto(s, k, "settle", [c EXCEPT !.plan = NoPlan, !.halted = FALSE])
    BY <2>1, <2>2, RiskSame
  <2>3. ASSUME NEW rule,
               risk' = [risk EXCEPT ![s] = AfterVeto(@, rule, RiskCfg)],
               Goto(s, k, "settle", [c EXCEPT !.plan = NoPlan, !.halted = Halts(rule, RiskCfg)])
        PROVE  TypeOK' /\ Armed'
    <3>1. risk[s] \in Risks
      BY <1>7 DEF OpenRejected, OpenPending, Runs, Armed
    <3>2. AfterVeto(risk[s], rule, RiskCfg) \in Risks
      BY <3>1, VetoTyped
    <3>3. risk' = [risk EXCEPT ![s] = AfterVeto(risk[s], rule, RiskCfg)]
      BY <2>3 DEF TypeOK
    <3>4. RiskKept
      BY <3>2, <3>3, RiskStep
    <3>5. Halts(rule, RiskCfg) \in BOOLEAN
      BY DEF Halts
    <3> QED
      BY <2>1, <2>3, <3>4, <3>5
  <2> QED
    BY <1>7, <2>2, <2>3 DEF OpenRejected
<1>8. CASE OrderFails(s, k)
  <2> DEFINE plan == IF c.plan.close THEN [c.plan EXCEPT !.close = FALSE] ELSE NoPlan
             c2 == [c EXCEPT !.plan = plan, !.broken = TRUE, !.errored = TRUE]
  <2>1. /\ Goto(s, k, NextStage(plan), c2)
        /\ UNCHANGED <<row, book, tasks, seen, risk, notices>>
    BY <1>8 DEF OrderFails
  <2>2. plan \in Plans
    BY <1>0, NoPlanTyped DEF Plans
  <2>3. c2 \in Cycles
    <3> HIDE DEF plan
    <3> QED
      BY <1>0, <2>2, CycleSteps
  <2>4. risk'[s] \in Risks
    BY <1>8, <2>1 DEF OrderFails, ClosePending, OpenPending, Runs, Armed
  <2> HIDE DEF plan, c2
  <2> QED
    BY <1>0, <2>1, <2>3, <2>4, RiskSame, StageTyped, GotoTypes
<1>9. CASE Commit(s, k)
  <2> DEFINE errors == ErrorsAfter(row[s].errors, c)
             halts == c.halted \/ errors = MaxErrors
             r2 == [status |-> IF halts THEN "halted" ELSE row[s].status,
                    errors |-> errors,
                    peak   |-> IF risk[s] = None THEN row[s].peak ELSE risk[s].peak]
  <2>1. row' = [row EXCEPT ![s] = r2] /\ book' = [book EXCEPT ![s] = Booked(book[s], c)]
    BY <1>0, <1>9 DEF Commit
  <2>2. r2 \in Rows
    <3>1. errors \in 0..MaxErrors
      BY <1>0 DEF ErrorsAfter, Rows
    <3>2. (IF risk[s] = None THEN row[s].peak ELSE risk[s].peak) \in Nat
      BY <1>0 DEF Rows, Risks
    <3>3. (IF halts THEN "halted" ELSE row[s].status) \in Statuses
      BY <1>0 DEF Rows, Statuses
    <3> QED
      BY <3>1, <3>2, <3>3 DEF Rows
  <2>3. Booked(book[s], c) \in Books
    BY <1>0 DEF Booked, Books
  <2>4. row' \in [Strategies -> Rows] /\ book' \in [Strategies -> Books]
    <3> HIDE DEF r2
    <3> QED
      BY <1>0, <2>1, <2>2, <2>3
  <2>5. Goto(s, k, "broadcast", [c EXCEPT !.keep = ~halts]) /\ UNCHANGED <<tasks, seen, risk, notices>>
    BY <1>9 DEF Commit
  <2>6. [c EXCEPT !.keep = ~halts] \in Cycles
    <3>1. (~halts) \in BOOLEAN
      OBVIOUS
    <3> HIDE DEF halts
    <3> QED
      BY <1>0, <3>1, NoPlanTyped, CycleSteps
  <2> HIDE DEF halts
  <2> QED
    BY <1>0, <2>4, <2>5, <2>6, RiskSame, GotoTypes DEF Stages
<1>10. CASE CycleLost(s, k)
  <2>1. Goto(s, k, "sleep", NoCycle) /\ UNCHANGED <<row, book, tasks, seen, risk, notices>>
    BY <1>10 DEF CycleLost
  <2> QED
    BY <1>0, <2>1, NoCycleTyped, RiskSame, GotoTypes DEF Stages
<1>11. CASE Finish(s, k)
  <2>1. CASE loop[s][k].c.keep
    <3>1. Goto(s, k, "sleep", NoCycle) /\ UNCHANGED <<row, book, tasks, seen, risk, notices>>
      BY <1>11, <2>1 DEF Finish
    <3> QED
      BY <1>0, <3>1, NoCycleTyped, RiskSame, GotoTypes DEF Stages
  <2>2. CASE ~loop[s][k].c.keep
    <3>1. /\ loop' = [loop EXCEPT ![s] = [loop[s] EXCEPT ![k] = FreeTask]]
          /\ tasks' = [tasks EXCEPT ![s] = None]
          /\ seen' = [seen EXCEPT ![s] = FALSE]
          /\ UNCHANGED <<row, book, risk, notices>>
      BY <1>11, <2>2 DEF Finish
    <3> QED
      BY <3>1, NoCycleTyped DEF TypeOK, Armed, At, FreeTask
  <2> QED
    BY <2>1, <2>2
<1>12. CASE Aborted(s, k)
  <2>1. loop' = [loop EXCEPT ![s] = [loop[s] EXCEPT ![k] = FreeTask]]
    BY <1>12 DEF Aborted
  <2>2. UNCHANGED <<row, book, tasks, seen, risk, notices>>
    BY <1>12 DEF Aborted
  <2> QED
    BY <2>1, <2>2, NoCycleTyped DEF TypeOK, Armed, At, FreeTask
<1> QED
  BY <1>1, <1>2, <1>3, <1>4, <1>5, <1>6, <1>7, <1>8, <1>9, <1>10, <1>11, <1>12 DEF Step

\* What _stop does to the tasks of s.
LEMMA CancelFacts ==
  ASSUME TypeOK, NEW s \in Strategies, tasks[s] # None
  PROVE  /\ Cancelled(s) \in [Strategies -> [Slots -> Tasks]]
         /\ \A t \in Strategies, j \in Slots :
              /\ Cancelled(s)[t][j].pc = loop[t][j].pc
              /\ Cancelled(s)[t][j].c = loop[t][j].c
              /\ Cancelled(s)[t][j].cancelled <=>
                   loop[t][j].cancelled \/ (t = s /\ j = tasks[s])
<1>1. PICK k \in Slots : k = tasks[s]
  BY DEF TypeOK
<1>2. loop \in [Strategies -> [Slots -> Tasks]] /\ loop[s][k] \in Tasks
  BY DEF TypeOK
<1>3. PICK u \in Tasks : u = [loop[s][k] EXCEPT !.cancelled = TRUE]
  BY <1>2 DEF Tasks
<1>4. u.pc = loop[s][k].pc /\ u.c = loop[s][k].c /\ u.cancelled
  BY <1>2, <1>3 DEF Tasks
<1>5. Cancelled(s) = [loop EXCEPT ![s] = [loop[s] EXCEPT ![k] = u]]
  BY <1>1, <1>3 DEF Cancelled
<1>6. /\ Cancelled(s) \in [Strategies -> [Slots -> Tasks]]
      /\ Cancelled(s)[s][k] = u
      /\ \A t \in Strategies, j \in Slots : t # s \/ j # k => Cancelled(s)[t][j] = loop[t][j]
  BY <1>2, <1>5
<1>7. ASSUME NEW t \in Strategies, NEW j \in Slots
      PROVE  /\ Cancelled(s)[t][j].pc = loop[t][j].pc
             /\ Cancelled(s)[t][j].c = loop[t][j].c
             /\ Cancelled(s)[t][j].cancelled <=>
                  loop[t][j].cancelled \/ (t = s /\ j = tasks[s])
  <2>1. CASE t = s /\ j = k
    BY <1>1, <1>4, <1>6, <2>1
  <2>2. CASE t # s \/ j # k
    BY <1>1, <1>6, <2>2
  <2> QED
    BY <2>1, <2>2
<1> QED
  BY <1>6, <1>7

\* A new task sleeps, idle and not asked to end.
LEMMA NewTaskFacts ==
  ASSUME NEW status
  PROVE  /\ NewTask(status).pc = "sleep" /\ NewTask(status).c = NoCycle
         /\ ~NewTask(status).cancelled
         /\ status \in Active => NewTask(status) \in Tasks
  BY NoCycleTyped DEF NewTask, Tasks, Stages, FreeTask

\* A notification keeps the types of what it changes.
LEMMA NotifyStatusTypes ==
  ASSUME TypeOK, Armed, NEW s \in Strategies, NEW status, NotifyStatus(s, status)
  PROVE  /\ tasks' \in [Strategies -> Slots \cup {None}]
         /\ loop' \in [Strategies -> [Slots -> Tasks]]
         /\ seen' \in [Strategies -> BOOLEAN] /\ RiskKept
         /\ \A t \in Strategies, j \in Slots : loop'[t][j].pc = "trade" => loop[t][j].pc = "trade"
<1>0. /\ loop \in [Strategies -> [Slots -> Tasks]] /\ seen \in [Strategies -> BOOLEAN]
      /\ tasks \in [Strategies -> Slots \cup {None}] /\ risk[s] \in Risks \cup {None}
  BY DEF TypeOK
<1>1. CASE Starts(status) /\ tasks[s] # None
  BY <1>0, <1>1, RiskSame DEF NotifyStatus
<1>2. CASE Starts(status) /\ tasks[s] = None
  <2>1. PICK k \in Slots :
          /\ loop' = [loop EXCEPT ![s][k] = NewTask(status)]
          /\ tasks' = [tasks EXCEPT ![s] = k]
          /\ risk' = IF risk[s] = None THEN risk ELSE [risk EXCEPT ![s] = Released(@)]
          /\ seen' = seen
    BY <1>2 DEF NotifyStatus
  <2>2. PICK u : u = NewTask(status)
    OBVIOUS
  <2>3. u \in Tasks /\ u.pc = "sleep"
    BY <1>2, <2>2, NewTaskFacts DEF Starts
  <2>4. /\ loop' \in [Strategies -> [Slots -> Tasks]] /\ loop'[s][k] = u
        /\ \A t \in Strategies, j \in Slots : t # s \/ j # k => loop'[t][j] = loop[t][j]
    <3>1. loop' = [loop EXCEPT ![s] = [loop[s] EXCEPT ![k] = u]]
      BY <2>1, <2>2
    <3> QED
      BY <1>0, <2>3, <3>1
  <2>5. RiskKept
    <3>1. CASE risk[s] = None
      BY <2>1, <3>1, RiskSame
    <3>2. CASE risk[s] # None
      <4>1. Released(risk[s]) \in Risks
        BY <1>0, <3>2, ReleaseTyped
      <4>2. risk' = [risk EXCEPT ![s] = Released(risk[s])]
        BY <2>1, <3>2
      <4> QED
        BY <4>1, <4>2, RiskStep
    <3> QED
      BY <3>1, <3>2
  <2> QED
    BY <1>0, <2>1, <2>3, <2>4, <2>5
<1>3. CASE ~Starts(status)
  <2>1. /\ loop' = IF tasks[s] = None THEN loop ELSE Cancelled(s)
        /\ tasks' = [tasks EXCEPT ![s] = None] /\ seen' = [seen EXCEPT ![s] = FALSE]
        /\ risk' = risk
    BY <1>3 DEF NotifyStatus
  <2>2. /\ loop' \in [Strategies -> [Slots -> Tasks]]
        /\ \A t \in Strategies, j \in Slots : loop'[t][j].pc = loop[t][j].pc
    BY <1>0, <2>1, CancelFacts
  <2> QED
    BY <1>0, <2>1, <2>2, RiskSame
<1> QED
  BY <1>1, <1>2, <1>3

\* A reload keeps the types of what it changes.
LEMMA NotifyConfigTypes ==
  ASSUME TypeOK, Armed, NEW s \in Strategies, NEW status, NotifyConfig(s, status)
  PROVE  /\ tasks' \in [Strategies -> Slots \cup {None}]
         /\ loop' \in [Strategies -> [Slots -> Tasks]]
         /\ seen' \in [Strategies -> BOOLEAN] /\ RiskKept
         /\ \A t \in Strategies, j \in Slots : loop'[t][j].pc = "trade" => loop[t][j].pc = "trade"
<1>0. /\ loop \in [Strategies -> [Slots -> Tasks]] /\ seen \in [Strategies -> BOOLEAN]
      /\ tasks \in [Strategies -> Slots \cup {None}]
  BY DEF TypeOK
<1>1. CASE tasks[s] # None /\ Starts(status)
  <2>1. PICK k \in Slots :
          /\ loop' = [Cancelled(s) EXCEPT ![s][k] = NewTask(status)]
          /\ tasks' = [tasks EXCEPT ![s] = k] /\ seen' = [seen EXCEPT ![s] = FALSE]
          /\ risk' = risk
    BY <1>1 DEF NotifyConfig
  <2>2. PICK u : u = NewTask(status)
    OBVIOUS
  <2>3. u \in Tasks /\ u.pc = "sleep"
    BY <1>1, <2>2, NewTaskFacts DEF Starts
  <2>4. /\ Cancelled(s) \in [Strategies -> [Slots -> Tasks]]
        /\ \A t \in Strategies, j \in Slots : Cancelled(s)[t][j].pc = loop[t][j].pc
    BY <1>1, CancelFacts
  <2>5. /\ loop' \in [Strategies -> [Slots -> Tasks]] /\ loop'[s][k] = u
        /\ \A t \in Strategies, j \in Slots : t # s \/ j # k => loop'[t][j] = Cancelled(s)[t][j]
    <3>1. PICK f \in [Strategies -> [Slots -> Tasks]] : f = Cancelled(s)
      BY <2>4
    <3>2. loop' = [f EXCEPT ![s] = [f[s] EXCEPT ![k] = u]]
      BY <2>1, <2>2, <3>1
    <3>3. /\ loop' \in [Strategies -> [Slots -> Tasks]] /\ loop'[s][k] = u
          /\ \A t \in Strategies, j \in Slots : t # s \/ j # k => loop'[t][j] = f[t][j]
      BY <2>3, <3>2
    <3> QED
      BY <3>1, <3>3
  <2>6. \A t \in Strategies, j \in Slots : loop'[t][j].pc = "trade" => loop[t][j].pc = "trade"
    BY <2>3, <2>4, <2>5
  <2> QED
    BY <1>0, <2>1, <2>5, <2>6, RiskSame
<1>2. CASE ~(tasks[s] # None /\ Starts(status))
  BY <1>0, <1>2, RiskSame DEF NotifyConfig
<1> QED
  BY <1>1, <1>2

\* So does every other step of the system.
LEMMA TypesInductive ==
  TypeOK /\ Armed /\ [Next]_vars => TypeOK' /\ Armed'
<1> SUFFICES ASSUME TypeOK, Armed, [Next]_vars
             PROVE  TypeOK' /\ Armed'
  OBVIOUS
<1> USE ExecutorAssumption
<1>1. ASSUME NEW s \in Strategies, NEW k \in Slots, Step(s, k)
      PROVE  TypeOK' /\ Armed'
  BY <1>1, StepTypes
<1>2. ASSUME NEW s \in Strategies, NEW status \in Statuses, PatchStatus(s, status)
      PROVE  TypeOK' /\ Armed'
  <2>1. row' = [row EXCEPT ![s] = [row[s] EXCEPT !.status = status]]
    BY <1>2 DEF PatchStatus
  <2>2. [row[s] EXCEPT !.status = status] \in Rows
    BY DEF TypeOK, Rows
  <2>3. row' \in [Strategies -> Rows]
    BY <2>1, <2>2 DEF TypeOK
  <2>4. Notice("status", s, status) \in Notices
    BY DEF Notice, Notices
  <2>5. notices' \in Seq(Notices)
    BY <1>2, <2>4 DEF PatchStatus, TypeOK
  <2> QED
    BY <1>2, <2>3, <2>5 DEF PatchStatus, TypeOK, Armed, At
<1>3. ASSUME NEW s \in Strategies, PatchConfig(s)
      PROVE  TypeOK' /\ Armed'
  <2>1. row[s].status \in Statuses
    BY DEF TypeOK, Rows
  <2>2. Notice("config", s, row[s].status) \in Notices
    BY <2>1 DEF Notice, Notices
  <2>3. notices' \in Seq(Notices)
    BY <1>3, <2>2 DEF PatchConfig, TypeOK
  <2> QED
    BY <1>3, <2>3 DEF PatchConfig, TypeOK, Armed, At
<1>4. ASSUME NEW s \in Strategies, DeleteStrategy(s)
      PROVE  TypeOK' /\ Armed'
  <2>1. /\ [status |-> "gone", errors |-> 0, peak |-> NoPeak] \in Rows
        /\ EmptyBook \in Books
    BY DEF Rows, Statuses, NoPeak, EmptyBook, Books, Flat
  <2>2. row' \in [Strategies -> Rows] /\ book' \in [Strategies -> Books]
    BY <1>4, <2>1 DEF DeleteStrategy, TypeOK
  <2> QED
    BY <1>4, <2>2 DEF DeleteStrategy, TypeOK, Armed, At
<1>5. ASSUME NEW s \in Strategies, NewBar(s)
      PROVE  TypeOK' /\ Armed'
  BY <1>5 DEF NewBar, TypeOK, Armed, At
<1>6. ASSUME Notify
      PROVE  TypeOK' /\ Armed'
  <2> DEFINE n == Head(notices)
  <2>1. /\ n.sid \in Strategies /\ n.status \in Statuses
        /\ notices' \in Seq(Notices) /\ UNCHANGED <<row, book>>
    <3>1. notices \in Seq(Notices) /\ notices # <<>>
      BY <1>6 DEF Notify, TypeOK
    <3>2. n \in Notices /\ Tail(notices) \in Seq(Notices)
      BY <3>1
    <3> QED
      BY <1>6, <3>2 DEF Notify, Notices
  <2>2. NotifyStatus(n.sid, n.status) \/ NotifyConfig(n.sid, n.status)
    BY <1>6 DEF Notify
  <2> HIDE DEF n
  <2>3. /\ tasks' \in [Strategies -> Slots \cup {None}]
        /\ loop' \in [Strategies -> [Slots -> Tasks]]
        /\ seen' \in [Strategies -> BOOLEAN] /\ RiskKept
        /\ \A t \in Strategies, j \in Slots : loop'[t][j].pc = "trade" => loop[t][j].pc = "trade"
    BY <2>1, <2>2, NotifyStatusTypes, NotifyConfigTypes
  <2>4. TypeOK'
    BY <2>1, <2>3 DEF TypeOK, RiskKept
  <2> QED
    BY <2>3, <2>4 DEF Armed, At, RiskKept
<1>7. ASSUME Restart
      PROVE  TypeOK' /\ Armed'
  <2>1. PICK equity \in [Strategies -> Equities], slot \in [Strategies -> Slots],
             failed \in IF "rehydrate" \in Enabled THEN SUBSET Strategies ELSE {{}} :
          /\ tasks' = [s \in Strategies |-> IF Starts(row[s].status) THEN slot[s] ELSE None]
          /\ loop' = [s \in Strategies |-> [k \in Slots |->
                        IF Starts(row[s].status) /\ k = slot[s]
                        THEN NewTask(row[s].status) ELSE FreeTask]]
          /\ risk' = [s \in Strategies |->
                        IF row[s].status = "paper" /\ s \notin failed
                        THEN SeedState(equity[s], IF book[s].pos = Flat THEN 0 ELSE 1,
                                       row[s].peak, book[s].closed)
                        ELSE None]
    BY <1>7 DEF Restart
  <2>2. /\ seen' = [s \in Strategies |-> FALSE] /\ notices' = <<>>
        /\ UNCHANGED <<row, book>>
    BY <1>7 DEF Restart
  <2>3. \A s \in Strategies : Starts(row[s].status) =>
          NewTask(row[s].status) \in Tasks /\ NewTask(row[s].status).pc = "sleep"
    BY NoCycleTyped DEF NewTask, Tasks, Stages, FreeTask, Starts
  <2>4. loop' \in [Strategies -> [Slots -> Tasks]]
    BY <2>1, <2>3, NoCycleTyped
  <2>5. \A s \in Strategies, k \in Slots : ~At(s, k, "trade")'
    BY <2>1, <2>3 DEF At, FreeTask
  <2>6. risk' \in [Strategies -> Risks \cup {None}]
    <3>1. ASSUME NEW s \in Strategies
          PROVE  SeedState(equity[s], IF book[s].pos = Flat THEN 0 ELSE 1,
                           row[s].peak, book[s].closed) \in Risks
      <4>1. /\ equity[s] \in Nat /\ row[s].peak \in Nat /\ book[s].closed \in Int
            /\ (IF book[s].pos = Flat THEN 0 ELSE 1) \in Int
        <5>1. equity[s] \in Equities
          BY <2>1
        <5>2. row[s] \in Rows /\ book[s] \in Books
          BY DEF TypeOK
        <5>3. equity[s] \in Nat
          BY <5>1
        <5>4. row[s].peak \in Nat /\ book[s].closed \in Int
          BY <5>2 DEF Rows, Books
        <5> QED
          BY <5>3, <5>4
      <4> QED
        BY <4>1, SeedTyped
    <3> QED
      BY <2>1, <3>1
  <2>7. tasks' \in [Strategies -> Slots \cup {None}]
    BY <2>1
  <2> QED
    BY <2>2, <2>4, <2>5, <2>6, <2>7 DEF TypeOK, Armed
<1>8. ASSUME Midnight
      PROVE  TypeOK' /\ Armed'
  <2>1. /\ book' = [s \in Strategies |-> [book[s] EXCEPT !.closed = 0]]
        /\ loop' = [s \in Strategies |-> [k \in Slots |-> [loop[s][k] EXCEPT !.c.real = 0]]]
        /\ UNCHANGED <<row, tasks, seen, risk, notices>>
    BY <1>8 DEF Midnight
  <2>2. ASSUME NEW s \in Strategies
        PROVE  [book[s] EXCEPT !.closed = 0] \in Books
    <3>1. book[s] \in Books
      BY DEF TypeOK
    <3> QED
      BY <3>1 DEF Books
  <2>3. ASSUME NEW s \in Strategies, NEW k \in Slots
        PROVE  /\ [loop[s][k] EXCEPT !.c.real = 0] \in Tasks
               /\ [loop[s][k] EXCEPT !.c.real = 0].pc = loop[s][k].pc
    <3>1. loop[s][k] \in Tasks /\ loop[s][k].c \in Cycles
      BY CycleTyped DEF TypeOK
    <3>2. [loop[s][k].c EXCEPT !.real = 0] \in Cycles
      BY <3>1 DEF Cycles
    <3>3. [loop[s][k] EXCEPT !.c.real = 0] =
            [loop[s][k] EXCEPT !.c = [loop[s][k].c EXCEPT !.real = 0]]
      OBVIOUS
    <3> QED
      BY <3>1, <3>2, <3>3 DEF Tasks
  <2>4. book' \in [Strategies -> Books] /\ loop' \in [Strategies -> [Slots -> Tasks]]
    BY <2>1, <2>2, <2>3
  <2>5. \A s \in Strategies, k \in Slots : loop'[s][k].pc = loop[s][k].pc
    BY <2>1, <2>3
  <2> QED
    BY <2>1, <2>4, <2>5 DEF TypeOK, Armed, At
<1>9. CASE UNCHANGED vars
  BY <1>9 DEF vars, TypeOK, Armed, At
<1> QED
  BY <1>1, <1>2, <1>3, <1>4, <1>5, <1>6, <1>7, <1>8, <1>9 DEF Next

\* Every variable keeps its type, and no order is ever at hand without a risk
\* state to check it against.
THEOREM TypeCorrect == Spec => [](TypeOK /\ Armed)
<1>1. Init => TypeOK /\ Armed
  <2> SUFFICES ASSUME Init PROVE TypeOK /\ Armed
    OBVIOUS
  <2>1. /\ [status |-> "draft", errors |-> 0, peak |-> NoPeak] \in Rows
        /\ EmptyBook \in Books
    BY ExecutorAssumption DEF Rows, Statuses, NoPeak, EmptyBook, Books, Flat
  <2>2. TypeOK
    BY <2>1, NoCycleTyped DEF Init, TypeOK
  <2>3. Armed
    BY DEF Init, Armed, At, FreeTask
  <2> QED
    BY <2>2, <2>3
<1> QED
  BY <1>1, TypesInductive, PTL DEF Spec

-----------------------------------------------------------------------------
(***************************************************************************)
(* The task table.  Steps are sorted by what they do to the tasks: move    *)
(* one, end one, launch one, or cancel one.                                *)
(***************************************************************************)

Moved(s, k) ==
  /\ ~At(s, k, "free") /\ tasks' = tasks
  /\ loop'[s][k].pc # "free" /\ loop'[s][k].cancelled = loop[s][k].cancelled
  /\ loop'[s][k].pc \in Busy =>
       loop[s][k].pc \in Busy \/ \A j \in Slots \ {k} : At(s, j, "free")
  /\ \A t \in Strategies, j \in Slots : t # s \/ j # k => loop'[t][j] = loop[t][j]

Ended(s, k) ==
  /\ ~At(s, k, "free")
  /\ loop' = [loop EXCEPT ![s] = [loop[s] EXCEPT ![k] = FreeTask]]
  /\ IF loop[s][k].cancelled THEN tasks' = tasks ELSE tasks' = [tasks EXCEPT ![s] = None]

\* Of the task j of t: it runs on, unless it is the current task of s.
Dropped(s, t, j) ==
  /\ loop'[t][j].pc = loop[t][j].pc /\ loop'[t][j].c = loop[t][j].c
  /\ loop'[t][j].cancelled <=> loop[t][j].cancelled \/ (t = s /\ j = tasks[s])

Launched(s, k) ==
  /\ At(s, k, "free") /\ tasks' = [tasks EXCEPT ![s] = k]
  /\ loop'[s][k].pc = "sleep" /\ loop'[s][k].c = NoCycle /\ ~loop'[s][k].cancelled
  /\ \A t \in Strategies, j \in Slots : t # s \/ j # k => Dropped(s, t, j)

Stopped(s) ==
  /\ tasks' = [tasks EXCEPT ![s] = None]
  /\ \A t \in Strategies, j \in Slots : Dropped(s, t, j)

\* A stage change of a task that does not end is a move.
LEMMA GotoMoves ==
  ASSUME TypeOK, NEW s \in Strategies, NEW k \in Slots,
         NEW stage \in Stages \ {"free"}, NEW c, Goto(s, k, stage, c),
         ~At(s, k, "free"), tasks' = tasks,
         stage \in Busy => loop[s][k].pc \in Busy \/ \A j \in Slots \ {k} : At(s, j, "free")
  PROVE  Moved(s, k)
<1>1. loop' = [loop EXCEPT ![s] = [loop[s] EXCEPT ![k] =
                 [loop[s][k] EXCEPT !.pc = stage, !.c = c]]]
  BY DEF Goto
<1>2. loop[s] \in [Slots -> Tasks] /\ loop[s][k] \in Tasks
  BY DEF TypeOK
<1>3. loop'[s][k] = [loop[s][k] EXCEPT !.pc = stage, !.c = c]
  BY <1>1, <1>2 DEF TypeOK
<1>4. loop'[s][k].pc = stage /\ loop'[s][k].cancelled = loop[s][k].cancelled
  BY <1>2, <1>3 DEF Tasks
<1>5. \A t \in Strategies, j \in Slots : t # s \/ j # k => loop'[t][j] = loop[t][j]
  BY <1>1, <1>2 DEF TypeOK
<1> QED
  BY <1>4, <1>5 DEF Moved

\* A plan leads to a stage of a running task.
LEMMA StageBusy == \A plan : NextStage(plan) \in Stages \ {"free"}
  BY DEF NextStage, Stages

\* Every step of a task moves it within its slot or ends it.
LEMMA StepShape ==
  ASSUME TypeOK, NEW s \in Strategies, NEW k \in Slots, Step(s, k), ~At(s, k, "free")
  PROVE  Moved(s, k) \/ Ended(s, k)
<1> DEFINE c == loop[s][k].c
<1>1. CASE StartCycle(s, k)
  <2>1. PICK c2 : Goto(s, k, "read", c2)
    BY <1>1 DEF StartCycle
  <2>2. tasks' = tasks /\ \A j \in Slots \ {k} : At(s, j, "free")
    BY <1>1 DEF StartCycle
  <2> QED
    BY <2>1, <2>2, GotoMoves DEF Stages
<1>2. CASE \/ ReadAccount(s, k) \/ ReadFails(s, k) \/ NoAdapter(s, k)
  <2>1. PICK stage, c2 : stage \in Stages \ {"free"} /\ Goto(s, k, stage, c2)
    <3>1. CASE ReadAccount(s, k)
      BY <3>1, StageBusy DEF ReadAccount
    <3>2. CASE ReadFails(s, k) \/ NoAdapter(s, k)
      BY <3>2 DEF ReadFails, NoAdapter, Stages
    <3> QED
      BY <1>2, <3>1, <3>2
  <2>2. At(s, k, "read") /\ tasks' = tasks
    BY <1>2 DEF ReadAccount, ReadFails, NoAdapter, Runs
  <2> QED
    BY <2>1, <2>2, GotoMoves DEF Busy, At
<1>3. CASE \/ CloseFills(s, k) \/ OpenFills(s, k) \/ OpenRejected(s, k) \/ OrderFails(s, k)
  <2>1. PICK stage, c2 : stage \in Stages \ {"free"} /\ Goto(s, k, stage, c2)
    <3>1. CASE CloseFills(s, k)
      BY <3>1, StageBusy DEF CloseFills
    <3>2. CASE OpenFills(s, k)
      BY <3>2 DEF OpenFills, Stages
    <3>3. CASE OpenRejected(s, k)
      BY <3>3 DEF OpenRejected, Stages
    <3>4. CASE OrderFails(s, k)
      BY <3>4, StageBusy DEF OrderFails
    <3> QED
      BY <1>3, <3>1, <3>2, <3>3, <3>4
  <2>2. At(s, k, "trade") /\ tasks' = tasks
    BY <1>3 DEF CloseFills, OpenFills, OpenRejected, OrderFails, ClosePending, OpenPending, Runs
  <2> QED
    BY <2>1, <2>2, GotoMoves DEF Busy, At
<1>4. CASE Commit(s, k)
  <2>1. PICK c2 : Goto(s, k, "broadcast", c2)
    BY <1>4 DEF Commit
  <2>2. At(s, k, "settle") /\ tasks' = tasks
    BY <1>4 DEF Commit
  <2> QED
    BY <2>1, <2>2, GotoMoves DEF Busy, At, Stages
<1>5. CASE CycleLost(s, k)
  <2>1. Goto(s, k, "sleep", NoCycle) /\ tasks' = tasks
    BY <1>5 DEF CycleLost
  <2> QED
    BY <2>1, GotoMoves DEF Busy, Stages
<1>6. CASE Finish(s, k)
  <2>1. CASE loop[s][k].c.keep
    <3>1. Goto(s, k, "sleep", NoCycle) /\ tasks' = tasks
      BY <1>6, <2>1 DEF Finish
    <3> QED
      BY <3>1, GotoMoves DEF Busy, Stages
  <2>2. CASE ~loop[s][k].c.keep
    <3>1. /\ loop' = [loop EXCEPT ![s] = [loop[s] EXCEPT ![k] = FreeTask]]
          /\ tasks' = [tasks EXCEPT ![s] = None] /\ ~loop[s][k].cancelled
      BY <1>6, <2>2 DEF Finish, Runs
    <3> QED
      BY <3>1 DEF Ended
  <2> QED
    BY <2>1, <2>2
<1>7. CASE Aborted(s, k)
  <2>1. /\ loop' = [loop EXCEPT ![s] = [loop[s] EXCEPT ![k] = FreeTask]]
        /\ tasks' = tasks /\ loop[s][k].cancelled
    BY <1>7 DEF Aborted
  <2> QED
    BY <2>1 DEF Ended
<1> QED
  BY <1>1, <1>2, <1>3, <1>4, <1>5, <1>6, <1>7 DEF Step

\* A notification about s launches a task, cancels the current one, both or neither.
LEMMA NotifyStatusShape ==
  ASSUME TypeOK, NEW s \in Strategies, NEW status, NotifyStatus(s, status)
  PROVE  UNCHANGED <<tasks, loop>> \/ (\E k \in Slots : Launched(s, k)) \/ Stopped(s)
<1> USE ExecutorAssumption
<1>1. CASE Starts(status) /\ tasks[s] # None
  BY <1>1 DEF NotifyStatus
<1>2. CASE Starts(status) /\ tasks[s] = None
  <2>1. PICK k \in Slots :
          /\ At(s, k, "free") /\ loop' = [loop EXCEPT ![s][k] = NewTask(status)]
          /\ tasks' = [tasks EXCEPT ![s] = k]
    BY <1>2 DEF NotifyStatus
  <2>2. loop \in [Strategies -> [Slots -> Tasks]]
    BY DEF TypeOK
  <2>3. /\ loop'[s][k].pc = "sleep" /\ loop'[s][k].c = NoCycle
        /\ ~loop'[s][k].cancelled
        /\ \A t \in Strategies, j \in Slots : t # s \/ j # k => loop'[t][j] = loop[t][j]
    <3>1. PICK u : u = NewTask(status)
      OBVIOUS
    <3>2. PICK f \in [Strategies -> [Slots -> Tasks]] : f = loop
      BY <2>2
    <3>3. /\ loop'[s][k] = u
          /\ \A t \in Strategies, j \in Slots : t # s \/ j # k => loop'[t][j] = f[t][j]
      <4>1. loop' = [f EXCEPT ![s] = [f[s] EXCEPT ![k] = u]]
        BY <2>1, <3>1, <3>2
      <4> QED
        BY <4>1
    <3> QED
      BY <3>1, <3>2, <3>3, NewTaskFacts
  <2>4. \A t \in Strategies, j \in Slots : t # s \/ j # k => Dropped(s, t, j)
    BY <1>2, <2>3 DEF Dropped
  <2> QED
    BY <2>1, <2>3, <2>4 DEF Launched
<1>3. CASE ~Starts(status)
  <2>1. /\ loop' = IF tasks[s] = None THEN loop ELSE Cancelled(s)
        /\ tasks' = [tasks EXCEPT ![s] = None]
    BY <1>3 DEF NotifyStatus
  <2>2. CASE tasks[s] = None
    BY <2>1, <2>2 DEF Stopped, Dropped
  <2>3. CASE tasks[s] # None
    BY <2>1, <2>3, CancelFacts DEF Stopped, Dropped
  <2> QED
    BY <2>2, <2>3
<1> QED
  BY <1>1, <1>2, <1>3

\* A reload launches a task in the place of the current one, or does nothing.
LEMMA NotifyConfigShape ==
  ASSUME TypeOK, NEW s \in Strategies, NEW status, NotifyConfig(s, status)
  PROVE  UNCHANGED <<tasks, loop>> \/ \E k \in Slots : Launched(s, k)
<1>1. CASE tasks[s] # None /\ Starts(status)
  <2>1. PICK k \in Slots :
          /\ At(s, k, "free") /\ loop' = [Cancelled(s) EXCEPT ![s][k] = NewTask(status)]
          /\ tasks' = [tasks EXCEPT ![s] = k]
    BY <1>1 DEF NotifyConfig
  <2>2. Cancelled(s) \in [Strategies -> [Slots -> Tasks]]
    BY <1>1, CancelFacts
  <2>3. /\ loop'[s][k].pc = "sleep" /\ loop'[s][k].c = NoCycle
        /\ ~loop'[s][k].cancelled
        /\ \A t \in Strategies, j \in Slots :
             t # s \/ j # k => loop'[t][j] = Cancelled(s)[t][j]
    <3>1. PICK u : u = NewTask(status)
      OBVIOUS
    <3>2. PICK f \in [Strategies -> [Slots -> Tasks]] : f = Cancelled(s)
      BY <2>2
    <3>3. /\ loop'[s][k] = u
          /\ \A t \in Strategies, j \in Slots : t # s \/ j # k => loop'[t][j] = f[t][j]
      <4>1. loop' = [f EXCEPT ![s] = [f[s] EXCEPT ![k] = u]]
        BY <2>1, <3>1, <3>2
      <4> QED
        BY <4>1
    <3> QED
      BY <3>1, <3>2, <3>3, NewTaskFacts
  <2>4. \A t \in Strategies, j \in Slots : t # s \/ j # k => Dropped(s, t, j)
    BY <1>1, <2>3, CancelFacts DEF Dropped
  <2> QED
    BY <2>1, <2>3, <2>4 DEF Launched
<1>2. CASE ~(tasks[s] # None /\ Starts(status))
  BY <1>2 DEF NotifyConfig
<1> QED
  BY <1>1, <1>2

\* What a notification does to the tasks.
LEMMA NotifyShape ==
  ASSUME TypeOK, Notify
  PROVE  /\ UNCHANGED <<row, book>>
         /\ \/ UNCHANGED <<tasks, loop>>
            \/ \E s \in Strategies, k \in Slots : Launched(s, k)
            \/ \E s \in Strategies : Stopped(s)
<1> DEFINE n == Head(notices)
<1>1. n.sid \in Strategies
  <2>1. notices \in Seq(Notices) /\ notices # <<>>
    BY DEF Notify, TypeOK
  <2>2. n \in Notices
    BY <2>1
  <2> QED
    BY <2>2 DEF Notices
<1>2. NotifyStatus(n.sid, n.status) \/ NotifyConfig(n.sid, n.status)
  BY DEF Notify
<1>3. UNCHANGED <<row, book>>
  BY DEF Notify
<1> HIDE DEF n
<1> QED
  BY <1>1, <1>2, <1>3, NotifyStatusShape, NotifyConfigShape

\* A free slot holds no task that was asked to end.
Vacant == \A s \in Strategies, k \in Slots : At(s, k, "free") => ~loop[s][k].cancelled

Table == TaskTableExact /\ Vacant /\ Solo

\* Only slots that hold a task take a step.
LEMMA StepsAreBusy ==
  ASSUME Vacant, NEW s \in Strategies, NEW k \in Slots, Step(s, k)
  PROVE  ~At(s, k, "free")
  BY DEF Vacant, Step, StartCycle, ReadAccount, ReadFails, NoAdapter, CloseFills, OpenFills,
         OpenRejected, OrderFails, ClosePending, OpenPending, Commit, CycleLost, Finish, Aborted,
         Runs, At

\* The table survives the move of a task,
LEMMA TableMoved ==
  ASSUME TypeOK, Table, NEW s \in Strategies, NEW k \in Slots, Moved(s, k)
  PROVE  Table'
<1>1. TaskTableExact'
  BY DEF Table, TaskTableExact, Moved, At
<1>2. Vacant'
  BY DEF Table, Vacant, Moved, At
<1>3. Solo'
  BY DEF Table, Solo, Moved, At, Busy
<1> QED
  BY <1>1, <1>2, <1>3 DEF Table

\* the end of a task,
LEMMA TableEnded ==
  ASSUME TypeOK, Table, NEW s \in Strategies, NEW k \in Slots, Ended(s, k)
  PROVE  Table'
<1> USE ExecutorAssumption
<1>1. /\ loop'[s][k].pc = "free" /\ ~loop'[s][k].cancelled
      /\ \A t \in Strategies, j \in Slots : t # s \/ j # k => loop'[t][j] = loop[t][j]
  BY DEF Ended, TypeOK, FreeTask
<1>2. tasks'[s] # k /\ \A j \in Slots \ {k} : tasks'[s] = j <=> tasks[s] = j
  BY DEF Ended, TypeOK, Table, TaskTableExact, At
<1>3. \A t \in Strategies \ {s} : tasks'[t] = tasks[t]
  BY DEF Ended, TypeOK
<1>4. TaskTableExact'
  BY <1>1, <1>2, <1>3 DEF Table, TaskTableExact
<1>5. Vacant' /\ Solo'
  BY <1>1 DEF Table, Vacant, Solo, Busy, At
<1> QED
  BY <1>4, <1>5 DEF Table

\* the cancellation of the current task,
LEMMA TableStopped ==
  ASSUME TypeOK, Table, NEW s \in Strategies, Stopped(s)
  PROVE  Table'
<1> USE ExecutorAssumption
<1>1. \A t \in Strategies, j \in Slots : Dropped(s, t, j)
  BY DEF Stopped
<1>2. tasks'[s] = None /\ \A t \in Strategies \ {s} : tasks'[t] = tasks[t]
  BY DEF Stopped, TypeOK
<1>3. TaskTableExact'
  BY <1>1, <1>2 DEF Table, TaskTableExact, Dropped
<1>4. Vacant'
  BY <1>1 DEF Table, TaskTableExact, Vacant, Dropped, At
<1>5. Solo'
  BY <1>1 DEF Table, Solo, Dropped
<1> QED
  BY <1>3, <1>4, <1>5 DEF Table

\* and the launch of its successor.
LEMMA TableLaunched ==
  ASSUME TypeOK, Table, NEW s \in Strategies, NEW k \in Slots, Launched(s, k)
  PROVE  Table'
<1> USE ExecutorAssumption
<1>1. /\ loop'[s][k].pc = "sleep" /\ ~loop'[s][k].cancelled
      /\ \A t \in Strategies, j \in Slots : t # s \/ j # k => Dropped(s, t, j)
  BY DEF Launched
<1>2. tasks'[s] = k /\ \A t \in Strategies \ {s} : tasks'[t] = tasks[t]
  BY DEF Launched, TypeOK
<1>3. TaskTableExact'
  BY <1>1, <1>2 DEF Table, TaskTableExact, Dropped
<1>4. Vacant'
  BY <1>1 DEF Table, TaskTableExact, Vacant, Dropped, At
<1>5. Solo'
  BY <1>1 DEF Table, Solo, Dropped, Busy
<1> QED
  BY <1>3, <1>4, <1>5 DEF Table

\* The table is inductive (_tasks against the tasks of the event loop).
LEMMA TableInductive ==
  TypeOK /\ Table /\ [Next]_vars => Table'
<1> SUFFICES ASSUME TypeOK, Table, [Next]_vars
             PROVE  Table'
  OBVIOUS
<1> USE ExecutorAssumption
<1>0. ASSUME UNCHANGED <<tasks, loop>>
      PROVE  Table'
  BY <1>0 DEF Table, TaskTableExact, Vacant, Solo, At
<1>1. ASSUME NEW s \in Strategies, NEW k \in Slots, Step(s, k)
      PROVE  Table'
  <2>1. Moved(s, k) \/ Ended(s, k)
    BY <1>1, StepsAreBusy, StepShape DEF Table
  <2> QED
    BY <2>1, TableMoved, TableEnded
<1>2. CASE Notify
  BY <1>0, <1>2, NotifyShape, TableLaunched, TableStopped
<1>3. CASE Restart
  <2>1. PICK slot \in [Strategies -> Slots] :
          /\ tasks' = [s \in Strategies |-> IF Starts(row[s].status) THEN slot[s] ELSE None]
          /\ loop' = [s \in Strategies |-> [k \in Slots |->
                        IF Starts(row[s].status) /\ k = slot[s]
                        THEN NewTask(row[s].status) ELSE FreeTask]]
    BY <1>3 DEF Restart
  <2>2. ASSUME NEW s \in Strategies, NEW k \in Slots
        PROVE  /\ tasks'[s] = k <=> Starts(row[s].status) /\ k = slot[s]
               /\ IF Starts(row[s].status) /\ k = slot[s]
                  THEN loop'[s][k].pc = "sleep" ELSE loop'[s][k].pc = "free"
               /\ ~loop'[s][k].cancelled
    BY <2>1, NewTaskFacts DEF FreeTask
  <2> QED
    BY <2>2 DEF Table, TaskTableExact, Vacant, Solo, Busy, At
<1>4. CASE Midnight
  <2>1. tasks' = tasks
    BY <1>4 DEF Midnight
  <2>2. ASSUME NEW s \in Strategies, NEW k \in Slots
        PROVE  /\ loop'[s][k].pc = loop[s][k].pc
               /\ loop'[s][k].cancelled = loop[s][k].cancelled
    <3>1. loop'[s][k] = [loop[s][k] EXCEPT !.c.real = 0]
      BY <1>4 DEF Midnight
    <3>2. loop[s][k] \in Tasks
      BY DEF TypeOK
    <3> QED
      BY <3>1, <3>2 DEF Tasks
  <2> QED
    BY <2>1, <2>2 DEF Table, TaskTableExact, Vacant, Solo, At
<1>5. ASSUME NEW s \in Strategies, NEW status \in Statuses,
             \/ PatchStatus(s, status) \/ PatchConfig(s) \/ DeleteStrategy(s) \/ NewBar(s)
      PROVE  Table'
  BY <1>0, <1>5 DEF PatchStatus, PatchConfig, DeleteStrategy, NewBar
<1>6. CASE UNCHANGED vars
  BY <1>0, <1>6 DEF vars
<1> QED
  BY <1>1, <1>2, <1>3, <1>4, <1>5, <1>6 DEF Next, Statuses

\* At no time does a strategy have a loop that trades on without the executor
\* being able to stop it, nor two within a cycle.
THEOREM OneLoopPerStrategy == Spec => [](TaskTableExact /\ Solo)
<1>1. Init => Table
  BY ExecutorAssumption DEF Init, Table, TaskTableExact, Vacant, Solo, Busy, FreeTask, At
<1>2. Table => TaskTableExact /\ Solo
  BY DEF Table
<1> QED
  BY <1>1, <1>2, TableInductive, TypeCorrect, PTL DEF Spec

-----------------------------------------------------------------------------
(***************************************************************************)
(* A task trades in the mode it was started in to its end.                 *)
(***************************************************************************)

\* A step of a loop keeps the mode of every task that goes on.
LEMMA StepModes ==
  ASSUME TypeOK, Table, NEW s \in Strategies, NEW k \in Slots, Step(s, k),
         NEW t \in Strategies, NEW j \in Slots, loop'[t][j].pc # "free"
  PROVE  loop[t][j].pc # "free" /\ loop'[t][j].mode = loop[t][j].mode
<1>1. ~At(s, k, "free")
  BY StepsAreBusy DEF Table
<1>2. \/ \E stage, c : Goto(s, k, stage, c)
      \/ loop' = [loop EXCEPT ![s] = [loop[s] EXCEPT ![k] = FreeTask]]
  BY DEF Step, StartCycle, ReadAccount, ReadFails, NoAdapter, CloseFills, OpenFills,
         OpenRejected, OrderFails, Commit, CycleLost, Finish, Aborted
<1>3. PICK u : /\ loop' = [loop EXCEPT ![s] = [loop[s] EXCEPT ![k] = u]]
               /\ u.pc # "free" => u.mode = loop[s][k].mode
  <2>1. ASSUME NEW stage, NEW c, Goto(s, k, stage, c)
        PROVE  \E u : /\ loop' = [loop EXCEPT ![s] = [loop[s] EXCEPT ![k] = u]]
                      /\ u.pc # "free" => u.mode = loop[s][k].mode
    <3>1. PICK u : u = [loop[s][k] EXCEPT !.pc = stage, !.c = c]
      OBVIOUS
    <3>2. loop' = [loop EXCEPT ![s] = [loop[s] EXCEPT ![k] = u]]
      BY <2>1, <3>1 DEF Goto
    <3>3. u.mode = loop[s][k].mode
      BY <3>1 DEF TypeOK, Tasks
    <3> QED
      BY <3>2, <3>3
  <2>2. FreeTask.pc = "free"
    BY DEF FreeTask
  <2> QED
    BY <1>2, <2>1, <2>2
<1>4. loop'[s][k] = u /\ (t # s \/ j # k => loop'[t][j] = loop[t][j])
  BY <1>3 DEF TypeOK
<1> QED
  BY <1>1, <1>3, <1>4 DEF At

\* A cancelled task keeps its mode.
LEMMA CancelModes ==
  ASSUME TypeOK, NEW s \in Strategies, tasks[s] # None, NEW t \in Strategies, NEW j \in Slots
  PROVE  Cancelled(s)[t][j].pc = loop[t][j].pc /\ Cancelled(s)[t][j].mode = loop[t][j].mode
<1>1. PICK k \in Slots : k = tasks[s]
  BY DEF TypeOK
<1>2. loop \in [Strategies -> [Slots -> Tasks]] /\ loop[s][k] \in Tasks
  BY DEF TypeOK
<1>3. PICK u : u = [loop[s][k] EXCEPT !.cancelled = TRUE]
  OBVIOUS
<1>4. u.pc = loop[s][k].pc /\ u.mode = loop[s][k].mode
  BY <1>2, <1>3 DEF Tasks
<1>5. Cancelled(s) = [loop EXCEPT ![s] = [loop[s] EXCEPT ![k] = u]]
  BY <1>1, <1>3 DEF Cancelled
<1>6. Cancelled(s)[s][k] = u /\ (t # s \/ j # k => Cancelled(s)[t][j] = loop[t][j])
  BY <1>2, <1>5
<1> QED
  BY <1>4, <1>6

\* A notification leaves every task its mode, or starts one in the mode it carries.
LEMMA NotifyModes ==
  ASSUME TypeOK, NEW s \in Strategies, NEW status,
         NotifyStatus(s, status) \/ NotifyConfig(s, status),
         NEW t \in Strategies, NEW j \in Slots, loop'[t][j].pc # "free"
  PROVE  \/ loop[t][j].pc # "free" /\ loop'[t][j].mode = loop[t][j].mode
         \/ t = s /\ status \in Active /\ loop'[t][j].mode = status
<1>1. CASE loop' = loop
  BY <1>1
<1>2. CASE tasks[s] # None /\ loop' = Cancelled(s)
  BY <1>2, CancelModes
<1>3. ASSUME Starts(status), NEW k \in Slots, NEW f \in [Strategies -> [Slots -> Tasks]],
             f = loop \/ (tasks[s] # None /\ f = Cancelled(s)),
             loop' = [f EXCEPT ![s] = [f[s] EXCEPT ![k] = NewTask(status)]]
      PROVE  \/ loop[t][j].pc # "free" /\ loop'[t][j].mode = loop[t][j].mode
             \/ t = s /\ status \in Active /\ loop'[t][j].mode = status
  <2>1. /\ (t = s /\ j = k) => loop'[t][j].mode = status
        /\ (t # s \/ j # k)  => loop'[t][j] = f[t][j]
    <3>1. PICK u : u = NewTask(status)
      OBVIOUS
    <3>2. u.mode = status
      BY <3>1 DEF NewTask, FreeTask
    <3>3. loop' = [f EXCEPT ![s] = [f[s] EXCEPT ![k] = u]]
      BY <1>3, <3>1
    <3>4. loop'[s][k] = u /\ (t # s \/ j # k => loop'[t][j] = f[t][j])
      BY <3>3
    <3> QED
      BY <3>2, <3>4
  <2>2. f[t][j].pc = loop[t][j].pc /\ f[t][j].mode = loop[t][j].mode
    BY <1>3, CancelModes
  <2> QED
    BY <1>3, <2>1, <2>2 DEF Starts
<1>4. CASE NotifyStatus(s, status)
  <2>1. loop \in [Strategies -> [Slots -> Tasks]]
    BY DEF TypeOK
  <2>2. \/ loop' = loop
        \/ tasks[s] # None /\ loop' = Cancelled(s)
        \/ Starts(status) /\ \E k \in Slots : loop' = [loop EXCEPT ![s][k] = NewTask(status)]
    BY <1>4 DEF NotifyStatus
  <2> QED
    BY <1>1, <1>2, <1>3, <2>1, <2>2
<1>5. CASE NotifyConfig(s, status)
  <2>1. \/ loop' = loop
        \/ /\ tasks[s] # None /\ Starts(status)
           /\ \E k \in Slots : loop' = [Cancelled(s) EXCEPT ![s][k] = NewTask(status)]
    BY <1>5 DEF NotifyConfig
  <2>2. tasks[s] # None => Cancelled(s) \in [Strategies -> [Slots -> Tasks]]
    BY CancelFacts
  <2> QED
    BY <1>1, <1>3, <2>1, <2>2
<1> QED
  BY <1>4, <1>5

-----------------------------------------------------------------------------
(***************************************************************************)
(* The ledger.  A session is consistent with the ledger it will commit to, *)
(* because no other session of the strategy commits meanwhile (Solo).      *)
(***************************************************************************)

Booking == Ledger /\ Sessions

\* A step that leaves the database alone and the sessions consistent.
LEMMA SessionMoves ==
  ASSUME TypeOK, Booking, UNCHANGED <<row, book>>,
         NEW s \in Strategies, NEW k \in Slots, NEW stage \in Stages, NEW c \in Cycles,
         Goto(s, k, stage, c),
         \A t : t.pc = stage /\ t.c = c => SessionOK(s, t)
  PROVE  Booking'
<1>1. loop \in [Strategies -> [Slots -> Tasks]]
  BY DEF TypeOK
<1>2. /\ loop'[s][k].pc = stage /\ loop'[s][k].c = c
      /\ \A t \in Strategies, j \in Slots : t # s \/ j # k => loop'[t][j] = loop[t][j]
  BY <1>1, GotoFacts
<1>3. ASSUME NEW t \in Strategies, NEW j \in Slots
      PROVE  SessionOK(t, loop'[t][j])
  <2>1. CASE t = s /\ j = k
    BY <1>2, <2>1
  <2>2. CASE t # s \/ j # k
    BY <1>2, <2>2 DEF Booking, Sessions
  <2> QED
    BY <2>1, <2>2
<1>4. Sessions'
  BY <1>3 DEF Sessions, SessionOK, Orphan
<1>5. Ledger'
  BY DEF Booking, Ledger, FillsRecorded, GoneIsInert
<1> QED
  BY <1>4, <1>5 DEF Booking

\* A session that asks nothing of the ledger is consistent with it.
LEMMA IdleOK ==
  ASSUME NEW s, NEW t, t.c.pos \in Positions, t.pc \notin {"read", "trade", "settle"}
  PROVE  SessionOK(s, t)
  BY DEF SessionOK

\* An idle cycle is flat.
LEMMA FlatPosition == Flat \in Positions /\ NoCycle.pos = Flat
  BY DEF NoCycle, Positions

\* The steps of a cycle up to its commit.
LEMMA CycleBooks ==
  ASSUME TypeOK, Booking, NEW s \in Strategies, NEW k \in Slots,
         \/ StartCycle(s, k) \/ ReadAccount(s, k) \/ ReadFails(s, k) \/ NoAdapter(s, k)
         \/ CloseFills(s, k) \/ OpenFills(s, k) \/ OpenRejected(s, k) \/ OrderFails(s, k)
         \/ CycleLost(s, k)
  PROVE  Booking'
<1> USE ExecutorAssumption
<1> DEFINE c == loop[s][k].c
<1>0. /\ c \in Cycles /\ c.plan \in Plans /\ c.pos \in Int /\ c.filled \in Int /\ c.real \in Int
      /\ c.plan.open \in Positions /\ c.plan.open \in Int /\ book[s] \in Books /\ book[s].pos \in Int
      /\ SessionOK(s, loop[s][k]) /\ book[s].pos \in Positions
  <2>1. c \in Cycles /\ book[s] \in Books
    BY CycleTyped DEF TypeOK
  <2>2. /\ c.plan \in Plans /\ c.pos \in Int /\ c.filled \in Int /\ c.real \in Int
        /\ book[s].pos \in Int
    BY <2>1 DEF Cycles, Books
  <2>3. c.plan.open \in Positions /\ c.plan.open \in Int
    BY <2>2 DEF Plans, Positions, Long, Short, Flat
  <2> QED
    BY <2>1, <2>2, <2>3 DEF Booking, Sessions, Ledger
<1>1. CASE StartCycle(s, k)
  <2>1. PICK c2 \in Cycles :
          /\ Goto(s, k, "read", c2) /\ c2.pos = Flat /\ c2.filled = 0 /\ c2.real = 0
          /\ ~c2.wrote /\ ~c2.broken
    <3>1. CASE Goto(s, k, "read", NoCycle)
      BY <3>1, NoCycleTyped DEF NoCycle
    <3>2. ASSUME NEW i \in Intents \cup {"none"},
                 Goto(s, k, "read", [NoCycle EXCEPT !.intent = i])
          PROVE  \E c2 \in Cycles :
                   /\ Goto(s, k, "read", c2) /\ c2.pos = Flat /\ c2.filled = 0 /\ c2.real = 0
                   /\ ~c2.wrote /\ ~c2.broken
      <4> DEFINE c2 == [NoCycle EXCEPT !.intent = i]
      <4>1. i \in Directions \cup {"none"} /\ (i # "none") \in BOOLEAN
        OBVIOUS
      <4>2. c2 \in Cycles
        BY <4>1, NoCycleTyped DEF Cycles
      <4>3. c2.pos = Flat /\ c2.filled = 0 /\ c2.real = 0 /\ ~c2.wrote /\ ~c2.broken
        BY DEF NoCycle
      <4> HIDE DEF c2
      <4> QED
        BY <3>2, <4>2, <4>3 DEF c2
    <3> QED
      BY <1>1, <3>1, <3>2 DEF StartCycle
  <2>2. \A t : t.pc = "read" /\ t.c = c2 => SessionOK(s, t)
    BY <2>1, FlatPosition DEF SessionOK
  <2>3. UNCHANGED <<row, book>>
    BY <1>1 DEF StartCycle
  <2> QED
    BY <2>1, <2>2, <2>3, SessionMoves DEF Stages
<1>2. CASE ReadAccount(s, k)
  <2>1. PICK eq \in Equities, exit \in BOOLEAN :
          LET plan == IF exit THEN ExitPlan ELSE PlanActions(c.intent, SideOf(book[s].pos), AllowShort)
          IN  Goto(s, k, NextStage(plan),
                   [c EXCEPT !.plan = plan, !.equity = eq, !.pos = book[s].pos])
    BY <1>2 DEF ReadAccount
  <2>2. PICK plan \in Plans :
          plan = IF exit THEN ExitPlan ELSE PlanActions(c.intent, SideOf(book[s].pos), AllowShort)
    BY <1>0, NoPlanTyped, PlanTyped
  <2>3. PICK c2 \in Cycles : c2 = [c EXCEPT !.plan = plan, !.equity = eq, !.pos = book[s].pos]
    BY <1>0, <2>1, CycleSteps
  <2>4. /\ c2.plan = plan /\ c2.pos = book[s].pos /\ c2.filled = c.filled
        /\ c2.wrote = c.wrote /\ c2.broken = c.broken
    BY <1>0, <2>3 DEF Cycles
  <2>5. ~plan.close /\ plan # NoPlan => book[s].pos = Flat
    BY <1>0, <2>2, OpensFromFlat DEF ExitPlan
  <2>6. c.filled = 0 /\ ~c.wrote
    BY <1>0, <1>2 DEF SessionOK, ReadAccount, Runs, At
  <2>7. \A t : t.pc = NextStage(plan) /\ t.c = c2 => SessionOK(s, t)
    BY <1>0, <2>4, <2>5, <2>6 DEF SessionOK, NextStage
  <2>8. Goto(s, k, NextStage(plan), c2) /\ UNCHANGED <<row, book>>
    BY <1>2, <2>1, <2>2, <2>3 DEF ReadAccount
  <2> QED
    BY <2>7, <2>8, StageTyped, SessionMoves
<1>3. CASE ReadFails(s, k) \/ NoAdapter(s, k)
  <2>1. PICK c2 \in Cycles :
          /\ Goto(s, k, "settle", c2)
          /\ c2.pos = c.pos /\ c2.filled = c.filled /\ c2.wrote = c.wrote
    <3>1. CASE ReadFails(s, k)
      <4>1. PICK c2 \in Cycles : c2 = [c EXCEPT !.errored = TRUE]
        BY <1>0, CycleSteps
      <4>2. c2.pos = c.pos /\ c2.filled = c.filled /\ c2.wrote = c.wrote
        BY <1>0, <4>1 DEF Cycles
      <4>3. Goto(s, k, "settle", c2)
        BY <3>1, <4>1 DEF ReadFails
      <4> QED
        BY <4>2, <4>3
    <3>2. CASE NoAdapter(s, k)
      <4>1. PICK c2 \in Cycles : c2 = [c EXCEPT !.errored = TRUE]
        BY <1>0, CycleSteps
      <4>2. c2.pos = c.pos /\ c2.filled = c.filled /\ c2.wrote = c.wrote
        BY <1>0, <4>1 DEF Cycles
      <4>3. Goto(s, k, "settle", c2)
        BY <3>2, <4>1 DEF NoAdapter
      <4> QED
        BY <4>2, <4>3
    <3> QED
      BY <1>3, <3>1, <3>2
  <2>2. c.pos = Flat /\ c.filled = 0 /\ ~c.wrote /\ UNCHANGED <<row, book>>
    BY <1>0, <1>3 DEF SessionOK, ReadFails, NoAdapter, Runs, At
  <2>3. \A t : t.pc = "settle" /\ t.c = c2 => SessionOK(s, t)
    BY <2>1, <2>2, FlatPosition DEF SessionOK
  <2> QED
    BY <2>1, <2>2, <2>3, SessionMoves DEF Stages
<1>4. CASE CloseFills(s, k)
  <2>1. PICK pnl, plan :
          /\ pnl \in Pnls /\ plan = [c.plan EXCEPT !.close = FALSE]
          /\ Goto(s, k, NextStage(plan),
                  [c EXCEPT !.plan = plan, !.pos = Flat, !.filled = c.filled - c.pos,
                            !.real = c.real + pnl, !.wrote = TRUE])
    BY <1>0, <1>4 DEF CloseFills, Cycles
  <2>2. plan \in Plans
    BY <1>0, <2>1 DEF Plans
  <2>3. PICK c2 \in Cycles :
          c2 = [c EXCEPT !.plan = plan, !.pos = Flat, !.filled = c.filled - c.pos,
                         !.real = c.real + pnl, !.wrote = TRUE]
    <3>0. pnl \in Int
      BY <2>1 DEF ExecutorAssumption
    <3>1. Flat \in Int /\ c.filled - c.pos \in Int /\ c.real + pnl \in Int
      BY <1>0, <3>0 DEF Flat
    <3> QED
      BY <1>0, <2>2, <3>1, CycleSteps
  <2>4. c2.pos = Flat /\ c2.filled = c.filled - c.pos /\ c2.wrote /\ c2.broken = c.broken
    BY <1>0, <2>3 DEF Cycles
  <2>5. At(s, k, "trade") /\ ~c.broken /\ UNCHANGED <<row, book>>
    BY <1>4 DEF CloseFills, ClosePending, Runs
  <2>6. ~Orphan(s) => c.pos = book[s].pos + c.filled
    BY <1>0, <2>5 DEF SessionOK, At
  <2>7. ~Orphan(s) => Flat = book[s].pos + (c.filled - c.pos)
    BY <1>0, <2>6 DEF Flat
  <2>8. \A t : t.pc = NextStage(plan) /\ t.c = c2 => SessionOK(s, t)
    BY <2>4, <2>7, FlatPosition DEF SessionOK, NextStage
  <2> QED
    BY <2>1, <2>3, <2>5, <2>8, StageTyped, SessionMoves
<1>5. CASE OpenFills(s, k)
  <2>1. PICK c2 \in Cycles :
          c2 = [c EXCEPT !.plan = NoPlan, !.pos = c.pos + c.plan.open,
                         !.filled = c.filled + c.plan.open, !.wrote = TRUE]
    <3>1. c.pos + c.plan.open \in Int /\ c.filled + c.plan.open \in Int
      BY <1>0
    <3> QED
      BY <1>0, <3>1, NoPlanTyped, CycleSteps
  <2>2. Goto(s, k, "settle", c2) /\ UNCHANGED <<row, book>>
    BY <1>0, <1>5, <2>1 DEF OpenFills, Cycles
  <2>3. c2.pos = c.pos + c.plan.open /\ c2.filled = c.filled + c.plan.open /\ c2.wrote
    BY <1>0, <2>1 DEF Cycles
  <2>4. At(s, k, "trade") /\ ~c.plan.close /\ ~c.broken
    BY <1>5 DEF OpenFills, OpenPending, Runs
  <2>5. c.pos = Flat /\ (~Orphan(s) => c.pos = book[s].pos + c.filled)
    BY <1>0, <2>4 DEF SessionOK, At
  <2>6. c2.pos = c.plan.open
    BY <1>0, <2>3, <2>5 DEF Flat
  <2>7. ~Orphan(s) => c2.pos = book[s].pos + c2.filled
    BY <1>0, <2>3, <2>5
  <2>8. \A t : t.pc = "settle" /\ t.c = c2 => SessionOK(s, t)
    BY <1>0, <2>3, <2>6, <2>7 DEF SessionOK
  <2> QED
    BY <2>2, <2>8, SessionMoves DEF Stages
<1>6. CASE OpenRejected(s, k)
  <2>1. PICK b \in BOOLEAN : Goto(s, k, "settle", [c EXCEPT !.plan = NoPlan, !.halted = b])
    BY <1>6 DEF OpenRejected, Halts
  <2>2. PICK c2 \in Cycles : c2 = [c EXCEPT !.plan = NoPlan, !.halted = b]
    BY <1>0, NoPlanTyped, CycleSteps
  <2>3. /\ c2.pos = c.pos /\ c2.filled = c.filled /\ c2.wrote = c.wrote
        /\ c2.broken = c.broken
    BY <1>0, <2>2 DEF Cycles
  <2>4. At(s, k, "trade") /\ UNCHANGED <<row, book>>
    BY <1>6 DEF OpenRejected, OpenPending, Runs
  <2>5. \A t : t.pc = "settle" /\ t.c = c2 => SessionOK(s, t)
    BY <1>0, <2>3, <2>4 DEF SessionOK, At
  <2> QED
    BY <2>1, <2>2, <2>4, <2>5, SessionMoves DEF Stages
<1>7. CASE OrderFails(s, k)
  <2>1. PICK plan \in Plans :
          Goto(s, k, NextStage(plan), [c EXCEPT !.plan = plan, !.broken = TRUE, !.errored = TRUE])
    <3>1. [c.plan EXCEPT !.close = FALSE] \in Plans
      BY <1>0 DEF Plans
    <3> QED
      BY <1>7, <3>1, NoPlanTyped DEF OrderFails
  <2>2. PICK c2 \in Cycles : c2 = [c EXCEPT !.plan = plan, !.broken = TRUE, !.errored = TRUE]
    BY <1>0, CycleSteps
  <2>3. c2.pos = c.pos /\ c2.broken
    BY <1>0, <2>2 DEF Cycles
  <2>4. \A t : t.pc = NextStage(plan) /\ t.c = c2 => SessionOK(s, t)
    BY <1>0, <2>3 DEF SessionOK, NextStage
  <2>5. UNCHANGED <<row, book>>
    BY <1>7 DEF OrderFails
  <2> QED
    BY <2>1, <2>2, <2>4, <2>5, StageTyped, SessionMoves
<1>8. CASE CycleLost(s, k)
  <2>1. Goto(s, k, "sleep", NoCycle) /\ UNCHANGED <<row, book>>
    BY <1>8 DEF CycleLost
  <2>2. \A t : t.pc = "sleep" /\ t.c = NoCycle => SessionOK(s, t)
    BY FlatPosition, IdleOK
  <2> QED
    BY <2>1, <2>2, NoCycleTyped, SessionMoves DEF Stages
<1> QED
  BY <1>1, <1>2, <1>3, <1>4, <1>5, <1>6, <1>7, <1>8

\* The commit brings the ledger to where the session saw it.
LEMMA CommitBooks ==
  ASSUME TypeOK, Solo, Booking, NEW s \in Strategies, NEW k \in Slots, Commit(s, k)
  PROVE  Booking'
<1> DEFINE c == loop[s][k].c
<1>0. /\ c \in Cycles /\ loop[s][k].pc = "settle" /\ ~c.broken /\ ~Orphan(s)
      /\ SessionOK(s, loop[s][k]) /\ book[s] \in Books /\ book[s].pos = book[s].net
      /\ book[s].pos \in Positions /\ row \in [Strategies -> Rows]
      /\ loop \in [Strategies -> [Slots -> Tasks]]
  BY CycleTyped DEF Commit, At, Booking, Sessions, Ledger, FillsRecorded, TypeOK
<1>1. /\ c.pos \in Positions
      /\ IF c.wrote THEN c.pos = book[s].pos + c.filled ELSE c.filled = 0
  BY <1>0 DEF SessionOK
<1>2. PICK b \in Books :
        /\ b = Booked(book[s], c) /\ book' = [book EXCEPT ![s] = b]
        /\ b.pos = b.net /\ b.pos \in Positions
  <2> DEFINE b == Booked(book[s], c)
  <2>1. c.pos \in Int /\ c.filled \in Int /\ c.real \in Int
    BY <1>0 DEF Cycles
  <2>2. book[s].pos \in Int /\ book[s].net \in Int /\ book[s].closed \in Int
    BY <1>0 DEF Books
  <2>3. b \in Books
    BY <2>1, <2>2 DEF Booked, Books
  <2>4. b.pos = b.net /\ b.pos \in Positions
    BY <1>0, <1>1, <2>1, <2>2 DEF Booked
  <2>5. book' = [book EXCEPT ![s] = b]
    BY DEF Commit, TypeOK
  <2> HIDE DEF b
  <2> QED
    BY <2>3, <2>4, <2>5 DEF b
<1>3. /\ book'[s] = b /\ \A t \in Strategies \ {s} : book'[t] = book[t]
  BY <1>2 DEF TypeOK
<1>4. /\ row'[s].status # "gone" /\ \A t \in Strategies \ {s} : row'[t] = row[t]
  <2> DEFINE errors == ErrorsAfter(row[s].errors, c)
             halts == c.halted \/ errors = MaxErrors
             r == [status |-> IF halts THEN "halted" ELSE row[s].status,
                   errors |-> errors,
                   peak   |-> IF risk[s] = None THEN row[s].peak ELSE risk[s].peak]
  <2>1. row' = [row EXCEPT ![s] = r]
    BY <1>0 DEF Commit
  <2>2. r.status \in {"halted", row[s].status}
    OBVIOUS
  <2> HIDE DEF r
  <2> QED
    BY <1>0, <2>1, <2>2 DEF Orphan
<1>5. Ledger'
  BY <1>0, <1>2, <1>3, <1>4 DEF Booking, Ledger, FillsRecorded, GoneIsInert
<1>6. Sessions'
  <2>1. PICK c2 \in Cycles : Goto(s, k, "broadcast", c2) /\ c2.pos = c.pos
    <3>1. PICK halts \in BOOLEAN : Goto(s, k, "broadcast", [c EXCEPT !.keep = ~halts])
      BY <1>0 DEF Commit, Cycles
    <3>2. PICK keep \in BOOLEAN : keep = ~halts
      OBVIOUS
    <3>3. PICK c2 \in Cycles : c2 = [c EXCEPT !.keep = keep]
      BY <1>0, CycleSteps
    <3>4. c2.pos = c.pos
      BY <1>0, <3>3 DEF Cycles
    <3> QED
      BY <3>1, <3>2, <3>3, <3>4
  <2>2. /\ loop'[s][k].pc = "broadcast" /\ loop'[s][k].c = c2
        /\ \A t \in Strategies, j \in Slots : t # s \/ j # k => loop'[t][j] = loop[t][j]
    BY <1>0, <2>1, GotoFacts DEF Stages
  <2>3. ASSUME NEW t \in Strategies, NEW j \in Slots
        PROVE  SessionOK(t, loop[t][j])'
    <3>1. CASE t = s /\ j = k
      BY <1>1, <2>1, <2>2, <3>1 DEF SessionOK
    <3>2. CASE t = s /\ j # k
      <4>1. loop'[t][j] = loop[t][j] /\ loop[t][j].pc \notin Busy
        BY <1>0, <2>2, <3>2 DEF Solo, Busy
      <4> QED
        BY <4>1 DEF SessionOK, Busy, Booking, Sessions
    <3>3. CASE t # s
      <4>1. loop'[t][j] = loop[t][j] /\ book'[t] = book[t] /\ row'[t] = row[t]
        BY <1>3, <1>4, <2>2, <3>3
      <4> QED
        BY <4>1 DEF SessionOK, Orphan, Booking, Sessions
    <3> QED
      BY <3>1, <3>2, <3>3
  <2> QED
    BY <2>3 DEF Sessions
<1> QED
  BY <1>5, <1>6 DEF Booking

\* Tasks that start, end or are cancelled carry no open session into the next state.
LEMMA QuietBooks ==
  ASSUME Booking, UNCHANGED <<row, book>>,
         \A t \in Strategies, j \in Slots :
           \/ loop'[t][j].pc = loop[t][j].pc /\ loop'[t][j].c = loop[t][j].c
           \/ loop'[t][j].pc \in {"free", "sleep"} /\ loop'[t][j].c = NoCycle
  PROVE  Booking'
<1>1. Ledger'
  BY DEF Booking, Ledger, FillsRecorded, GoneIsInert
<1>2. ASSUME NEW t \in Strategies, NEW j \in Slots
      PROVE  SessionOK(t, loop[t][j])'
  <2>1. CASE loop'[t][j].pc = loop[t][j].pc /\ loop'[t][j].c = loop[t][j].c
    BY <2>1 DEF SessionOK, Orphan, Booking, Sessions
  <2>2. CASE loop'[t][j].pc \in {"free", "sleep"} /\ loop'[t][j].c = NoCycle
    BY <2>2, FlatPosition DEF SessionOK
  <2> QED
    BY <2>1, <2>2
<1> QED
  BY <1>1, <1>2 DEF Booking, Sessions

\* A task that ends leaves the books alone.
LEMMA EndedBooks ==
  ASSUME TypeOK, Booking, UNCHANGED <<row, book>>, NEW s \in Strategies, NEW k \in Slots,
         loop' = [loop EXCEPT ![s][k] = FreeTask]
  PROVE  Booking'
<1>1. loop' = [loop EXCEPT ![s] = [loop[s] EXCEPT ![k] = FreeTask]]
  OBVIOUS
<1>2. /\ loop'[s][k] = FreeTask
      /\ \A t \in Strategies, j \in Slots : t # s \/ j # k => loop'[t][j] = loop[t][j]
  BY <1>1 DEF TypeOK
<1>3. FreeTask.pc = "free" /\ FreeTask.c = NoCycle
  BY DEF FreeTask
<1> QED
  BY <1>2, <1>3, QuietBooks

\* What the sessions know of the ledger is inductive.
LEMMA BookingInductive ==
  TypeOK /\ Solo /\ Booking /\ [Next]_vars => Booking'
<1> SUFFICES ASSUME TypeOK, Solo, Booking, [Next]_vars
             PROVE  Booking'
  OBVIOUS
<1> USE ExecutorAssumption
<1>1. ASSUME NEW s \in Strategies, NEW k \in Slots, Step(s, k)
      PROVE  Booking'
  <2>1. CASE \/ StartCycle(s, k) \/ ReadAccount(s, k) \/ ReadFails(s, k) \/ NoAdapter(s, k)
             \/ CloseFills(s, k) \/ OpenFills(s, k) \/ OpenRejected(s, k)
             \/ OrderFails(s, k) \/ CycleLost(s, k)
    BY <2>1, CycleBooks
  <2>2. CASE Commit(s, k)
    BY <2>2, CommitBooks
  <2>3. CASE Finish(s, k)
    <3>1. CASE loop[s][k].c.keep
      <4>1. Goto(s, k, "sleep", NoCycle) /\ UNCHANGED <<row, book>>
        BY <2>3, <3>1 DEF Finish
      <4>2. \A t : t.pc = "sleep" /\ t.c = NoCycle => SessionOK(s, t)
        BY FlatPosition, IdleOK
      <4> QED
        BY <4>1, <4>2, NoCycleTyped, SessionMoves DEF Stages
    <3>2. CASE ~loop[s][k].c.keep
      BY <2>3, <3>2, EndedBooks DEF Finish
    <3> QED
      BY <3>1, <3>2
  <2>4. CASE Aborted(s, k)
    BY <2>4, EndedBooks DEF Aborted
  <2> QED
    BY <1>1, <2>1, <2>2, <2>3, <2>4 DEF Step
<1>2. ASSUME NEW s \in Strategies, NEW status \in Statuses, PatchStatus(s, status)
      PROVE  Booking'
  <2>1. /\ row[s].status # "gone" /\ row'[s].status # "gone"
        /\ \A t \in Strategies \ {s} : row'[t] = row[t]
    BY <1>2 DEF PatchStatus, TypeOK, Rows
  <2>2. \A t \in Strategies : Orphan(t)' <=> Orphan(t)
    BY <2>1 DEF Orphan
  <2>3. UNCHANGED <<book, loop>>
    BY <1>2 DEF PatchStatus
  <2> QED
    BY <2>2, <2>3 DEF Booking, Ledger, FillsRecorded, GoneIsInert, Sessions, SessionOK, Orphan
<1>3. ASSUME NEW s \in Strategies, DeleteStrategy(s)
      PROVE  Booking'
  <2>1. /\ row'[s].status = "gone" /\ \A t \in Strategies \ {s} : row'[t] = row[t]
        /\ book'[s] = EmptyBook /\ \A t \in Strategies \ {s} : book'[t] = book[t]
        /\ loop' = loop
    BY <1>3 DEF DeleteStrategy, TypeOK
  <2>2. EmptyBook.pos = EmptyBook.net /\ EmptyBook.pos \in Positions
    BY DEF EmptyBook, Positions, Flat
  <2>3. Ledger'
    BY <2>1, <2>2 DEF Booking, Ledger, FillsRecorded, GoneIsInert
  <2>4. Sessions'
    BY <2>1 DEF Booking, Sessions, SessionOK, Orphan
  <2> QED
    BY <2>3, <2>4 DEF Booking
<1>4. CASE Notify
  <2>1. UNCHANGED <<row, book>>
    BY <1>4, NotifyShape
  <2>2. CASE UNCHANGED <<tasks, loop>>
    BY <2>1, <2>2, QuietBooks
  <2>3. ASSUME NEW s \in Strategies, NEW k \in Slots, Launched(s, k)
        PROVE  Booking'
    BY <2>1, <2>3, QuietBooks DEF Launched, Dropped
  <2>4. ASSUME NEW s \in Strategies, Stopped(s)
        PROVE  Booking'
    BY <2>1, <2>4, QuietBooks DEF Stopped, Dropped
  <2> QED
    BY <1>4, <2>2, <2>3, <2>4, NotifyShape
<1>5. CASE Restart
  <2>1. UNCHANGED <<row, book>>
    BY <1>5 DEF Restart
  <2>2. ASSUME NEW t \in Strategies, NEW j \in Slots
        PROVE  loop'[t][j].pc \in {"free", "sleep"} /\ loop'[t][j].c = NoCycle
    BY <1>5, NewTaskFacts DEF Restart, FreeTask
  <2> QED
    BY <2>1, <2>2, QuietBooks
<1>6. CASE Midnight
  <2>1. ASSUME NEW t \in Strategies
        PROVE  /\ row'[t] = row[t] /\ book'[t].pos = book[t].pos /\ book'[t].net = book[t].net
               /\ book[t] = EmptyBook => book'[t] = EmptyBook
    <3>1. row' = row /\ book'[t] = [book[t] EXCEPT !.closed = 0] /\ book[t] \in Books
      BY <1>6 DEF Midnight, TypeOK
    <3> QED
      BY <3>1 DEF Books, EmptyBook
  <2>2. ASSUME NEW t \in Strategies, NEW j \in Slots
        PROVE  /\ loop'[t][j].pc = loop[t][j].pc /\ loop'[t][j].c.pos = loop[t][j].c.pos
               /\ loop'[t][j].c.filled = loop[t][j].c.filled
               /\ loop'[t][j].c.wrote = loop[t][j].c.wrote
               /\ loop'[t][j].c.broken = loop[t][j].c.broken
               /\ loop'[t][j].c.plan = loop[t][j].c.plan
               /\ loop'[t][j].pc = "read" => loop'[t][j].c.real = 0
    <3>1. /\ loop'[t][j] = [loop[t][j] EXCEPT !.c = [loop[t][j].c EXCEPT !.real = 0]]
          /\ loop[t][j] \in Tasks /\ loop[t][j].c \in Cycles
      BY <1>6, CycleTyped DEF Midnight, TypeOK
    <3>2. /\ loop'[t][j].pc = loop[t][j].pc
          /\ loop'[t][j].c = [loop[t][j].c EXCEPT !.real = 0]
      BY <3>1 DEF Tasks
    <3> QED
      BY <3>1, <3>2 DEF Cycles
  <2>3. Ledger'
    BY <2>1 DEF Booking, Ledger, FillsRecorded, GoneIsInert
  <2>4. ASSUME NEW t \in Strategies, NEW j \in Slots
        PROVE  SessionOK(t, loop[t][j])'
    BY <2>1, <2>2 DEF Booking, Sessions, SessionOK, Orphan
  <2> QED
    BY <2>3, <2>4 DEF Booking, Sessions
<1>7. ASSUME NEW s \in Strategies, PatchConfig(s) \/ NewBar(s)
      PROVE  Booking'
  <2>1. UNCHANGED <<row, book, loop>>
    BY <1>7 DEF PatchConfig, NewBar
  <2> QED
    BY <2>1, QuietBooks
<1>8. CASE UNCHANGED vars
  BY <1>8, QuietBooks DEF vars
<1> QED
  BY <1>1, <1>2, <1>3, <1>4, <1>5, <1>6, <1>7, <1>8 DEF Next

\* What the sessions know of the ledger holds from the start.
LEMMA BookingHolds == Spec => []Booking
<1>1. Init => Booking
  <2> SUFFICES ASSUME Init PROVE Booking
    OBVIOUS
  <2>1. EmptyBook.pos = EmptyBook.net /\ EmptyBook.pos \in Positions
    BY DEF EmptyBook, Positions, Flat
  <2>2. \A s \in Strategies : row[s].status # "gone" /\ book[s] = EmptyBook
    BY DEF Init
  <2>3. Ledger
    BY <2>1, <2>2 DEF Ledger, FillsRecorded, GoneIsInert
  <2>4. ASSUME NEW s \in Strategies, NEW k \in Slots
        PROVE  loop[s][k].pc = "free" /\ loop[s][k].c = NoCycle
    BY DEF Init, FreeTask
  <2>5. Sessions
    BY <2>4, FlatPosition, IdleOK DEF Sessions
  <2> QED
    BY <2>3, <2>5 DEF Booking
<1> QED
  BY <1>1, BookingInductive, TypeCorrect, OneLoopPerStrategy, PTL DEF Spec

\* Whatever is lost, cancelled, rolled back or deleted: the order records account
\* for the position, no strategy ever holds more than one entry, and nothing is
\* recorded under a deleted one.
THEOREM LedgerExplained == Spec => [](FillsRecorded /\ NeverPyramids /\ GoneIsInert)
<1>1. Booking => FillsRecorded /\ NeverPyramids /\ GoneIsInert
  BY DEF Booking, Ledger, Sessions, SessionOK, NeverPyramids
<1> QED
  BY <1>1, BookingHolds, PTL

\* In particular neither the ledger nor a session holds more than one entry, though
\* the engine opens after a close whatever became of it.
THEOREM OneEntryAtMost == Spec => []NeverPyramids
  BY LedgerExplained, PTL

\* And a deleted strategy stays deleted: the loop nobody stops commits nothing.
THEOREM DeletedIsInert == Spec => []GoneIsInert
  BY LedgerExplained, PTL

=============================================================================
