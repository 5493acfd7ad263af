-------------------------- MODULE AccountingProofs --------------------------
(***************************************************************************)
(* Theorems of Executor about the RiskManager's counters, which no         *)
(* transaction protects: they agree with the ledger, and the persisted     *)
(* peak never falls, for every number of strategies and slots, every risk  *)
(* configuration and every market, while generations and reads of the      *)
(* account fail and the process restarts at any point of a cycle.          *)
(***************************************************************************)
EXTENDS ExecutorProofs

\* What the theorems suppose.  Each fault that is left out does break the
\* agreement in this code: a commit or a flush that fails, and a cycle that is
\* cancelled, undo fills the RiskManager has counted; a failed rehydration leaves
\* it to start from nothing; and a user who deletes or reactivates a strategy
\* leaves it what it knew before.  Of the daily result also that the day lasts:
\* nothing resets it at midnight.
Undisturbed ==
  /\ Enabled \cap {"commit", "place", "delete", "config", "rehydrate"} = {}
  /\ Requests \subseteq {"draft"} \X Active

(***************************************************************************)
(* The inductive invariant, over the row r, the ledger b, the risk state   *)
(* st, a task t and all tasks l of one strategy.                           *)
(***************************************************************************)

SameDay == "midnight" \notin Enabled

\* The daily result d, as long as the day lasts.
Today(d, sum) == SameDay => d = sum

\* Open positions as the RiskManager counts them.
Count(pos) == IF pos = Flat THEN 0 ELSE 1

\* A cycle that traded and has yet to commit.
Working(t) == t.pc \in {"trade", "settle"} /\ t.c.wrote

\* The counters follow the session of the task, and else the ledger.
Exact(b, st, t) ==
  IF Working(t)
  THEN st.open = Count(t.c.pos) /\ Today(st.daily, b.closed + t.c.real)
  ELSE st.open = Count(b.pos)   /\ Today(st.daily, b.closed)

\* The loop runs in the mode of the row, unless it just halted it; it traded only
\* with a risk state; and the order at hand is one there is something to do for.
TaskOK(r, b, st, t) ==
  /\ ~t.cancelled /\ ~t.c.broken
  /\ t.pc \in {"sleep", "read", "trade", "settle"} => t.mode = r.status
  /\ t.pc = "broadcast" =>
       /\ r.status = (IF t.c.keep THEN t.mode ELSE "halted")
       /\ t.c.wrote => t.c.pos = b.pos
  /\ IF t.c.wrote THEN t.pc \in {"trade", "settle", "broadcast"} /\ st # None
                  ELSE t.c.real = 0
  /\ t.pc = "trade" => t.c.plan # NoPlan /\ (t.c.plan.close => t.c.pos # Flat)

\* Nothing was ever traded or read.
Untouched(r, b) == b.pos = Flat /\ b.closed = 0 /\ r.peak = NoPeak

\* The part of the risk state: a task that runs, or none, explains the counters,
\* and a halt the row does not show is on its way to it.
RiskOK(r, b, st, l) ==
  /\ st = None /\ r.status # "halted" => Untouched(r, b)
  /\ st # None =>
       /\ r.status \notin {"draft", "live"} /\ st.peak >= r.peak
       /\ \A k \in Slots : l[k].pc # "free" => Exact(b, st, l[k])
       /\ (\A k \in Slots : l[k].pc = "free") => st.open = Count(b.pos) /\ Today(st.daily, b.closed)
       /\ st.halted /\ r.status # "halted" => \E k \in Slots : l[k].pc = "settle" /\ l[k].c.halted

StrategyOK(r, b, st, l) ==
  /\ r.status \in {"draft", "halted"} \cup Active
  /\ r.status = "draft" => \A k \in Slots : l[k].pc = "free"
  /\ \A k \in Slots : TaskOK(r, b, st, l[k])
  /\ RiskOK(r, b, st, l)

\* A notification on its way is the first a strategy ever gets.
NoticesOK ==
  /\ \A i \in DOMAIN notices :
       LET n == notices[i]
       IN  /\ n.kind = "status" /\ n.status = row[n.sid].status /\ n.status \in Active
           /\ risk[n.sid] = None /\ \A k \in Slots : loop[n.sid][k].pc = "free"
  /\ \A i, j \in DOMAIN notices : notices[i].sid = notices[j].sid => i = j

StrategiesOK == \A s \in Strategies : StrategyOK(row[s], book[s], risk[s], loop[s])

Accounts == StrategiesOK /\ NoticesOK

-----------------------------------------------------------------------------
(***************************************************************************)
(* One strategy.                                                           *)
(***************************************************************************)

\* When the rest of the slots are free, the one task that moved decides.
LEMMA Advance ==
  ASSUME NEW r, NEW b, NEW st, NEW l, StrategyOK(r, b, st, l),
         NEW k \in Slots, \A j \in Slots \ {k} : l[j].pc = "free",
         NEW r2, NEW b2, NEW st2, NEW l2, \A j \in Slots \ {k} : l2[j] = l[j],
         r2.status \in {"halted"} \cup Active, l2[k].pc # "free",
         TaskOK(r2, b2, st2, l2[k]),
         st2 = None /\ r2.status # "halted" => Untouched(r2, b2),
         st2 # None => /\ r2.status # "live" /\ st2.peak >= r2.peak /\ Exact(b2, st2, l2[k])
                       /\ st2.halted /\ r2.status # "halted" => l2[k].pc = "settle" /\ l2[k].c.halted
  PROVE  StrategyOK(r2, b2, st2, l2)
<1>1. ASSUME NEW j \in Slots
      PROVE  TaskOK(r2, b2, st2, l2[j])
  <2>1. CASE j = k
    BY <2>1
  <2>2. CASE j # k
    <3>1. l2[j] = l[j] /\ l[j].pc = "free" /\ TaskOK(r, b, st, l[j])
      BY <2>2 DEF StrategyOK
    <3> QED
      BY <3>1 DEF TaskOK
  <2> QED
    BY <2>1, <2>2
<1>2. r2.status # "draft"
  BY DEF Active
<1>3. RiskOK(r2, b2, st2, l2)
  BY <1>2 DEF RiskOK
<1> QED
  BY <1>1, <1>2, <1>3 DEF StrategyOK

\* The tasks of a strategy whose task table is exact: while one runs, no other does.
LEMMA OnlyTask ==
  ASSUME TaskTableExact, Accounts, NEW s \in Strategies, NEW k \in Slots, loop[s][k].pc # "free"
  PROVE  \A j \in Slots \ {k} : loop[s][j].pc = "free"
<1>1. \A j \in Slots : ~loop[s][j].cancelled
  BY DEF Accounts, StrategiesOK, StrategyOK, TaskOK
<1>2. \A j \in Slots : loop[s][j].pc # "free" => tasks[s] = j
  BY <1>1 DEF TaskTableExact
<1> QED
  BY <1>2

\* A notice on its way is one.
LEMMA NoticeTyped ==
  ASSUME TypeOK, NEW i \in DOMAIN notices
  PROVE  notices[i] \in Notices
<1>1. notices \in Seq(Notices)
  BY DEF TypeOK
<1> QED
  BY <1>1

\* A step of the loop of s, told by what it leaves of s.
LEMMA StepAccounts ==
  ASSUME TypeOK, TaskTableExact, Accounts, NEW s \in Strategies, NEW k \in Slots,
         loop[s][k].pc # "free", NEW stage \in Stages \ {"free"}, NEW c \in Cycles,
         Goto(s, k, stage, c), notices' = notices,
         \A t \in Strategies \ {s} :
           row'[t] = row[t] /\ book'[t] = book[t] /\ risk'[t] = risk[t],
         row'[s].status \in {"halted"} \cup Active,
         \A u : /\ u.pc = stage /\ u.c = c /\ u.mode = loop[s][k].mode /\ ~u.cancelled
                => TaskOK(row'[s], book'[s], risk'[s], u),
         risk'[s] = None /\ row'[s].status # "halted" => Untouched(row'[s], book'[s]),
         risk'[s] # None =>
           /\ row'[s].status # "live" /\ risk'[s].peak >= row'[s].peak
           /\ \A u : u.pc = stage /\ u.c = c => Exact(book'[s], risk'[s], u)
           /\ risk'[s].halted /\ row'[s].status # "halted" => stage = "settle" /\ c.halted
  PROVE  Accounts'
<1>1. loop \in [Strategies -> [Slots -> Tasks]]
  BY DEF TypeOK
<1>2. /\ loop'[s][k].pc = stage /\ loop'[s][k].c = c
      /\ loop'[s][k].cancelled = loop[s][k].cancelled
      /\ \A t \in Strategies, j \in Slots : t # s \/ j # k => loop'[t][j] = loop[t][j]
  BY <1>1, GotoFacts
<1>3. loop'[s][k].mode = loop[s][k].mode
  <2>1. loop' = [loop EXCEPT ![s] = [loop[s] EXCEPT ![k] =
                   [loop[s][k] EXCEPT !.pc = stage, !.c = c]]]
    BY DEF Goto
  <2>2. loop[s] \in [Slots -> Tasks] /\ loop[s][k] \in Tasks
    BY <1>1
  <2>3. loop'[s][k] = [loop[s][k] EXCEPT !.pc = stage, !.c = c]
    BY <1>1, <2>1, <2>2
  <2> QED
    BY <2>2, <2>3 DEF Tasks
<1>4. StrategyOK(row[s], book[s], risk[s], loop[s]) /\ ~loop[s][k].cancelled
  BY DEF Accounts, StrategiesOK, StrategyOK, TaskOK
<1>5. \A j \in Slots \ {k} : loop[s][j].pc = "free" /\ loop'[s][j] = loop[s][j]
  BY <1>2, OnlyTask
<1>6. TaskOK(row'[s], book'[s], risk'[s], loop'[s][k])
  BY <1>2, <1>3, <1>4
<1>7. risk'[s] # None => Exact(book'[s], risk'[s], loop'[s][k])
  BY <1>2
<1>8. StrategyOK(row'[s], book'[s], risk'[s], loop'[s])
  BY <1>2, <1>4, <1>5, <1>6, <1>7, Advance
<1>9. ASSUME NEW t \in Strategies \ {s}
      PROVE  StrategyOK(row'[t], book'[t], risk'[t], loop'[t])
  <2>1. \A j \in Slots : loop'[t][j] = loop[t][j]
    BY <1>2
  <2>2. StrategyOK(row[t], book[t], risk[t], loop[t])
    BY DEF Accounts, StrategiesOK
  <2>3. row'[t] = row[t] /\ book'[t] = book[t] /\ risk'[t] = risk[t]
    OBVIOUS
  <2> QED
    BY <2>1, <2>2, <2>3 DEF StrategyOK, RiskOK
<1>10. NoticesOK'
  <2>1. \A i \in DOMAIN notices : notices[i].sid # s /\ notices[i].sid \in Strategies
    <3>1. \A i \in DOMAIN notices : notices[i].sid \in Strategies
      BY NoticeTyped DEF Notices
    <3>2. \A i \in DOMAIN notices : loop[notices[i].sid][k].pc = "free"
      BY DEF Accounts, NoticesOK
    <3> QED
      BY <3>1, <3>2
  <2>2. \A t \in Strategies \ {s} : \A j \in Slots : loop'[t][j] = loop[t][j]
    BY <1>2
  <2>3. \A t \in Strategies \ {s} : row'[t] = row[t] /\ risk'[t] = risk[t]
    OBVIOUS
  <2> QED
    BY <2>1, <2>2, <2>3 DEF Accounts, NoticesOK
<1>11. StrategiesOK'
  BY <1>8, <1>9 DEF StrategiesOK
<1> QED
  BY <1>10, <1>11 DEF Accounts

\* What a step of a loop starts from.
Told(s, k) ==
  /\ row[s] \in Rows /\ book[s] \in Books /\ risk[s] \in Risks \cup {None}
  /\ loop[s][k] \in Tasks /\ loop[s][k].c \in Cycles /\ loop[s][k].c.plan \in Plans
  /\ loop[s][k].c.pos \in Int /\ loop[s][k].c.real \in Int /\ loop[s][k].c.filled \in Int
  /\ loop[s][k].c.plan.open \in Int /\ book[s].closed \in Int /\ book[s].pos \in Int
  /\ row[s].peak \in Nat
  /\ TaskOK(row[s], book[s], risk[s], loop[s][k])
  /\ risk[s] = None /\ row[s].status # "halted" => Untouched(row[s], book[s])
  /\ risk[s] # None =>
       /\ row[s].status \notin {"draft", "live"} /\ risk[s].peak >= row[s].peak
       /\ risk[s] \in Risks /\ Exact(book[s], risk[s], loop[s][k])
       /\ risk[s].halted /\ row[s].status # "halted" =>
            loop[s][k].pc = "settle" /\ loop[s][k].c.halted
  /\ loop[s][k].pc # "broadcast" => row[s].status \in Active /\ row[s].status = loop[s][k].mode
  /\ row[s].status # "gone" /\ row[s].status \in {"halted"} \cup Active

LEMMA StepTold ==
  ASSUME TypeOK, TaskTableExact, Accounts, NEW s \in Strategies, NEW k \in Slots,
         loop[s][k].pc # "free"
  PROVE  Told(s, k)
<1> DEFINE c == loop[s][k].c
<1>1. /\ row[s] \in Rows /\ book[s] \in Books /\ risk[s] \in Risks \cup {None}
      /\ loop[s][k] \in Tasks /\ c \in Cycles /\ loop[s][k].pc \in Stages
      /\ loop[s][k].mode \in Active
  BY CycleTyped DEF TypeOK, Tasks
<1>2. /\ c.plan \in Plans /\ c.pos \in Int /\ c.real \in Int /\ c.filled \in Int
      /\ book[s].closed \in Int /\ book[s].pos \in Int /\ row[s].peak \in Nat
  BY <1>1 DEF Cycles, Books, Rows
<1>3. c.plan.open \in Int
  BY <1>2 DEF Plans, Positions, Long, Short, Flat
<1>4. StrategyOK(row[s], book[s], risk[s], loop[s])
  BY DEF Accounts, StrategiesOK
<1>5. TaskOK(row[s], book[s], risk[s], loop[s][k]) /\ row[s].status \in {"halted"} \cup Active
  BY <1>4 DEF StrategyOK
<1>6. \A j \in Slots \ {k} : loop[s][j].pc = "free"
  BY OnlyTask
<1>7. risk[s] = None /\ row[s].status # "halted" => Untouched(row[s], book[s])
  BY <1>4 DEF StrategyOK, RiskOK
<1>8. risk[s] # None =>
       /\ row[s].status \notin {"draft", "live"} /\ risk[s].peak >= row[s].peak
       /\ risk[s] \in Risks /\ Exact(book[s], risk[s], loop[s][k])
       /\ risk[s].halted /\ row[s].status # "halted" =>
            loop[s][k].pc = "settle" /\ c.halted
  BY <1>1, <1>4, <1>6 DEF StrategyOK, RiskOK
<1>9. loop[s][k].pc # "broadcast" => row[s].status \in Active /\ row[s].status = loop[s][k].mode
  BY <1>1, <1>5 DEF TaskOK, Stages
<1>10. row[s].status # "gone"
  BY <1>5 DEF Active
<1> HIDE DEF c
<1> QED
  BY <1>1, <1>2, <1>3, <1>5, <1>7, <1>8, <1>9, <1>10 DEF Told, c

\* What an observation of the equity leaves of a risk state.
LEMMA Observed ==
  ASSUME NEW st \in Risks \cup {None}, NEW eq \in Nat, NEW o,
         o = ObserveEquity(st # None, st, eq)
  PROVE  /\ o \in Risks /\ o # None
         /\ IF st = None THEN o.open = 0 /\ o.daily = 0 /\ ~o.halted /\ o.peak >= NoPeak
                         ELSE /\ o.open = st.open /\ o.daily = st.daily
                              /\ o.halted = st.halted /\ o.peak >= st.peak
<1>1. o \in Risks /\ o # None
  BY ObserveTyped, NoneAssumption
<1>2. CASE st = None
  <2>1. o = FreshState(eq)
    BY <1>2 DEF ObserveEquity
  <2> QED
    BY <1>1, <1>2, <2>1 DEF FreshState, NoPeak
<1>3. CASE st # None
  <2>1. o = [st EXCEPT !.peak = Higher(st.peak, eq)] /\ st \in Risks
    BY <1>3 DEF ObserveEquity
  <2>2. o.peak = Higher(st.peak, eq) /\ o.open = st.open /\ o.daily = st.daily /\ o.halted = st.halted
    BY <2>1 DEF Risks
  <2>3. Higher(st.peak, eq) >= st.peak
    BY <2>1 DEF Risks, Higher
  <2> QED
    BY <1>1, <1>3, <2>2, <2>3
<1> QED
  BY <1>2, <1>3

\* A task within its read moves on with an equity observed.
LEMMA ObservedAccounts ==
  ASSUME TypeOK, TaskTableExact, Accounts, NEW s \in Strategies, NEW k \in Slots,
         Told(s, k), UNCHANGED <<row, book, notices>>, loop[s][k].pc = "read",
         ReadAccount(s, k) \/ ReadFails(s, k),
         NEW stage \in Stages \ {"free"}, stage # "broadcast", NEW c \in Cycles,
         Goto(s, k, stage, c), ~c.wrote, ~c.broken, c.real = 0,
         \A u : u.pc = stage /\ u.c = c /\ u.mode = loop[s][k].mode /\ ~u.cancelled
                => TaskOK(row'[s], book'[s], risk'[s], u),
         NEW eq \in Equities,
         risk' = [risk EXCEPT ![s] = ObserveEquity(risk[s] # None, risk[s], eq)]
  PROVE  Accounts'
<1> USE ExecutorAssumption
<1>1. PICK o : o = ObserveEquity(risk[s] # None, risk[s], eq)
  OBVIOUS
<1>2. /\ o \in Risks /\ o # None
      /\ IF risk[s] = None THEN o.open = 0 /\ o.daily = 0 /\ ~o.halted /\ o.peak >= NoPeak
                      ELSE /\ o.open = risk[s].open /\ o.daily = risk[s].daily
                           /\ o.halted = risk[s].halted /\ o.peak >= risk[s].peak
  <2>1. eq \in Nat /\ risk[s] \in Risks \cup {None}
    BY DEF Told
  <2> QED
    BY <1>1, <2>1, Observed
<1>3. risk'[s] = o /\ \A t \in Strategies \ {s} : risk'[t] = risk[t]
  BY <1>1 DEF TypeOK
<1>4. row'[s] = row[s] /\ book'[s] = book[s]
  OBVIOUS
<1>5. row[s].status = "paper"
  BY DEF Told, ReadAccount, ReadFails
<1>6. \A u : u.pc = stage /\ u.c = c => Exact(book'[s], o, u)
  <2>1. CASE risk[s] = None
    BY <1>2, <1>4, <1>5, <2>1 DEF Told, Untouched, Exact, Working, Count, Today
  <2>2. CASE risk[s] # None
    BY <1>2, <1>4, <2>2 DEF Told, Exact, Working
  <2> QED
    BY <2>1, <2>2
<1>7. o.peak >= row[s].peak
  <2>1. CASE risk[s] = None
    BY <1>2, <1>5, <2>1 DEF Told, Untouched
  <2>2. CASE risk[s] # None
    <3>1. o.peak \in Nat /\ risk[s].peak \in Nat /\ row[s].peak \in Nat
      BY <1>2, <2>2 DEF Told, Risks
    <3> QED
      BY <1>2, <2>2, <3>1 DEF Told
  <2> QED
    BY <2>1, <2>2
<1>8. ~o.halted
  BY <1>2, <1>5 DEF Told
<1>9. row'[s].status \in {"halted"} \cup Active
  BY <1>4, <1>5 DEF Active
<1>10. /\ risk'[s] # None /\ row'[s].status # "live" /\ risk'[s].peak >= row'[s].peak
       /\ ~risk'[s].halted /\ \A u : u.pc = stage /\ u.c = c => Exact(book'[s], risk'[s], u)
  BY <1>2, <1>3, <1>4, <1>5, <1>6, <1>7, <1>8
<1> QED
  BY <1>3, <1>4, <1>9, <1>10, StepAccounts

\* The start of a cycle, and a read of the account.
LEMMA ReadAccounts ==
  ASSUME TypeOK, TaskTableExact, Accounts, Booking, NEW s \in Strategies, NEW k \in Slots,
         Told(s, k), \/ StartCycle(s, k) \/ ReadAccount(s, k) \/ ReadFails(s, k) \/ NoAdapter(s, k)
  PROVE  Accounts'
<1> USE ExecutorAssumption
<1> DEFINE c == loop[s][k].c
<1>0. UNCHANGED <<row, book, notices>>
  BY DEF StartCycle, ReadAccount, ReadFails, NoAdapter
<1>1. CASE StartCycle(s, k)
  <2>1. PICK c2 \in Cycles :
          /\ Goto(s, k, "read", c2) /\ ~c2.wrote /\ ~c2.broken /\ c2.real = 0
    <3>1. CASE Goto(s, k, "read", NoCycle)
      BY <3>1, NoCycleTyped DEF NoCycle
    <3>2. ASSUME NEW i \in Intents \cup {"none"},
                 Goto(s, k, "read", [NoCycle EXCEPT !.intent = i])
          PROVE  \E c2 \in Cycles :
                   Goto(s, k, "read", c2) /\ ~c2.wrote /\ ~c2.broken /\ c2.real = 0
      <4> DEFINE c2 == [NoCycle EXCEPT !.intent = i]
      <4>1. i \in Directions \cup {"none"}
        OBVIOUS
      <4>2. c2 \in Cycles
        BY <4>1, NoCycleTyped DEF Cycles
      <4>3. ~c2.wrote /\ ~c2.broken /\ c2.real = 0
        BY DEF NoCycle
      <4> HIDE DEF c2
      <4> QED
        BY <3>2, <4>2, <4>3 DEF c2
    <3> QED
      BY <1>1, <3>1, <3>2 DEF StartCycle
  <2>2. /\ loop[s][k].pc = "sleep" /\ ~c.wrote /\ risk' = risk
    BY <1>1 DEF StartCycle, Runs, At, Told, TaskOK
  <2>3. \A u : u.pc = "read" /\ u.c = c2 /\ u.mode = loop[s][k].mode /\ ~u.cancelled
               => TaskOK(row'[s], book'[s], risk'[s], u)
    BY <1>0, <2>1, <2>2 DEF TaskOK, Told
  <2>4. risk'[s] # None => \A u : u.pc = "read" /\ u.c = c2 => Exact(book'[s], risk'[s], u)
    BY <1>0, <2>1, <2>2 DEF Exact, Working, Told
  <2>5. row'[s].status \in {"halted"} \cup Active
    BY <1>0 DEF Told
  <2>6. risk'[s] # None =>
           /\ row'[s].status # "live" /\ risk'[s].peak >= row'[s].peak
           /\ risk'[s].halted /\ row'[s].status # "halted" => FALSE
    BY <1>0, <2>2 DEF Told
  <2>7. risk'[s] = None /\ row'[s].status # "halted" => Untouched(row'[s], book'[s])
    BY <1>0, <2>2 DEF Told
  <2> QED
    BY <1>0, <2>1, <2>2, <2>3, <2>4, <2>5, <2>6, <2>7, StepAccounts DEF Stages
<1>2. CASE ReadAccount(s, k)
  <2>1. PICK eq \in Equities, exit \in BOOLEAN :
          LET plan == IF exit THEN ExitPlan ELSE PlanActions(c.intent, SideOf(book[s].pos), AllowShort)
          IN  /\ exit => book[s].pos # Flat
              /\ risk' = [risk EXCEPT ![s] = ObserveEquity(@ # None, @, eq)]
              /\ Goto(s, k, NextStage(plan),
                      [c EXCEPT !.plan = plan, !.equity = eq, !.pos = book[s].pos])
    BY <1>2 DEF ReadAccount
  <2>2. PICK plan \in Plans :
          plan = IF exit THEN ExitPlan ELSE PlanActions(c.intent, SideOf(book[s].pos), AllowShort)
    BY NoPlanTyped, PlanTyped DEF Told
  <2>3. plan.close => book[s].pos # Flat
    <3>1. CASE exit
      BY <2>1, <3>1
    <3>2. CASE ~exit
      BY <2>2, <3>2 DEF PlanActions, SideOf, Long, Flat, Short, Told
    <3> QED
      BY <3>1, <3>2
  <2>4. PICK c2 \in Cycles : c2 = [c EXCEPT !.plan = plan, !.equity = eq, !.pos = book[s].pos]
    BY <2>1, CycleSteps DEF Told
  <2>5. /\ c2.plan = plan /\ c2.pos = book[s].pos /\ c2.real = c.real
        /\ c2.wrote = c.wrote /\ c2.broken = c.broken
    BY <2>4 DEF Cycles, Told
  <2>6. loop[s][k].pc = "read" /\ ~c.wrote /\ ~c.broken /\ c.real = 0
    BY <1>2 DEF ReadAccount, Runs, At, Told, TaskOK
  <2>7. Goto(s, k, NextStage(plan), c2)
    BY <2>1, <2>2, <2>4
  <2>8. \A u : u.pc = NextStage(plan) /\ u.c = c2 /\ u.mode = loop[s][k].mode /\ ~u.cancelled
               => TaskOK(row'[s], book'[s], risk'[s], u)
    BY <1>0, <2>3, <2>5, <2>6 DEF TaskOK, Told, NextStage
  <2>9. risk' = [risk EXCEPT ![s] = ObserveEquity(risk[s] # None, risk[s], eq)]
    BY <2>1
  <2>10. NextStage(plan) \in Stages \ {"free"} /\ NextStage(plan) # "broadcast"
    BY DEF NextStage, Stages
  <2>11. ~c2.wrote /\ ~c2.broken /\ c2.real = 0
    BY <2>5, <2>6
  <2>12. PICK stage \in Stages \ {"free"} : stage = NextStage(plan)
    BY <2>10
  <2>13. /\ stage # "broadcast" /\ Goto(s, k, stage, c2)
         /\ \A u : u.pc = stage /\ u.c = c2 /\ u.mode = loop[s][k].mode /\ ~u.cancelled
                   => TaskOK(row'[s], book'[s], risk'[s], u)
    BY <2>7, <2>8, <2>10, <2>12
  <2> QED
    BY <1>0, <1>2, <2>6, <2>9, <2>11, <2>13, ObservedAccounts
<1>3. CASE ReadFails(s, k) \/ NoAdapter(s, k)
  <2>1. PICK c2 \in Cycles : c2 = [c EXCEPT !.errored = TRUE]
    BY CycleSteps DEF Told
  <2>2. /\ c2.plan = c.plan /\ c2.pos = c.pos /\ c2.real = c.real
        /\ c2.wrote = c.wrote /\ c2.broken = c.broken
    BY <2>1 DEF Cycles, Told
  <2>3. Goto(s, k, "settle", c2) /\ loop[s][k].pc = "read"
    BY <1>3, <2>1 DEF ReadFails, NoAdapter, Runs, At
  <2>4. ~c.wrote /\ ~c.broken /\ c.real = 0
    BY <2>3 DEF Told, TaskOK
  <2>5. \A st, u : u.pc = "settle" /\ u.c = c2 /\ u.mode = loop[s][k].mode /\ ~u.cancelled
               => TaskOK(row'[s], book'[s], st, u)
    BY <1>0, <2>2, <2>3, <2>4 DEF TaskOK, Told
  <2>6. CASE risk' = risk
    <3>1. risk'[s] # None => \A u : u.pc = "settle" /\ u.c = c2 => Exact(book'[s], risk'[s], u)
      BY <1>0, <2>2, <2>3, <2>4, <2>6 DEF Exact, Working, Told
    <3>2. row'[s].status \in {"halted"} \cup Active
      BY <1>0 DEF Told
    <3>3. risk'[s] # None =>
           /\ row'[s].status # "live" /\ risk'[s].peak >= row'[s].peak
           /\ risk'[s].halted /\ row'[s].status # "halted" => FALSE
      BY <1>0, <2>3, <2>6 DEF Told
    <3>4. risk'[s] = None /\ row'[s].status # "halted" => Untouched(row'[s], book'[s])
      BY <1>0, <2>6 DEF Told
    <3> QED
      BY <1>0, <2>3, <2>5, <2>6, <3>1, <3>2, <3>3, <3>4, StepAccounts DEF Stages
  <2>7. ASSUME NEW eq \in Equities, ReadFails(s, k),
               risk' = [risk EXCEPT ![s] = ObserveEquity(risk[s] # None, risk[s], eq)]
        PROVE  Accounts'
    <3>1. loop[s][k].mode = "paper"
      BY <2>7 DEF ReadFails
    <3> QED
      BY <1>0, <2>2, <2>3, <2>4, <2>5, <2>7, <3>1, ObservedAccounts DEF Stages
  <2>8. \/ risk' = risk
        \/ /\ ReadFails(s, k)
           /\ \E eq \in Equities :
                risk' = [risk EXCEPT ![s] = ObserveEquity(risk[s] # None, risk[s], eq)]
    BY <1>3 DEF ReadFails, NoAdapter
  <2> QED
    BY <2>6, <2>7, <2>8
<1> QED
  BY <1>1, <1>2, <1>3

\* With an order at hand the counters follow the session's position.
LEMMA TradeExact ==
  ASSUME Armed, Booking, NEW s \in Strategies, NEW k \in Slots, Told(s, k), loop[s][k].pc = "trade"
  PROVE  /\ risk[s] \in Risks /\ risk[s] # None /\ ~risk[s].halted /\ row[s].status = "paper"
         /\ risk[s].open = Count(loop[s][k].c.pos)
         /\ Today(risk[s].daily, book[s].closed + loop[s][k].c.real)
<1> DEFINE c == loop[s][k].c
<1>1. risk[s] \in Risks /\ risk[s] # None
  BY NoneAssumption DEF Armed, At
<1>2. ~risk[s].halted /\ row[s].status = "paper" /\ ~Orphan(s) /\ ~c.broken
  BY <1>1 DEF Told, Active, Orphan, TaskOK
<1>3. SessionOK(s, loop[s][k])
  BY DEF Booking, Sessions
<1>4. CASE c.wrote
  BY <1>1, <1>2, <1>4 DEF Told, Exact, Working
<1>5. CASE ~c.wrote
  <2>1. c.pos = book[s].pos + c.filled /\ c.filled = 0 /\ c.real = 0
    BY <1>2, <1>3, <1>5 DEF SessionOK, Told, TaskOK
  <2>2. c.pos = book[s].pos /\ book[s].closed + c.real = book[s].closed
    BY <2>1 DEF Told
  <2> QED
    BY <1>1, <1>2, <1>5, <2>2 DEF Told, Exact, Working
<1> QED
  BY <1>4, <1>5

\* An order at hand is filled or rejected.
LEMMA FillAccounts ==
  ASSUME TypeOK, TaskTableExact, Accounts, NEW s \in Strategies, NEW k \in Slots,
         Told(s, k), UNCHANGED <<row, book, notices>>, loop[s][k].pc = "trade",
         row[s].status = "paper", NEW stage \in {"trade", "settle"}, NEW c \in Cycles,
         Goto(s, k, stage, c), ~c.broken, c.wrote \/ c.real = 0,
         stage = "trade" => c.plan # NoPlan /\ ~c.plan.close,
         NEW st \in Risks, risk' = [risk EXCEPT ![s] = st],
         st.peak = risk[s].peak, risk[s] \in Risks,
         IF c.wrote THEN st.open = Count(c.pos) /\ Today(st.daily, book[s].closed + c.real)
                    ELSE st.open = Count(book[s].pos) /\ Today(st.daily, book[s].closed),
         st.halted => stage = "settle" /\ c.halted
  PROVE  Accounts'
<1>1. risk'[s] = st /\ st # None /\ \A t \in Strategies \ {s} : risk'[t] = risk[t]
  BY NoneAssumption DEF TypeOK
<1>2. row'[s] = row[s] /\ book'[s] = book[s]
  OBVIOUS
<1>3. \A u : u.pc = stage /\ u.c = c /\ u.mode = loop[s][k].mode /\ ~u.cancelled
             => TaskOK(row'[s], book'[s], risk'[s], u)
  BY <1>1, <1>2 DEF TaskOK, Told
<1>4. \A u : u.pc = stage /\ u.c = c => Exact(book'[s], st, u)
  BY <1>2 DEF Exact, Working
<1>5. st.peak >= row[s].peak
  BY NoneAssumption DEF Told
<1>6. row'[s].status \in {"halted"} \cup Active
  BY <1>2 DEF Active
<1>7. /\ risk'[s] # None /\ row'[s].status # "live" /\ risk'[s].peak >= row'[s].peak
      /\ \A u : u.pc = stage /\ u.c = c => Exact(book'[s], risk'[s], u)
      /\ risk'[s].halted => stage = "settle" /\ c.halted
  BY <1>1, <1>2, <1>4, <1>5
<1>8. stage \in Stages \ {"free"}
  BY DEF Stages
<1> QED
  BY <1>1, <1>2, <1>3, <1>6, <1>7, <1>8, StepAccounts

\* A close or an open that fills, and an open that is rejected.
LEMMA TradeAccounts ==
  ASSUME TypeOK, Armed, TaskTableExact, Accounts, Booking, NEW s \in Strategies, NEW k \in Slots,
         Told(s, k), \/ CloseFills(s, k) \/ OpenFills(s, k) \/ OpenRejected(s, k)
  PROVE  Accounts'
<1> USE ExecutorAssumption
<1> DEFINE c == loop[s][k].c
<1>0. UNCHANGED <<row, book, notices>> /\ loop[s][k].pc = "trade" /\ ~c.broken
  <2>1. UNCHANGED <<row, book, notices>> /\ loop[s][k].pc = "trade"
    BY DEF CloseFills, OpenFills, OpenRejected, ClosePending, OpenPending, Runs, At
  <2> QED
    BY <2>1 DEF Told, TaskOK
<1>1. /\ risk[s] \in Risks /\ risk[s] # None /\ ~risk[s].halted /\ row[s].status = "paper"
      /\ risk[s].open = Count(c.pos) /\ Today(risk[s].daily, book[s].closed + c.real)
  BY <1>0, TradeExact
<1>2. /\ c \in Cycles /\ c.plan \in Plans /\ c.pos \in Int /\ c.real \in Int /\ c.filled \in Int
      /\ c.plan.open \in Int /\ book[s].closed \in Int
      /\ risk[s].open \in Int /\ risk[s].daily \in Int /\ c.plan # NoPlan
      /\ c.plan.close => c.pos # Flat
  BY <1>0, <1>1 DEF Told, Risks, TaskOK
<1>3. SessionOK(s, loop[s][k])
  BY DEF Booking, Sessions
<1>4. CASE CloseFills(s, k)
  <2>1. PICK pnl, plan :
          /\ pnl \in Pnls /\ plan = [c.plan EXCEPT !.close = FALSE]
          /\ risk' = [risk EXCEPT ![s] = AfterClose(risk[s], pnl)]
          /\ Goto(s, k, NextStage(plan),
                  [c EXCEPT !.plan = plan, !.pos = Flat, !.filled = c.filled - c.pos,
                            !.real = c.real + pnl, !.wrote = TRUE])
    BY <1>2, <1>4 DEF CloseFills, Cycles, TypeOK
  <2>2. plan \in Plans /\ ~plan.close /\ pnl \in Int
    BY <1>2, <2>1 DEF Plans
  <2>3. PICK c2 \in Cycles :
          c2 = [c EXCEPT !.plan = plan, !.pos = Flat, !.filled = c.filled - c.pos,
                         !.real = c.real + pnl, !.wrote = TRUE]
    <3>1. Flat \in Int /\ c.filled - c.pos \in Int /\ c.real + pnl \in Int
      BY <1>2, <2>2 DEF Flat
    <3> QED
      BY <1>2, <2>2, <3>1, CycleSteps
  <2>4. c2.pos = Flat /\ c2.real = c.real + pnl /\ c2.wrote /\ c2.broken = c.broken /\ c2.plan = plan
    BY <1>2, <2>3 DEF Cycles
  <2>5. PICK st \in Risks :
          /\ st = AfterClose(risk[s], pnl) /\ st.open = risk[s].open - 1
          /\ st.daily = risk[s].daily + pnl /\ st.peak = risk[s].peak /\ st.halted = risk[s].halted
    <3>1. PICK o : o = AfterClose(risk[s], pnl)
      OBVIOUS
    <3>2. o \in Risks
      BY <1>1, <2>2, <3>1, FillTyped
    <3>3. o = [risk[s] EXCEPT !.open = risk[s].open - 1, !.daily = risk[s].daily + pnl]
      BY <3>1 DEF AfterClose
    <3>4. /\ o.open = risk[s].open - 1 /\ o.daily = risk[s].daily + pnl
          /\ o.peak = risk[s].peak /\ o.halted = risk[s].halted
      BY <1>1, <3>3 DEF Risks
    <3> QED
      BY <3>1, <3>2, <3>4
  <2>6. st.open = Count(c2.pos) /\ Today(st.daily, book[s].closed + c2.real)
    <3>1. c.pos # Flat
      BY <1>2, <1>4 DEF CloseFills, ClosePending
    <3>2. st.open = 0
      BY <1>1, <2>5, <3>1 DEF Count
    <3>3. Today(st.daily, book[s].closed + c2.real)
      BY <1>1, <1>2, <2>2, <2>4, <2>5 DEF Today
    <3> QED
      BY <2>4, <3>2, <3>3 DEF Count
  <2>7. PICK stage \in {"trade", "settle"} :
          stage = NextStage(plan) /\ (stage = "trade" => plan # NoPlan)
    BY DEF NextStage
  <2>8. /\ Goto(s, k, stage, c2) /\ ~c2.broken /\ c2.wrote
        /\ stage = "trade" => c2.plan # NoPlan /\ ~c2.plan.close
    BY <1>0, <2>1, <2>2, <2>3, <2>4, <2>7
  <2>9. risk' = [risk EXCEPT ![s] = st] /\ ~st.halted /\ st.peak = risk[s].peak
    BY <1>1, <2>1, <2>5
  <2> QED
    BY <1>0, <1>1, <2>6, <2>8, <2>9, FillAccounts
<1>5. CASE OpenFills(s, k)
  <2>1. PICK c2 \in Cycles :
          c2 = [c EXCEPT !.plan = NoPlan, !.pos = c.pos + c.plan.open,
                         !.filled = c.filled + c.plan.open, !.wrote = TRUE]
    <3>1. c.pos + c.plan.open \in Int /\ c.filled + c.plan.open \in Int
      BY <1>2
    <3> QED
      BY <1>2, <3>1, NoPlanTyped, CycleSteps
  <2>2. /\ Goto(s, k, "settle", c2) /\ risk' = [risk EXCEPT ![s] = AfterOpen(risk[s])]
    BY <1>2, <1>5, <2>1 DEF OpenFills, Cycles, TypeOK
  <2>3. /\ c2.pos = c.pos + c.plan.open /\ c2.real = c.real /\ c2.wrote /\ c2.broken = c.broken
    BY <1>2, <2>1 DEF Cycles
  <2>4. ~c.plan.close /\ c.pos = Flat
    BY <1>0, <1>3, <1>5 DEF SessionOK, OpenFills, OpenPending
  <2>5. c.plan.open # Flat
    <3>1. c.plan.open = Flat => c.plan = [close |-> FALSE, open |-> Flat]
      BY <1>2, <2>4 DEF Plans
    <3> QED
      BY <1>2, <3>1 DEF NoPlan
  <2>6. PICK st \in Risks :
          /\ st = AfterOpen(risk[s]) /\ st.open = risk[s].open + 1
          /\ st.daily = risk[s].daily /\ st.peak = risk[s].peak /\ st.halted = risk[s].halted
    <3>1. PICK o : o = AfterOpen(risk[s])
      OBVIOUS
    <3>2. o \in Risks
      BY <1>1, <3>1, FillTyped
    <3>3. o = [risk[s] EXCEPT !.open = risk[s].open + 1]
      BY <3>1 DEF AfterOpen
    <3>4. /\ o.open = risk[s].open + 1 /\ o.daily = risk[s].daily
          /\ o.peak = risk[s].peak /\ o.halted = risk[s].halted
      BY <1>1, <3>3 DEF Risks
    <3> QED
      BY <3>1, <3>2, <3>4
  <2>7. st.open = Count(c2.pos) /\ Today(st.daily, book[s].closed + c2.real)
    <3>1. risk[s].open = 0
      BY <1>1, <2>4 DEF Count
    <3>2. c2.pos # Flat
      BY <1>2, <2>3, <2>4, <2>5 DEF Flat
    <3>3. st.open = 1
      BY <2>6, <3>1
    <3>4. Today(st.daily, book[s].closed + c2.real)
      BY <1>1, <2>3, <2>6
    <3> QED
      BY <3>2, <3>3, <3>4 DEF Count
  <2>8. risk' = [risk EXCEPT ![s] = st] /\ ~st.halted /\ st.peak = risk[s].peak
    BY <1>1, <2>2, <2>6
  <2>9. ~c2.broken
    BY <1>0, <2>3
  <2> QED
    BY <1>0, <1>1, <2>2, <2>3, <2>7, <2>8, <2>9, FillAccounts
<1>6. CASE OpenRejected(s, k)
  <2>1. PICK b \in BOOLEAN, st \in Risks :
          /\ Goto(s, k, "settle", [c EXCEPT !.plan = NoPlan, !.halted = b])
          /\ risk' = [risk EXCEPT ![s] = st]
          /\ st.open = risk[s].open /\ st.daily = risk[s].daily /\ st.peak = risk[s].peak
          /\ st.halted => b
    <3>1. CASE risk' = risk /\ Goto(s, k, "settle", [c EXCEPT !.plan = NoPlan, !.halted = FALSE])
      <4>1. risk' = [risk EXCEPT ![s] = risk[s]]
        BY <3>1 DEF TypeOK
      <4> QED
        BY <1>1, <3>1, <4>1
    <3>2. ASSUME NEW rule, risk' = [risk EXCEPT ![s] = AfterVeto(risk[s], rule, RiskCfg)],
                 Goto(s, k, "settle", [c EXCEPT !.plan = NoPlan, !.halted = Halts(rule, RiskCfg)])
          PROVE  \E b \in BOOLEAN, st \in Risks :
                   /\ Goto(s, k, "settle", [c EXCEPT !.plan = NoPlan, !.halted = b])
                   /\ risk' = [risk EXCEPT ![s] = st]
                   /\ st.open = risk[s].open /\ st.daily = risk[s].daily /\ st.peak = risk[s].peak
                   /\ st.halted => b
      <4>1. PICK b \in BOOLEAN : b = Halts(rule, RiskCfg)
        BY DEF Halts, RiskConfigs
      <4>2. PICK st \in Risks : st = AfterVeto(risk[s], rule, RiskCfg)
        BY <1>1, VetoTyped
      <4>3. /\ st.open = risk[s].open /\ st.daily = risk[s].daily /\ st.peak = risk[s].peak
            /\ st.halted => b
        BY <1>1, <4>1, <4>2 DEF AfterVeto, Risks
      <4> QED
        BY <3>2, <4>1, <4>2, <4>3
    <3> QED
      BY <1>6, <3>1, <3>2 DEF OpenRejected, TypeOK
  <2>2. PICK c2 \in Cycles : c2 = [c EXCEPT !.plan = NoPlan, !.halted = b]
    BY <1>2, NoPlanTyped, CycleSteps
  <2>3. /\ c2.pos = c.pos /\ c2.real = c.real /\ c2.wrote = c.wrote
        /\ c2.broken = c.broken /\ c2.halted = b
    BY <1>2, <2>2 DEF Cycles
  <2>4. ~c.wrote => c.real = 0 /\ risk[s].open = Count(book[s].pos) /\ Today(risk[s].daily, book[s].closed)
    BY <1>0, <1>1 DEF Told, TaskOK, Exact, Working
  <2>5. IF c2.wrote THEN st.open = Count(c2.pos) /\ Today(st.daily, book[s].closed + c2.real)
                    ELSE st.open = Count(book[s].pos) /\ Today(st.daily, book[s].closed)
    BY <1>1, <2>1, <2>3, <2>4
  <2>6. Goto(s, k, "settle", c2) /\ ~c2.broken /\ (c2.wrote \/ c2.real = 0)
    BY <1>0, <2>1, <2>2, <2>3, <2>4
  <2> QED
    BY <1>0, <1>1, <2>1, <2>3, <2>5, <2>6, FillAccounts
<1> QED
  BY <1>4, <1>5, <1>6

\* The commit makes the ledger what the counters say, and shows a halt in the row;
\* the peak it persists is not below the one that was there.
LEMMA CommitAccounts ==
  ASSUME TypeOK, TaskTableExact, Accounts, NEW s \in Strategies, NEW k \in Slots,
         Told(s, k), Commit(s, k)
  PROVE  Accounts' /\ row'[s].peak >= row[s].peak /\ \A t \in Strategies \ {s} : row'[t] = row[t]
<1> DEFINE c == loop[s][k].c
<1>0. /\ c \in Cycles /\ loop[s][k].pc = "settle" /\ risk' = risk /\ notices' = notices
      /\ row[s] \in Rows /\ book[s] \in Books /\ row[s].peak \in Nat
      /\ c.real \in Int /\ book[s].closed \in Int
      /\ row[s].status \in Active /\ row[s].status = loop[s][k].mode
      /\ risk[s] # None => risk[s].peak \in Nat
  BY DEF Commit, At, Told, Risks
<1>1. PICK r, halts :
        /\ halts \in BOOLEAN /\ (c.halted => halts)
        /\ row' = [row EXCEPT ![s] = r]
        /\ r.status = IF halts THEN "halted" ELSE row[s].status
        /\ r.peak = IF risk[s] = None THEN row[s].peak ELSE risk[s].peak
        /\ Goto(s, k, "broadcast", [c EXCEPT !.keep = ~halts])
  <2> DEFINE errors == ErrorsAfter(row[s].errors, c)
             halts == c.halted \/ errors = MaxErrors
             r == [status |-> IF halts THEN "halted" ELSE row[s].status,
                   errors |-> errors,
                   peak   |-> IF risk[s] = None THEN row[s].peak ELSE risk[s].peak]
  <2>1. row' = [row EXCEPT ![s] = r] /\ Goto(s, k, "broadcast", [c EXCEPT !.keep = ~halts])
    BY DEF Commit, TypeOK
  <2>2. /\ r.status = IF halts THEN "halted" ELSE row[s].status
        /\ r.peak = IF risk[s] = None THEN row[s].peak ELSE risk[s].peak
    OBVIOUS
  <2>3. c.halted \in BOOLEAN
    BY <1>0 DEF Cycles
  <2>4. halts \in BOOLEAN /\ (c.halted => halts)
    BY <2>3
  <2> HIDE DEF r, halts, c
  <2> QED
    BY <2>1, <2>2, <2>4
<1>2. PICK b : /\ book' = [book EXCEPT ![s] = b] /\ b.closed = book[s].closed + c.real
               /\ b.pos = IF c.wrote THEN c.pos ELSE book[s].pos
  <2>1. PICK b : b = Booked(book[s], c)
    OBVIOUS
  <2>2. b.closed = book[s].closed + c.real /\ b.pos = IF c.wrote THEN c.pos ELSE book[s].pos
    BY <2>1 DEF Booked
  <2>3. book' = [book EXCEPT ![s] = b]
    BY <2>1 DEF Commit, TypeOK
  <2> QED
    BY <2>2, <2>3
<1>3. PICK keep \in BOOLEAN, c2 \in Cycles : keep = ~halts /\ c2 = [c EXCEPT !.keep = keep]
  <2>1. PICK keep \in BOOLEAN : keep = ~halts
    OBVIOUS
  <2> QED
    BY <1>0, <2>1, CycleSteps
<1>4. /\ c2.keep = ~halts /\ c2.pos = c.pos /\ c2.real = c.real
      /\ c2.wrote = c.wrote /\ c2.broken = c.broken
  BY <1>0, <1>3 DEF Cycles
<1>5. Goto(s, k, "broadcast", c2)
  BY <1>1, <1>3
<1>6. /\ row'[s] = r /\ book'[s] = b /\ risk'[s] = risk[s]
      /\ \A t \in Strategies \ {s} : row'[t] = row[t] /\ book'[t] = book[t] /\ risk'[t] = risk[t]
  BY <1>0, <1>1, <1>2 DEF TypeOK
<1>7. r.status \in {"halted"} \cup Active
  BY <1>0, <1>1
<1>8. TaskOK(row[s], book[s], risk[s], loop[s][k])
  BY DEF Told
<1>9. ASSUME NEW u, u.pc = "broadcast", u.c = c2, u.mode = loop[s][k].mode, ~u.cancelled
      PROVE  TaskOK(r, b, risk[s], u)
  <2>1. r.status = (IF c2.keep THEN u.mode ELSE "halted")
    BY <1>0, <1>1, <1>4, <1>9
  <2>2. c2.wrote => c2.pos = b.pos /\ risk[s] # None
    BY <1>2, <1>4, <1>8 DEF TaskOK
  <2>3. ~c2.broken /\ (~c2.wrote => c2.real = 0)
    BY <1>4, <1>8 DEF TaskOK
  <2> QED
    BY <1>9, <2>1, <2>2, <2>3 DEF TaskOK
<1>10. risk[s] # None => risk[s].open = Count(b.pos) /\ Today(risk[s].daily, b.closed)
  <2>1. CASE c.wrote
    BY <1>0, <1>2, <2>1 DEF Told, Exact, Working
  <2>2. CASE ~c.wrote
    <3>1. c.real = 0
      BY <1>8, <2>2 DEF TaskOK
    <3>2. b.closed = book[s].closed /\ b.pos = book[s].pos
      BY <1>0, <1>2, <2>2, <3>1
    <3> QED
      BY <2>2, <3>2 DEF Told, Exact, Working
  <2> QED
    BY <2>1, <2>2
<1>11. risk[s] = None => Untouched(r, b)
  <2> SUFFICES ASSUME risk[s] = None PROVE Untouched(r, b)
    OBVIOUS
  <2>1. ~c.wrote /\ c.real = 0
    BY <1>8 DEF TaskOK
  <2>2. book[s].pos = Flat /\ book[s].closed = 0 /\ row[s].peak = NoPeak
    BY <1>0 DEF Told, Untouched, Active
  <2> QED
    BY <1>1, <1>2, <2>1, <2>2 DEF Untouched
<1>12. risk[s] # None => /\ r.status # "live" /\ r.peak = risk[s].peak
                         /\ risk[s].halted => r.status = "halted"
  <2> SUFFICES ASSUME risk[s] # None
               PROVE  /\ r.status # "live" /\ r.peak = risk[s].peak
                      /\ risk[s].halted => r.status = "halted"
    OBVIOUS
  <2>1. row[s].status # "live" /\ r.peak = risk[s].peak
    BY <1>1 DEF Told
  <2>2. r.status # "live"
    BY <1>1, <2>1
  <2>3. risk[s].halted /\ row[s].status # "halted" => c.halted
    BY DEF Told
  <2>4. row[s].status # "halted"
    BY <1>0 DEF Active
  <2>5. risk[s].halted => r.status = "halted"
    <3>1. (c.halted => halts) /\ (halts => r.status = "halted")
      BY <1>1
    <3> HIDE DEF c
    <3> QED
      BY <2>3, <2>4, <3>1 DEF c
  <2> QED
    BY <1>1, <2>1, <2>2, <2>5
<1>13. r.peak >= row[s].peak
  <2>1. CASE risk[s] = None
    BY <1>0, <1>1, <2>1
  <2>2. CASE risk[s] # None
    BY <1>1, <2>2 DEF Told
  <2> QED
    BY <2>1, <2>2
<1>14. Accounts'
  <2>1. \A u : u.pc = "broadcast" /\ u.c = c2 => Exact(b, risk[s], u) \/ risk[s] = None
    BY <1>10 DEF Exact, Working
  <2>2. risk'[s] # None =>
           /\ row'[s].status # "live" /\ risk'[s].peak >= row'[s].peak
           /\ \A u : u.pc = "broadcast" /\ u.c = c2 => Exact(book'[s], risk'[s], u)
           /\ risk'[s].halted /\ row'[s].status # "halted" => FALSE
    BY <1>0, <1>6, <1>12, <2>1
  <2>3. \A u : u.pc = "broadcast" /\ u.c = c2 /\ u.mode = loop[s][k].mode /\ ~u.cancelled
               => TaskOK(row'[s], book'[s], risk'[s], u)
    BY <1>6, <1>9
  <2>4. risk'[s] = None /\ row'[s].status # "halted" => Untouched(row'[s], book'[s])
    BY <1>6, <1>11
  <2>5. row'[s].status \in {"halted"} \cup Active
    BY <1>6, <1>7
  <2> QED
    BY <1>0, <1>5, <1>6, <2>2, <2>3, <2>4, <2>5, StepAccounts DEF Stages
<1> QED
  BY <1>6, <1>13, <1>14

\* A cycle that was told to stop leaves no loop, and nothing to explain but the ledger.
LEMMA FinishAccounts ==
  ASSUME TypeOK, TaskTableExact, Accounts, NEW s \in Strategies, NEW k \in Slots,
         Told(s, k), Finish(s, k)
  PROVE  Accounts'
<1> DEFINE c == loop[s][k].c
<1>0. UNCHANGED <<row, book, risk, notices>> /\ loop[s][k].pc = "broadcast"
  BY DEF Finish, Runs, At
<1>1. ~Working(loop[s][k])
  BY <1>0 DEF Working
<1>2. risk[s] # None => risk[s].open = Count(book[s].pos) /\ Today(risk[s].daily, book[s].closed)
  BY <1>1 DEF Told, Exact
<1>3. CASE c.keep
  <2>1. Goto(s, k, "sleep", NoCycle) /\ NoCycle \in Cycles
    BY <1>3, NoCycleTyped DEF Finish
  <2>2. row[s].status = loop[s][k].mode /\ row[s].status \in {"halted"} \cup Active
    BY <1>0, <1>3 DEF Told, TaskOK
  <2>3. \A u : u.pc = "sleep" /\ u.c = NoCycle /\ u.mode = loop[s][k].mode /\ ~u.cancelled
               => TaskOK(row'[s], book'[s], risk'[s], u)
    <3>1. ~NoCycle.broken /\ ~NoCycle.wrote /\ NoCycle.real = 0
      BY DEF NoCycle
    <3> QED
      BY <1>0, <2>2, <3>1 DEF TaskOK
  <2>4. \A u : u.pc = "sleep" => Exact(book'[s], risk'[s], u) \/ risk'[s] = None
    BY <1>0, <1>2 DEF Exact, Working
  <2>5. risk'[s] # None =>
           /\ row'[s].status # "live" /\ risk'[s].peak >= row'[s].peak
           /\ \A u : u.pc = "sleep" /\ u.c = NoCycle => Exact(book'[s], risk'[s], u)
           /\ risk'[s].halted /\ row'[s].status # "halted" => FALSE
    BY <1>0, <2>4 DEF Told
  <2>6. risk'[s] = None /\ row'[s].status # "halted" => Untouched(row'[s], book'[s])
    BY <1>0 DEF Told
  <2> QED
    BY <1>0, <2>1, <2>2, <2>3, <2>5, <2>6, StepAccounts DEF Stages
<1>4. CASE ~c.keep
  <2>1. loop' = [loop EXCEPT ![s] = [loop[s] EXCEPT ![k] = FreeTask]]
    BY <1>4 DEF Finish
  <2>2. /\ loop'[s][k] = FreeTask
        /\ \A t \in Strategies, j \in Slots : t # s \/ j # k => loop'[t][j] = loop[t][j]
    BY <2>1 DEF TypeOK
  <2>3. row[s].status = "halted"
    BY <1>0, <1>4 DEF Told, TaskOK
  <2>4. \A j \in Slots \ {k} : loop[s][j].pc = "free"
    BY <1>0, OnlyTask
  <2>5. FreeTask.pc = "free" /\ ~FreeTask.cancelled /\ FreeTask.c = NoCycle
    BY DEF FreeTask
  <2>6. ~NoCycle.broken /\ ~NoCycle.wrote /\ NoCycle.real = 0
    BY DEF NoCycle
  <2>7. StrategyOK(row[s], book[s], risk[s], loop[s])
    BY DEF Accounts, StrategiesOK
  <2>8. ASSUME NEW j \in Slots
        PROVE  TaskOK(row[s], book[s], risk[s], loop'[s][j]) /\ loop'[s][j].pc = "free"
    <3>1. CASE j = k
      BY <2>2, <2>5, <2>6, <3>1 DEF TaskOK
    <3>2. CASE j # k
      BY <2>2, <2>4, <2>7, <3>2 DEF StrategyOK
    <3> QED
      BY <3>1, <3>2
  <2>9. RiskOK(row[s], book[s], risk[s], loop'[s])
    BY <1>2, <2>3, <2>8 DEF RiskOK, Told
  <2>10. StrategyOK(row[s], book[s], risk[s], loop'[s])
    BY <2>3, <2>8, <2>9 DEF StrategyOK
  <2>11. ASSUME NEW t \in Strategies \ {s}
         PROVE  StrategyOK(row[t], book[t], risk[t], loop'[t])
    <3>1. \A j \in Slots : loop'[t][j] = loop[t][j]
      BY <2>2
    <3>2. StrategyOK(row[t], book[t], risk[t], loop[t])
      BY DEF Accounts, StrategiesOK
    <3> QED
      BY <3>1, <3>2 DEF StrategyOK, RiskOK
  <2>12. StrategiesOK'
    BY <1>0, <2>10, <2>11 DEF StrategiesOK
  <2>13. NoticesOK'
    <3>1. \A t \in Strategies, j \in Slots : loop[t][j].pc = "free" => loop'[t][j].pc = "free"
      BY <2>2, <2>5
    <3>2. \A i \in DOMAIN notices : notices[i].sid \in Strategies
      BY NoticeTyped DEF Notices
    <3> QED
      BY <1>0, <3>1, <3>2 DEF Accounts, NoticesOK
  <2> QED
    BY <2>12, <2>13 DEF Accounts
<1> QED
  BY <1>3, <1>4

\* Every step of a loop keeps the accounts.
LEMMA LoopAccounts ==
  ASSUME Undisturbed, TypeOK, Armed, TaskTableExact, Booking, Accounts,
         NEW s \in Strategies, NEW k \in Slots, Step(s, k), ~At(s, k, "free")
  PROVE  Accounts' /\ (row' = row \/ Commit(s, k))
<1>1. Told(s, k)
  BY StepTold DEF At
<1>2. ~loop[s][k].cancelled /\ ~loop[s][k].c.broken /\ ~Orphan(s)
  BY <1>1 DEF Told, TaskOK, Orphan
<1>3. ~OrderFails(s, k) /\ ~CycleLost(s, k) /\ ~Aborted(s, k)
  <2>1. "place" \notin Enabled /\ "commit" \notin Enabled
    BY DEF Undisturbed
  <2> QED
    BY <1>2, <2>1 DEF OrderFails, CycleLost, Unusable, Aborted
<1>4. CASE Commit(s, k)
  BY <1>1, <1>4, CommitAccounts
<1>5. CASE StartCycle(s, k) \/ ReadAccount(s, k) \/ ReadFails(s, k) \/ NoAdapter(s, k)
  BY <1>1, <1>5, ReadAccounts DEF StartCycle, ReadAccount, ReadFails, NoAdapter
<1>6. CASE CloseFills(s, k) \/ OpenFills(s, k) \/ OpenRejected(s, k)
  BY <1>1, <1>6, TradeAccounts DEF CloseFills, OpenFills, OpenRejected
<1>7. CASE Finish(s, k)
  BY <1>1, <1>7, FinishAccounts DEF Finish
<1> QED
  BY <1>3, <1>4, <1>5, <1>6, <1>7 DEF Step

-----------------------------------------------------------------------------
(***************************************************************************)
(* The handlers and the environment.                                       *)
(***************************************************************************)

\* A strategy without a loop of which nothing is known yet.
LEMMA FreshStrategy ==
  ASSUME TypeOK, Accounts, NEW s \in Strategies,
         row[s].status = "draft" \/ \E i \in DOMAIN notices : notices[i].sid = s
  PROVE  /\ risk[s] = None /\ \A k \in Slots : loop[s][k].pc = "free"
         /\ Untouched(row[s], book[s])
<1>1. StrategyOK(row[s], book[s], risk[s], loop[s])
  BY DEF Accounts, StrategiesOK
<1>2. risk[s] = None /\ \A k \in Slots : loop[s][k].pc = "free"
  BY <1>1 DEF StrategyOK, RiskOK, Accounts, NoticesOK
<1>3. row[s].status # "halted"
  BY DEF Accounts, NoticesOK, Active
<1> QED
  BY <1>1, <1>2, <1>3 DEF StrategyOK, RiskOK

\* The activation of a draft commits the status and sends the first notification.
LEMMA PatchAccounts ==
  ASSUME Undisturbed, TypeOK, Accounts, NEW s \in Strategies, NEW status \in Statuses,
         PatchStatus(s, status)
  PROVE  Accounts' /\ \A t \in Strategies : row'[t].peak = row[t].peak
<1>1. row[s].status = "draft" /\ status \in Active
  BY DEF PatchStatus, Undisturbed
<1>2. PICK r \in Rows :
        /\ row' = [row EXCEPT ![s] = r] /\ r.status = status /\ r.peak = row[s].peak
  <2>1. [row[s] EXCEPT !.status = status] \in Rows
    BY DEF TypeOK, Rows
  <2>2. /\ [row[s] EXCEPT !.status = status].status = status
        /\ [row[s] EXCEPT !.status = status].peak = row[s].peak
    BY DEF TypeOK, Rows
  <2> QED
    BY <2>1, <2>2 DEF PatchStatus, TypeOK
<1>3. row'[s] = r /\ \A t \in Strategies \ {s} : row'[t] = row[t]
  BY <1>2 DEF TypeOK
<1>4. UNCHANGED <<book, loop, risk>>
  BY DEF PatchStatus
<1>5. risk[s] = None /\ Untouched(row[s], book[s]) /\ \A k \in Slots : loop[s][k].pc = "free"
  BY <1>1, FreshStrategy
<1>6. StrategyOK(row[s], book[s], risk[s], loop[s])
  BY DEF Accounts, StrategiesOK
<1>7. \A k \in Slots : TaskOK(r, book[s], risk[s], loop[s][k])
  BY <1>5, <1>6 DEF StrategyOK, TaskOK
<1>8. StrategyOK(r, book[s], risk[s], loop[s])
  BY <1>1, <1>2, <1>5, <1>7 DEF StrategyOK, RiskOK, Untouched, Active
<1>9. StrategiesOK'
  BY <1>3, <1>4, <1>8 DEF Accounts, StrategiesOK
<1>10. NoticesOK'
  <2>1. PICK n : n = Notice("status", s, status)
    OBVIOUS
  <2>2. n.kind = "status" /\ n.sid = s /\ n.status = status
    BY <2>1 DEF Notice
  <2>3. notices' = Append(notices, n) /\ notices \in Seq(Notices)
    BY <2>1 DEF PatchStatus, TypeOK
  <2>4. \A i \in DOMAIN notices : notices[i].sid # s /\ notices[i].sid \in Strategies
    <3>1. \A i \in DOMAIN notices : notices[i].sid \in Strategies
      BY NoticeTyped DEF Notices
    <3>2. \A i \in DOMAIN notices : row[notices[i].sid].status \in Active
      BY DEF Accounts, NoticesOK
    <3> QED
      BY <1>1, <3>1, <3>2 DEF Active
  <2>5. ASSUME NEW i \in DOMAIN notices'
        PROVE  \/ i \in DOMAIN notices /\ notices'[i] = notices[i]
               \/ i = Len(notices) + 1 /\ notices'[i] = n
    <3>1. DOMAIN notices' = 1..(Len(notices) + 1) /\ DOMAIN notices = 1..Len(notices)
      BY <2>3
    <3>2. i \in 1..Len(notices) \/ i = Len(notices) + 1
      BY <2>3, <3>1
    <3> QED
      BY <2>3, <3>1, <3>2
  <2>6. ASSUME NEW i \in DOMAIN notices'
        PROVE  LET m == notices'[i]
               IN  /\ m.kind = "status" /\ m.status = row'[m.sid].status /\ m.status \in Active
                   /\ risk'[m.sid] = None /\ \A k \in Slots : loop'[m.sid][k].pc = "free"
    <3>1. CASE i \in DOMAIN notices /\ notices'[i] = notices[i]
      BY <1>3, <1>4, <2>4, <3>1 DEF Accounts, NoticesOK
    <3>2. CASE notices'[i] = n
      BY <1>1, <1>2, <1>3, <1>4, <1>5, <2>2, <3>2
    <3> QED
      BY <2>5, <3>1, <3>2
  <2>7. ASSUME NEW i \in DOMAIN notices', NEW j \in DOMAIN notices',
               notices'[i].sid = notices'[j].sid
        PROVE  i = j
    BY <2>2, <2>4, <2>5, <2>7 DEF Accounts, NoticesOK
  <2> QED
    BY <2>6, <2>7 DEF NoticesOK
<1> QED
  BY <1>2, <1>3, <1>9, <1>10 DEF Accounts

\* The notification launches the first loop.
LEMMA NotifyAccounts ==
  ASSUME TypeOK, TaskTableExact, Accounts, Notify
  PROVE  Accounts' /\ row' = row
<1> USE ExecutorAssumption
<1>1. notices \in Seq(Notices) /\ notices # <<>>
  BY DEF Notify, TypeOK
<1>2. PICK n \in Notices : n = Head(notices) /\ n = notices[1] /\ 1 \in DOMAIN notices
  BY <1>1
<1>3. PICK s \in Strategies : s = n.sid
  BY DEF Notices
<1>4. /\ n.kind = "status" /\ n.status = row[s].status /\ n.status \in Active
      /\ risk[s] = None /\ \A k \in Slots : loop[s][k].pc = "free"
  BY <1>2, <1>3 DEF Accounts, NoticesOK, At
<1>5. tasks[s] = None
  <2>1. tasks[s] \in Slots \cup {None}
    BY DEF TypeOK
  <2> QED
    BY <1>4, <2>1 DEF TaskTableExact
<1>6. PICK k \in Slots : loop' = [loop EXCEPT ![s][k] = NewTask(n.status)]
  BY <1>2, <1>3, <1>4, <1>5 DEF Notify, NotifyStatus, Starts
<1>7. UNCHANGED <<row, book, risk>> /\ notices' = Tail(notices)
  BY <1>2, <1>3, <1>4, <1>5 DEF Notify, NotifyStatus, Starts
<1>8. /\ loop'[s][k] = NewTask(n.status)
      /\ \A t \in Strategies, j \in Slots : t # s \/ j # k => loop'[t][j] = loop[t][j]
  <2>1. PICK u : u = NewTask(n.status)
    OBVIOUS
  <2>2. loop' = [loop EXCEPT ![s] = [loop[s] EXCEPT ![k] = u]]
    BY <1>6, <2>1
  <2>3. loop \in [Strategies -> [Slots -> Tasks]]
    BY DEF TypeOK
  <2>4. loop'[s][k] = u /\ \A t \in Strategies, j \in Slots : t # s \/ j # k => loop'[t][j] = loop[t][j]
    BY <2>2, <2>3
  <2> QED
    BY <2>1, <2>4
<1>9. /\ loop'[s][k].pc = "sleep" /\ loop'[s][k].mode = n.status
      /\ ~loop'[s][k].cancelled /\ loop'[s][k].c = NoCycle
  BY <1>8, NewTaskFacts DEF NewTask, FreeTask
<1>10. StrategyOK(row[s], book[s], risk[s], loop[s])
  BY DEF Accounts, StrategiesOK
<1>11. TaskOK(row[s], book[s], risk[s], loop'[s][k])
  <2>1. ~NoCycle.broken /\ ~NoCycle.wrote /\ NoCycle.real = 0
    BY DEF NoCycle
  <2> QED
    BY <1>4, <1>9, <2>1 DEF TaskOK
<1>12. Untouched(row[s], book[s])
  BY <1>2, <1>3, FreshStrategy
<1>13. StrategyOK(row[s], book[s], risk[s], loop'[s])
  <2>1. \A j \in Slots \ {k} : loop'[s][j] = loop[s][j] /\ loop[s][j].pc = "free"
    BY <1>4, <1>8
  <2>2. loop'[s][k].pc # "free"
    BY <1>9
  <2>3. row[s].status \in {"halted"} \cup Active
    BY <1>4
  <2> QED
    BY <1>4, <1>10, <1>11, <1>12, <2>1, <2>2, <2>3, Advance
<1>14. ASSUME NEW t \in Strategies \ {s}
       PROVE  StrategyOK(row[t], book[t], risk[t], loop'[t])
  <2>1. \A j \in Slots : loop'[t][j] = loop[t][j]
    BY <1>8
  <2>2. StrategyOK(row[t], book[t], risk[t], loop[t])
    BY DEF Accounts, StrategiesOK
  <2> QED
    BY <2>1, <2>2 DEF StrategyOK, RiskOK
<1>15. StrategiesOK'
  BY <1>7, <1>13, <1>14 DEF StrategiesOK
<1>16. NoticesOK'
  <2>1. ASSUME NEW i \in DOMAIN notices'
        PROVE  i + 1 \in DOMAIN notices /\ notices'[i] = notices[i + 1] /\ i \in Int /\ i + 1 # 1
    <3>1. DOMAIN notices' = 1..(Len(notices) - 1) /\ DOMAIN notices = 1..Len(notices)
      BY <1>1, <1>7
    <3>2. i \in Int /\ 1 <= i /\ i + 1 \in 1..Len(notices)
      BY <1>1, <3>1
    <3> QED
      BY <1>1, <1>7, <3>1, <3>2
  <2>2. ASSUME NEW i \in DOMAIN notices'
        PROVE  /\ notices'[i].sid # s /\ notices'[i].sid \in Strategies
    <3>1. i + 1 \in DOMAIN notices /\ i + 1 # 1 /\ notices'[i] = notices[i + 1]
      BY <2>1
    <3>2. notices[i + 1].sid # notices[1].sid
      BY <1>2, <3>1 DEF Accounts, NoticesOK
    <3>3. notices[i + 1] \in Notices
      BY <3>1, NoticeTyped
    <3> QED
      BY <1>2, <1>3, <3>1, <3>2, <3>3 DEF Notices
  <2>3. ASSUME NEW i \in DOMAIN notices'
        PROVE  LET m == notices'[i]
               IN  /\ m.kind = "status" /\ m.status = row'[m.sid].status /\ m.status \in Active
                   /\ risk'[m.sid] = None /\ \A j \in Slots : loop'[m.sid][j].pc = "free"
    <3>1. PICK m : m = notices'[i]
      OBVIOUS
    <3>2. m.sid # s /\ m.sid \in Strategies
      BY <2>2, <3>1
    <3>3. /\ m.kind = "status" /\ m.status = row[m.sid].status /\ m.status \in Active
          /\ risk[m.sid] = None /\ \A j \in Slots : loop[m.sid][j].pc = "free"
      BY <2>1, <3>1 DEF Accounts, NoticesOK
    <3>4. \A j \in Slots : loop'[m.sid][j].pc = "free"
      BY <1>8, <3>2, <3>3
    <3> QED
      BY <1>7, <3>1, <3>3, <3>4
  <2>4. ASSUME NEW i \in DOMAIN notices', NEW j \in DOMAIN notices',
               notices'[i].sid = notices'[j].sid
        PROVE  i = j
    <3>1. i + 1 = j + 1
      BY <2>1, <2>4 DEF Accounts, NoticesOK
    <3> QED
      BY <2>1, <3>1
  <2> QED
    BY <2>3, <2>4 DEF NoticesOK
<1> QED
  BY <1>7, <1>15, <1>16 DEF Accounts

\* A restart restores the counters from what was committed.
LEMMA RestartAccounts ==
  ASSUME Undisturbed, TypeOK, Accounts, Restart
  PROVE  Accounts' /\ row' = row
<1> USE ExecutorAssumption
<1>1. PICK equity \in [Strategies -> Equities], slot \in [Strategies -> Slots] :
        /\ loop' = [s \in Strategies |-> [k \in Slots |->
                      IF Starts(row[s].status) /\ k = slot[s] THEN NewTask(row[s].status) ELSE FreeTask]]
        /\ risk' = [s \in Strategies |->
                      IF row[s].status = "paper"
                      THEN SeedState(equity[s], IF book[s].pos = Flat THEN 0 ELSE 1,
                                     row[s].peak, book[s].closed)
                      ELSE None]
  <2>1. "rehydrate" \notin Enabled
    BY DEF Undisturbed
  <2> QED
    BY <2>1 DEF Restart
<1>2. UNCHANGED <<row, book>> /\ notices' = <<>>
  BY DEF Restart
<1>3. NoticesOK'
  BY <1>2 DEF NoticesOK
<1>4. ASSUME NEW s \in Strategies
      PROVE  StrategyOK(row[s], book[s], risk'[s], loop'[s])
  <2> DEFINE r == row[s]
             b == book[s]
             st == risk'[s]
             l == loop'[s]
  <2>1. StrategyOK(r, b, risk[s], loop[s]) /\ r.peak \in Nat /\ equity[s] \in Nat
    BY DEF Accounts, StrategiesOK, TypeOK, Rows
  <2>2. CASE r.status = "paper"
    <3>1. /\ l[slot[s]] = NewTask("paper") /\ slot[s] \in Slots
          /\ \A k \in Slots \ {slot[s]} : l[k] = FreeTask
      BY <1>1, <2>2 DEF Starts, Active
    <3>2. st = SeedState(equity[s], Count(b.pos), r.peak, b.closed)
      BY <1>1, <2>2 DEF Count
    <3>3. /\ st.open = Count(b.pos) /\ st.daily = b.closed /\ ~st.halted
          /\ st.peak = Higher(equity[s], r.peak)
      BY <3>2 DEF SeedState
    <3>4. st.peak >= r.peak
      BY <2>1, <3>3 DEF Higher
    <3>5. \A k \in Slots : /\ ~l[k].cancelled /\ l[k].c = NoCycle
                           /\ l[k].pc \in {"free", "sleep"}
                           /\ l[k].pc = "sleep" => l[k].mode = r.status
      <4>1. /\ FreeTask.pc = "free" /\ ~FreeTask.cancelled /\ FreeTask.c = NoCycle
        BY DEF FreeTask
      <4>2. /\ NewTask("paper").pc = "sleep" /\ ~NewTask("paper").cancelled
            /\ NewTask("paper").c = NoCycle /\ NewTask("paper").mode = "paper"
        BY DEF NewTask, FreeTask
      <4> HIDE DEF r, l
      <4> QED
        BY <2>2, <3>1, <4>1, <4>2
    <3>6. ~NoCycle.broken /\ ~NoCycle.wrote /\ NoCycle.real = 0
      BY DEF NoCycle
    <3> HIDE DEF r, b, st, l
    <3>7. \A k \in Slots : TaskOK(r, b, st, l[k])
      BY <3>5, <3>6 DEF TaskOK
    <3>8. \A k \in Slots : Exact(b, st, l[k])
      BY <3>3, <3>5 DEF Exact, Working, Today
    <3>9. st # None
      <4>1. equity[s] \in Nat /\ r.peak \in Nat /\ Count(b.pos) \in Int /\ b.closed \in Int
        BY <2>1 DEF Count, TypeOK, Books, b
      <4>2. st \in Risks
        BY <3>2, <4>1, SeedTyped
      <4> QED
        BY <4>2, NoneAssumption
    <3>10. RiskOK(r, b, st, l)
      BY <2>2, <3>3, <3>4, <3>8, <3>9 DEF RiskOK, Today
    <3>11. StrategyOK(r, b, st, l)
      BY <2>2, <3>7, <3>10 DEF StrategyOK, Active
    <3> QED
      BY <3>11 DEF r, b, st, l
  <2>3. CASE r.status # "paper"
    <3>1. st = None
      BY <1>1, <2>3
    <3>2. r.status # "halted" => Untouched(r, b)
      <4>1. risk[s] # None => r.status \notin {"draft", "live"}
        BY <2>1 DEF StrategyOK, RiskOK
      <4>2. r.status \in {"draft", "live", "halted"}
        BY <2>1, <2>3 DEF StrategyOK, Active
      <4> QED
        BY <2>1, <4>1, <4>2 DEF StrategyOK, RiskOK
    <3>3. \A k \in Slots : /\ ~l[k].cancelled /\ l[k].c = NoCycle
                           /\ l[k].pc \in {"free", "sleep"}
                           /\ l[k].pc = "sleep" => l[k].mode = r.status
                           /\ r.status = "draft" => l[k].pc = "free"
      <4>1. ASSUME NEW k \in Slots
            PROVE  \/ l[k] = FreeTask
                   \/ l[k] = NewTask(r.status) /\ r.status \in Active
        BY <1>1 DEF Starts
      <4>2. /\ FreeTask.pc = "free" /\ ~FreeTask.cancelled /\ FreeTask.c = NoCycle
        BY DEF FreeTask
      <4>3. /\ NewTask(r.status).pc = "sleep" /\ ~NewTask(r.status).cancelled
            /\ NewTask(r.status).c = NoCycle /\ NewTask(r.status).mode = r.status
        BY DEF NewTask, FreeTask
      <4> HIDE DEF r, l
      <4> QED
        BY <4>1, <4>2, <4>3 DEF Active
    <3>4. ~NoCycle.broken /\ ~NoCycle.wrote /\ NoCycle.real = 0
      BY DEF NoCycle
    <3>5. r.status \in {"draft", "halted"} \cup Active
      BY <2>1 DEF StrategyOK
    <3> HIDE DEF r, b, st, l
    <3>6. \A k \in Slots : TaskOK(r, b, st, l[k])
      BY <3>3, <3>4 DEF TaskOK
    <3>7. RiskOK(r, b, st, l)
      BY <3>1, <3>2 DEF RiskOK
    <3>8. StrategyOK(r, b, st, l)
      BY <3>3, <3>5, <3>6, <3>7 DEF StrategyOK
    <3> QED
      BY <3>8 DEF r, b, st, l
  <2> QED
    BY <2>2, <2>3
<1> QED
  BY <1>2, <1>3, <1>4 DEF Accounts, StrategiesOK

-----------------------------------------------------------------------------
(***************************************************************************)
(* The persisted peak.                                                     *)
(***************************************************************************)

Crashes == "crash" \in Enabled

\* A process that boots reads the baseline of a strategy only if it is in paper
\* trading, and only if it can read it.  With crashes, then, a strategy has to start
\* paper trading as a draft that never traded, and rehydration has to succeed.
BaselinesKnown ==
  Crashes => /\ "rehydrate" \notin Enabled
             /\ \A req \in Requests :
                  /\ req[2] # "draft"
                  /\ req[2] = "paper" => req[1] = "draft"

Comes(q, s, status) == \E i \in DOMAIN q : q[i].sid = s /\ q[i].status = status

PaperRuns(l) == \E k \in Slots : l[k].pc # "free" /\ l[k].mode = "paper"

\* The RiskManager knows at least the persisted peak; or there is none yet; or the
\* strategy lost it to a crash outside paper trading and does not trade on paper again.
Known(r, st) == st # None /\ st.peak >= r.peak
Mute(r, st)  == st = None /\ r.peak = NoPeak
Spent(s, r, st, l, q) ==
  /\ Crashes /\ st = None /\ r.status \notin {"draft", "paper"}
  /\ ~Comes(q, s, "paper") /\ ~PaperRuns(l)

\* Of the row r, the risk state st and the tasks l of s, and the notices q.
Baseline(s, r, st, l, q) ==
  /\ r.status = "gone" \/ Known(r, st) \/ Mute(r, st) \/ Spent(s, r, st, l, q)
  /\ (Crashes /\ r.status = "draft") =>
       /\ Mute(r, st) /\ \A k \in Slots : l[k].pc = "free"
       /\ \A status \in Active : ~Comes(q, s, status)

Baselines == \A s \in Strategies : Baseline(s, row[s], risk[s], loop[s], notices)

\* What a step that is no restart and no deletion does to a strategy: tasks keep their
\* mode, new ones have the mode of a notice, notices name the status of the row, and a
\* known peak rises in memory and goes to the row from there.
Tasked(s, l, q, l2) ==
  \A k \in Slots : l2[k].pc # "free" =>
    \/ l[k].pc # "free" /\ l2[k].mode = l[k].mode
    \/ l2[k].mode \in Active /\ Comes(q, s, l2[k].mode)
Noticed(s, q, r2, q2) == \A status : Comes(q2, s, status) => Comes(q, s, status) \/ status = r2.status
Ruled(r, r2) ==
  /\ r.status = "gone" => r2.status = "gone"
  /\ Crashes /\ r2.status = "draft" => r.status = "draft"
  /\ Crashes /\ r2.status = "paper" => r.status \in {"draft", "paper"}
Peaked(r, st, l, r2, st2) ==
  IF st = None
  THEN r2.peak = r.peak /\ (st2 = None \/ (st2 # None /\ st2.peak >= NoPeak /\ PaperRuns(l)))
  ELSE st2 # None /\ st2.peak >= st.peak /\ r2.peak \in {r.peak, st.peak}

\* Such a step keeps the baseline of the strategy, and its peak does not fall.
LEMMA BaselineKept ==
  ASSUME NEW s, NEW r \in Rows, NEW st \in Risks \cup {None}, NEW l, NEW q, Baseline(s, r, st, l, q),
         NEW r2 \in Rows, NEW st2 \in Risks \cup {None}, NEW l2, NEW q2,
         Tasked(s, l, q, l2), Noticed(s, q, r2, q2), Ruled(r, r2), Peaked(r, st, l, r2, st2)
  PROVE  Baseline(s, r2, st2, l2, q2) /\ (r2.status # "gone" => r2.peak >= r.peak)
<1>1. /\ r.peak \in Nat /\ r2.peak \in Nat
      /\ st # None => st.peak \in Nat
      /\ st2 # None => st2.peak \in Nat
  BY DEF Rows, Risks
<1>2. CASE r.status = "gone"
  BY <1>2 DEF Baseline, Ruled
<1>3. CASE r.status # "gone" /\ st # None
  <2>1. st.peak >= r.peak
    BY <1>3 DEF Baseline, Known, Mute, Spent
  <2>2. Known(r2, st2) /\ r2.peak >= r.peak
    BY <1>1, <1>3, <2>1 DEF Peaked, Known
  <2>3. ~(Crashes /\ r2.status = "draft")
    BY <1>3 DEF Baseline, Mute, Ruled
  <2> QED
    BY <2>2, <2>3 DEF Baseline
<1>4. CASE r.status # "gone" /\ st = None /\ Mute(r, st)
  <2>1. r2.peak = NoPeak /\ r.peak = NoPeak
    BY <1>4 DEF Peaked, Mute
  <2>2. Known(r2, st2) \/ Mute(r2, st2)
    BY <1>4, <2>1 DEF Peaked, Known, Mute
  <2>3. ASSUME Crashes, r2.status = "draft"
        PROVE  /\ Mute(r2, st2) /\ \A k \in Slots : l2[k].pc = "free"
               /\ \A status \in Active : ~Comes(q2, s, status)
    <3>1. /\ \A k \in Slots : l[k].pc = "free"
          /\ \A status \in Active : ~Comes(q, s, status)
      BY <2>3 DEF Baseline, Ruled
    <3>2. st2 = None
      BY <1>4, <3>1 DEF Peaked, PaperRuns
    <3>3. \A k \in Slots : l2[k].pc = "free"
      BY <3>1 DEF Tasked
    <3>4. \A status \in Active : ~Comes(q2, s, status)
      BY <2>3, <3>1 DEF Noticed, Active
    <3> QED
      BY <2>1, <3>2, <3>3, <3>4 DEF Mute
  <2> QED
    BY <1>1, <2>1, <2>2, <2>3 DEF Baseline
<1>5. CASE r.status # "gone" /\ Spent(s, r, st, l, q)
  <2>1. st2 = None /\ r2.peak = r.peak
    BY <1>5 DEF Peaked, Spent
  <2>2. r2.status \notin {"draft", "paper"}
    BY <1>5 DEF Ruled, Spent
  <2>3. ~Comes(q2, s, "paper")
    BY <1>5, <2>2 DEF Noticed, Spent
  <2>4. ~PaperRuns(l2)
    BY <1>5 DEF Tasked, Spent, PaperRuns
  <2> QED
    BY <1>1, <1>5, <2>1, <2>2, <2>3, <2>4 DEF Baseline, Spent
<1> QED
  BY <1>2, <1>3, <1>4, <1>5 DEF Baseline, Known

\* What a step of the loop of s does to the risk states: none, or that of s rises, and
\* it is made where a paper loop reads its account.
LEMMA StepPeaks ==
  ASSUME TypeOK, Armed, NEW s \in Strategies, NEW k \in Slots, Step(s, k)
  PROVE  \/ risk' = risk
         \/ \E st \in Risks : /\ risk' = [risk EXCEPT ![s] = st]
                              /\ IF risk[s] = None
                                 THEN st.peak >= NoPeak /\ At(s, k, "read") /\ loop[s][k].mode = "paper"
                                 ELSE st.peak >= risk[s].peak
<1> USE ExecutorAssumption
<1>0. risk[s] \in Risks \cup {None} /\ \A st \in Risks : st.peak \in Nat
  BY DEF TypeOK, Risks
<1>1. CASE \/ StartCycle(s, k) \/ NoAdapter(s, k) \/ OrderFails(s, k) \/ Commit(s, k)
           \/ CycleLost(s, k) \/ Finish(s, k) \/ Aborted(s, k)
  BY <1>1 DEF StartCycle, NoAdapter, OrderFails, Commit, CycleLost, Finish, Aborted
<1>2. CASE ReadAccount(s, k) \/ ReadFails(s, k)
  <2>1. \/ risk' = risk
        \/ \E eq \in Equities :
             risk' = [risk EXCEPT ![s] = ObserveEquity(risk[s] # None, risk[s], eq)]
    <3>1. CASE ReadAccount(s, k)
      BY <3>1 DEF ReadAccount, TypeOK
    <3>2. CASE ReadFails(s, k)
      BY <3>2 DEF ReadFails, TypeOK
    <3> QED
      BY <1>2, <3>1, <3>2
  <2>2. ASSUME NEW eq \in Equities,
               risk' = [risk EXCEPT ![s] = ObserveEquity(risk[s] # None, risk[s], eq)]
        PROVE  \E st \in Risks : /\ risk' = [risk EXCEPT ![s] = st]
                                 /\ IF risk[s] = None
                                    THEN st.peak >= NoPeak /\ At(s, k, "read") /\ loop[s][k].mode = "paper"
                                    ELSE st.peak >= risk[s].peak
    <3>1. PICK o : o = ObserveEquity(risk[s] # None, risk[s], eq)
      OBVIOUS
    <3>2. /\ o \in Risks
          /\ IF risk[s] = None THEN o.peak >= NoPeak ELSE o.peak >= risk[s].peak
      BY <1>0, <3>1, Observed
    <3>3. At(s, k, "read") /\ loop[s][k].mode = "paper"
      BY <1>2 DEF ReadAccount, ReadFails, Runs
    <3> QED
      BY <2>2, <3>1, <3>2, <3>3
  <2> QED
    BY <2>1, <2>2
<1>3. ASSUME NEW st \in Risks, risk' = [risk EXCEPT ![s] = st], risk[s] \in Risks,
             st.peak = risk[s].peak
      PROVE  \E o \in Risks : /\ risk' = [risk EXCEPT ![s] = o]
                              /\ IF risk[s] = None
                                 THEN o.peak >= NoPeak /\ At(s, k, "read") /\ loop[s][k].mode = "paper"
                                 ELSE o.peak >= risk[s].peak
  <2>1. risk[s] # None /\ st.peak >= risk[s].peak
    BY <1>0, <1>3, NoneAssumption
  <2> QED
    BY <1>3, <2>1
<1>4. CASE CloseFills(s, k)
  <2>1. risk[s] \in Risks
    BY <1>4 DEF CloseFills, ClosePending, Runs, Armed
  <2>2. PICK pnl \in Pnls : risk' = [risk EXCEPT ![s] = AfterClose(risk[s], pnl)]
    BY <1>4 DEF CloseFills, TypeOK
  <2>3. PICK o : o = AfterClose(risk[s], pnl)
    OBVIOUS
  <2>4. o \in Risks /\ pnl \in Int
    BY <2>1, <2>3, FillTyped
  <2>5. o.peak = risk[s].peak
    BY <2>1, <2>3 DEF AfterClose, Risks
  <2> QED
    BY <1>3, <2>1, <2>2, <2>3, <2>4, <2>5
<1>5. CASE OpenFills(s, k)
  <2>1. risk[s] \in Risks
    BY <1>5 DEF OpenFills, OpenPending, Runs, Armed
  <2>2. PICK o : o = AfterOpen(risk[s])
    OBVIOUS
  <2>3. o \in Risks /\ risk' = [risk EXCEPT ![s] = o]
    BY <1>5, <2>1, <2>2, FillTyped DEF OpenFills, TypeOK
  <2>4. o.peak = risk[s].peak
    BY <2>1, <2>2 DEF AfterOpen, Risks
  <2> QED
    BY <1>3, <2>1, <2>3, <2>4
<1>6. CASE OpenRejected(s, k)
  <2>1. risk[s] \in Risks
    BY <1>6 DEF OpenRejected, OpenPending, Runs, Armed
  <2>2. \/ risk' = risk
        \/ \E rule : risk' = [risk EXCEPT ![s] = AfterVeto(risk[s], rule, RiskCfg)]
    BY <1>6 DEF OpenRejected, TypeOK
  <2>3. ASSUME NEW rule, risk' = [risk EXCEPT ![s] = AfterVeto(risk[s], rule, RiskCfg)]
        PROVE  \E o \in Risks : risk' = [risk EXCEPT ![s] = o] /\ o.peak = risk[s].peak
    <3>1. PICK o : o = AfterVeto(risk[s], rule, RiskCfg)
      OBVIOUS
    <3>2. o \in Risks
      BY <2>1, <3>1, VetoTyped
    <3>3. o.peak = risk[s].peak
      BY <2>1, <3>1 DEF AfterVeto, Risks
    <3> QED
      BY <2>3, <3>1, <3>2, <3>3
  <2> QED
    BY <1>3, <2>1, <2>2, <2>3
<1> QED
  BY <1>1, <1>2, <1>4, <1>5, <1>6 DEF Step

\* It keeps the row, but for the commit, which takes the peak from the risk state.
LEMMA StepRow ==
  ASSUME TypeOK, NEW s \in Strategies, NEW k \in Slots, Step(s, k)
  PROVE  /\ notices' = notices
         /\ \A t \in Strategies :
              \/ row'[t] = row[t]
              \/ /\ t = s /\ row'[t].status \in {row[t].status, "halted"} /\ row[t].status # "gone"
                 /\ row'[t].peak = (IF risk[t] = None THEN row[t].peak ELSE risk[t].peak)
                 /\ risk' = risk
<1>1. CASE Commit(s, k)
  <2> DEFINE c      == loop[s][k].c
             errors == ErrorsAfter(row[s].errors, c)
             halts  == c.halted \/ errors = MaxErrors
             peak   == IF risk[s] = None THEN row[s].peak ELSE risk[s].peak
             status == IF halts THEN "halted" ELSE row[s].status
  <2>0. PICK r : r = [status |-> status, errors |-> errors, peak |-> peak]
    OBVIOUS
  <2>1. /\ row' = [row EXCEPT ![s] = r]
        /\ r.status \in {row[s].status, "halted"} /\ r.peak = peak
    <3>1. row' = [row EXCEPT ![s] = [status |-> status, errors |-> errors, peak |-> peak]]
      BY <1>1, Zenon DEF Commit
    <3> HIDE DEF errors, halts, peak
    <3> QED
      BY <2>0, <3>1
  <2>2. row[s].status # "gone" /\ UNCHANGED <<risk, notices>>
    BY <1>1 DEF Commit, Orphan
  <2>3. row'[s] = r /\ \A t \in Strategies \ {s} : row'[t] = row[t]
    BY <2>1 DEF TypeOK
  <2> QED
    BY <2>1, <2>2, <2>3
<1>2. CASE ~Commit(s, k)
  BY <1>2 DEF Step, StartCycle, ReadAccount, ReadFails, NoAdapter, CloseFills, OpenFills,
              OpenRejected, OrderFails, CycleLost, Finish, Aborted
<1> QED
  BY <1>1, <1>2

\* A step of a loop is such a step.
LEMMA StepBaselines ==
  ASSUME TypeOK, Armed, Table, NEW s \in Strategies, NEW k \in Slots, Step(s, k),
         NEW t \in Strategies
  PROVE  /\ Tasked(t, loop[t], notices, loop'[t]) /\ Noticed(t, notices, row'[t], notices')
         /\ Ruled(row[t], row'[t]) /\ Peaked(row[t], risk[t], loop[t], row'[t], risk'[t])
<1>1. Tasked(t, loop[t], notices, loop'[t])
  BY StepModes DEF Tasked
<1>2. Noticed(t, notices, row'[t], notices') /\ Ruled(row[t], row'[t])
  BY StepRow DEF Noticed, Ruled
<1>3. row[t].peak \in Nat /\ (risk[t] # None => risk[t].peak \in Nat)
  BY DEF TypeOK, Rows, Risks
<1>4. Peaked(row[t], risk[t], loop[t], row'[t], risk'[t])
  <2>1. CASE risk' = risk
    BY <1>3, <2>1, StepRow DEF Peaked
  <2>2. CASE risk' # risk
    <3>1. row'[t] = row[t]
      BY <2>2, StepRow
    <3>2. PICK st \in Risks :
            /\ risk' = [risk EXCEPT ![s] = st]
            /\ IF risk[s] = None
               THEN st.peak >= NoPeak /\ At(s, k, "read") /\ loop[s][k].mode = "paper"
               ELSE st.peak >= risk[s].peak
      BY <2>2, StepPeaks
    <3>3. /\ risk'[s] = st /\ (t # s => risk'[t] = risk[t])
          /\ st # None
      BY <3>2, NoneAssumption DEF TypeOK
    <3>4. At(s, k, "read") /\ loop[s][k].mode = "paper" => PaperRuns(loop[s])
      BY DEF PaperRuns, At
    <3> QED
      BY <1>3, <3>1, <3>2, <3>3, <3>4 DEF Peaked
  <2> QED
    BY <2>1, <2>2
<1> QED
  BY <1>1, <1>2, <1>4

\* A notification keeps the known peaks.
LEMMA NotifyPeaks ==
  ASSUME TypeOK, NEW s \in Strategies, NEW status,
         NotifyStatus(s, status) \/ NotifyConfig(s, status), NEW t \in Strategies
  PROVE  IF risk[t] = None THEN risk'[t] = None
         ELSE risk'[t] # None /\ risk'[t].peak = risk[t].peak
<1>1. CASE risk' = risk
  BY <1>1
<1>2. CASE risk[s] # None /\ risk' = [risk EXCEPT ![s] = Released(risk[s])]
  <2>1. risk[s] \in Risks
    BY <1>2 DEF TypeOK
  <2>2. PICK o : o = Released(risk[s])
    OBVIOUS
  <2>3. o \in Risks /\ o.peak = risk[s].peak
    BY <2>1, <2>2, ReleaseTyped DEF Released, Risks
  <2>4. risk'[s] = o /\ (t # s => risk'[t] = risk[t])
    BY <1>2, <2>2 DEF TypeOK
  <2> QED
    BY <1>2, <2>3, <2>4, NoneAssumption
<1>3. risk' = risk \/ (risk[s] # None /\ risk' = [risk EXCEPT ![s] = Released(risk[s])])
  BY DEF NotifyStatus, NotifyConfig, TypeOK
<1> QED
  BY <1>1, <1>2, <1>3

LEMMA NotifyBaselines ==
  ASSUME TypeOK, Notify, NEW t \in Strategies
  PROVE  /\ Tasked(t, loop[t], notices, loop'[t]) /\ Noticed(t, notices, row'[t], notices')
         /\ Ruled(row[t], row'[t]) /\ Peaked(row[t], risk[t], loop[t], row'[t], risk'[t])
<1> DEFINE s      == notices[1].sid
           status == notices[1].status
<1>1. /\ notices \in Seq(Notices) /\ notices # <<>> /\ 1 \in DOMAIN notices
      /\ Head(notices) = notices[1] /\ notices[1] \in Notices
  BY DEF Notify, TypeOK
<1>2. s \in Strategies /\ (NotifyStatus(s, status) \/ NotifyConfig(s, status))
  BY <1>1 DEF Notify, Notices
<1>3. Comes(notices, s, status)
  BY <1>1 DEF Comes
<1> HIDE DEF s, status
<1>4. Tasked(t, loop[t], notices, loop'[t])
  BY <1>2, <1>3, NotifyModes DEF Tasked
<1>5. \A x : Comes(notices', t, x) => Comes(notices, t, x)
  <2>1. notices' = Tail(notices)
    BY DEF Notify
  <2>2. \A i \in DOMAIN Tail(notices) :
          i + 1 \in DOMAIN notices /\ Tail(notices)[i] = notices[i + 1]
    BY <1>1
  <2> QED
    BY <2>1, <2>2 DEF Comes
<1>6. row' = row
  BY DEF Notify
<1>7. row[t].peak \in Nat /\ (risk[t] # None => risk[t].peak \in Nat)
  BY DEF TypeOK, Rows, Risks
<1>8. Peaked(row[t], risk[t], loop[t], row'[t], risk'[t])
  BY <1>2, <1>6, <1>7, NotifyPeaks DEF Peaked
<1> QED
  BY <1>4, <1>5, <1>6, <1>8 DEF Noticed, Ruled

\* A handler adds a notice with the status of the row as it leaves it.
LEMMA PatchBaselines ==
  ASSUME BaselinesKnown, TypeOK, NEW s \in Strategies,
         PatchConfig(s) \/ \E status \in Statuses : PatchStatus(s, status),
         NEW t \in Strategies
  PROVE  /\ Tasked(t, loop[t], notices, loop'[t]) /\ Noticed(t, notices, row'[t], notices')
         /\ Ruled(row[t], row'[t]) /\ Peaked(row[t], risk[t], loop[t], row'[t], risk'[t])
<1> USE ExecutorAssumption
<1>1. UNCHANGED <<loop, risk>>
  BY DEF PatchConfig, PatchStatus
<1>2. row[t] \in Rows /\ row[t].peak \in Nat /\ (risk[t] # None => risk[t].peak \in Nat)
  BY DEF TypeOK, Rows, Risks
<1>3. PICK kind, status :
        /\ notices' = Append(notices, Notice(kind, s, status))
        /\ row'[s].status = status /\ row'[t].peak = row[t].peak
        /\ t # s => row'[t] = row[t]
        /\ row'[s] = row[s] \/ <<row[s].status, status>> \in Requests
  <2>1. CASE PatchConfig(s)
    BY <2>1 DEF PatchConfig
  <2>2. ASSUME NEW status \in Statuses, PatchStatus(s, status)
        PROVE  /\ notices' = Append(notices, Notice("status", s, status))
               /\ row'[s].status = status /\ row'[t].peak = row[t].peak
               /\ t # s => row'[t] = row[t]
               /\ <<row[s].status, status>> \in Requests
    <3>1. PICK r : r = [row[s] EXCEPT !.status = status]
      OBVIOUS
    <3>2. r.status = status /\ r.peak = row[s].peak
      BY <3>1 DEF TypeOK, Rows
    <3>3. row' = [row EXCEPT ![s] = r]
      BY <2>2, <3>1 DEF PatchStatus
    <3>4. row'[s] = r /\ (t # s => row'[t] = row[t])
      BY <3>3 DEF TypeOK
    <3> QED
      BY <2>2, <3>2, <3>4 DEF PatchStatus
  <2> QED
    BY <2>1, <2>2
<1>4. Noticed(t, notices, row'[t], notices')
  <2>1. PICK n : n = Notice(kind, s, status)
    OBVIOUS
  <2>2. n.sid = s /\ n.status = status
    BY <2>1 DEF Notice
  <2>3. notices \in Seq(Notices) /\ notices' = Append(notices, n)
    BY <1>3, <2>1 DEF TypeOK
  <2>4. \A i \in DOMAIN notices' :
          \/ i \in DOMAIN notices /\ notices'[i] = notices[i]
          \/ notices'[i] = n
    BY <2>3
  <2> QED
    BY <1>3, <2>2, <2>4 DEF Noticed, Comes
<1>5. Ruled(row[t], row'[t])
  <2>1. CASE row'[t] = row[t]
    BY <2>1 DEF Ruled
  <2>2. CASE row'[t] # row[t]
    <3>1. t = s /\ <<row[t].status, row'[t].status>> \in Requests
      BY <1>3, <2>2
    <3>2. row[t].status # "gone"
      BY <3>1
    <3>3. Crashes => /\ row'[t].status # "draft"
                     /\ row'[t].status = "paper" => row[t].status = "draft"
      BY <3>1 DEF BaselinesKnown
    <3> QED
      BY <3>2, <3>3 DEF Ruled
  <2> QED
    BY <2>1, <2>2
<1>6. Tasked(t, loop[t], notices, loop'[t]) /\ Peaked(row[t], risk[t], loop[t], row'[t], risk'[t])
  BY <1>1, <1>2, <1>3 DEF Tasked, Peaked
<1> QED
  BY <1>4, <1>5, <1>6

\* A bar, a midnight and nothing leave rows, risk states and notices, and tasks their mode.
LEMMA IdleBaselines ==
  ASSUME TypeOK, UNCHANGED <<row, risk, notices>>, loop' = loop \/ Midnight, NEW t \in Strategies
  PROVE  /\ Tasked(t, loop[t], notices, loop'[t]) /\ Noticed(t, notices, row'[t], notices')
         /\ Ruled(row[t], row'[t]) /\ Peaked(row[t], risk[t], loop[t], row'[t], risk'[t])
<1>1. Tasked(t, loop[t], notices, loop'[t])
  <2>1. CASE loop' = loop
    BY <2>1 DEF Tasked
  <2>2. CASE Midnight
    <3>1. ASSUME NEW j \in Slots
          PROVE  loop'[t][j].pc = loop[t][j].pc /\ loop'[t][j].mode = loop[t][j].mode
      <4>1. loop[t][j] \in Tasks
        BY DEF TypeOK
      <4>2. loop'[t][j] = [loop[t][j] EXCEPT !.c.real = 0]
        BY <2>2 DEF Midnight
      <4> QED
        BY <4>1, <4>2 DEF Tasks
    <3> QED
      BY <3>1 DEF Tasked
  <2> QED
    BY <2>1, <2>2
<1>2. row[t].peak \in Nat /\ (risk[t] # None => risk[t].peak \in Nat)
  BY DEF TypeOK, Rows, Risks
<1> QED
  BY <1>1, <1>2 DEF Noticed, Ruled, Peaked

\* A process that boots knows the peaks of what trades on paper, and loses the others.
LEMMA RestartBaselines ==
  ASSUME BaselinesKnown, TypeOK, Baselines, Restart
  PROVE  Baselines' /\ row' = row
<1> USE ExecutorAssumption
<1>1. PICK equity \in [Strategies -> Equities], slot \in [Strategies -> Slots] :
        /\ loop' = [s \in Strategies |-> [k \in Slots |->
                      IF Starts(row[s].status) /\ k = slot[s] THEN NewTask(row[s].status) ELSE FreeTask]]
        /\ risk' = [s \in Strategies |->
                      IF row[s].status = "paper"
                      THEN SeedState(equity[s], IF book[s].pos = Flat THEN 0 ELSE 1,
                                     row[s].peak, book[s].closed)
                      ELSE None]
  <2>1. "rehydrate" \notin Enabled
    BY DEF BaselinesKnown, Crashes, Restart
  <2> QED
    BY <2>1 DEF Restart
<1>2. row' = row /\ notices' = <<>> /\ Crashes
  BY DEF Restart, Crashes
<1>3. ASSUME NEW s \in Strategies
      PROVE  Baseline(s, row[s], risk'[s], loop'[s], notices')
  <2>1. \A status : ~Comes(notices', s, status)
    BY <1>2 DEF Comes
  <2>2. row[s] \in Rows /\ book[s] \in Books /\ equity[s] \in Nat
    BY DEF TypeOK
  <2>3. CASE row[s].status = "paper"
    <3>1. PICK o : o = SeedState(equity[s], IF book[s].pos = Flat THEN 0 ELSE 1,
                                 row[s].peak, book[s].closed)
      OBVIOUS
    <3>2. o \in Risks
      <4>1. /\ row[s].peak \in Nat /\ book[s].closed \in Int
            /\ (IF book[s].pos = Flat THEN 0 ELSE 1) \in Int
        BY <2>2 DEF Rows, Books
      <4> QED
        BY <2>2, <3>1, <4>1, SeedTyped
    <3>3. o.peak >= row[s].peak
      BY <2>2, <3>1 DEF SeedState, Higher, Rows
    <3>4. risk'[s] = o
      BY <1>1, <2>3, <3>1
    <3> QED
      BY <2>3, <3>2, <3>3, <3>4, NoneAssumption DEF Baseline, Known
  <2>4. CASE row[s].status # "paper"
    <3>1. risk'[s] = None
      BY <1>1, <2>4
    <3>2. \A k \in Slots :
            \/ loop'[s][k] = FreeTask
            \/ row[s].status \in Active /\ loop'[s][k] = NewTask(row[s].status)
      BY <1>1 DEF Starts
    <3>3. FreeTask.pc = "free" /\ NewTask(row[s].status).mode = row[s].status
      BY DEF FreeTask, NewTask
    <3>4. ~PaperRuns(loop'[s])
      BY <2>4, <3>2, <3>3 DEF PaperRuns
    <3>5. CASE row[s].status = "draft"
      <4>1. Mute(row[s], risk'[s])
        BY <1>2, <3>1, <3>5 DEF Baselines, Baseline, Mute
      <4>2. \A k \in Slots : loop'[s][k].pc = "free"
        BY <3>2, <3>3, <3>5 DEF Active
      <4> QED
        BY <2>1, <4>1, <4>2 DEF Baseline
    <3>6. CASE row[s].status # "draft"
      BY <1>2, <2>1, <2>4, <3>1, <3>4, <3>6 DEF Baseline, Spent
    <3> QED
      BY <3>5, <3>6
  <2> QED
    BY <2>3, <2>4
<1> QED
  BY <1>2, <1>3 DEF Baselines

LEMMA BaselinesInductive ==
  ASSUME BaselinesKnown, TypeOK, Armed, TypeOK', Table, Baselines, [Next]_vars
  PROVE  /\ Baselines'
         /\ \A s \in Strategies : row'[s].status # "gone" => row'[s].peak >= row[s].peak
<1>1. ASSUME \A t \in Strategies :
               /\ Tasked(t, loop[t], notices, loop'[t]) /\ Noticed(t, notices, row'[t], notices')
               /\ Ruled(row[t], row'[t]) /\ Peaked(row[t], risk[t], loop[t], row'[t], risk'[t])
      PROVE  /\ Baselines'
             /\ \A s \in Strategies : row'[s].status # "gone" => row'[s].peak >= row[s].peak
  <2>1. ASSUME NEW t \in Strategies
        PROVE  /\ Baseline(t, row'[t], risk'[t], loop'[t], notices')
               /\ row'[t].status # "gone" => row'[t].peak >= row[t].peak
    <3>1. /\ row[t] \in Rows /\ risk[t] \in Risks \cup {None}
          /\ row'[t] \in Rows /\ risk'[t] \in Risks \cup {None}
      BY DEF TypeOK
    <3>2. Baseline(t, row[t], risk[t], loop[t], notices)
      BY DEF Baselines
    <3> QED
      BY <1>1, <3>1, <3>2, BaselineKept
  <2> QED
    BY <2>1 DEF Baselines
<1>2. \A s \in Strategies : row[s].peak \in Nat
  BY DEF TypeOK, Rows
<1>3. ASSUME NEW s \in Strategies, NEW k \in Slots, Step(s, k)
      PROVE  /\ Baselines'
             /\ \A t \in Strategies : row'[t].status # "gone" => row'[t].peak >= row[t].peak
  BY <1>1, <1>3, StepBaselines
<1>4. ASSUME NEW s \in Strategies, PatchConfig(s) \/ \E status \in Statuses : PatchStatus(s, status)
      PROVE  /\ Baselines'
             /\ \A t \in Strategies : row'[t].status # "gone" => row'[t].peak >= row[t].peak
  BY <1>1, <1>4, PatchBaselines
<1>5. CASE Notify
  BY <1>1, <1>5, NotifyBaselines
<1>6. CASE Restart
  BY <1>2, <1>6, RestartBaselines
<1>7. CASE UNCHANGED vars \/ Midnight \/ \E s \in Strategies : NewBar(s)
  <2>1. UNCHANGED <<row, risk, notices>> /\ (loop' = loop \/ Midnight)
    BY <1>7 DEF vars, Midnight, NewBar
  <2> QED
    BY <1>1, <2>1, IdleBaselines
<1>8. ASSUME NEW s \in Strategies, DeleteStrategy(s)
      PROVE  /\ Baselines'
             /\ \A t \in Strategies : row'[t].status # "gone" => row'[t].peak >= row[t].peak
  <2>1. UNCHANGED <<loop, risk, notices>>
    BY <1>8 DEF DeleteStrategy
  <2>2. row'[s].status = "gone" /\ \A t \in Strategies \ {s} : row'[t] = row[t]
    BY <1>8 DEF DeleteStrategy, TypeOK
  <2>3. ASSUME NEW t \in Strategies
        PROVE  Baseline(t, row'[t], risk'[t], loop'[t], notices')
    <3>1. CASE t = s
      BY <2>2, <3>1 DEF Baseline
    <3>2. CASE t # s
      BY <2>1, <2>2, <3>2 DEF Baselines
    <3> QED
      BY <3>1, <3>2
  <2> QED
    BY <1>2, <2>2, <2>3 DEF Baselines
<1> QED
  BY <1>3, <1>4, <1>5, <1>6, <1>7, <1>8 DEF Next

LEMMA BaselinesInit ==
  ASSUME Init
  PROVE  Baselines
<1>1. ASSUME NEW s \in Strategies
      PROVE  Baseline(s, row[s], risk[s], loop[s], notices)
  <2>1. /\ row[s].status = "draft" /\ Mute(row[s], risk[s]) /\ notices = <<>>
        /\ \A k \in Slots : loop[s][k] = FreeTask
    BY DEF Init, Mute
  <2>2. FreeTask.pc = "free"
    BY DEF FreeTask
  <2>3. \A status : ~Comes(notices, s, status)
    BY <2>1 DEF Comes
  <2> QED
    BY <2>1, <2>2, <2>3 DEF Baseline
<1> QED
  BY <1>1 DEF Baselines

-----------------------------------------------------------------------------
(***************************************************************************)
(* The theorems.                                                           *)
(***************************************************************************)

\* At midnight positions and counts stay what they are.
LEMMA MidnightAccounts ==
  ASSUME TypeOK, Accounts, Midnight
  PROVE  Accounts'
<1>1. UNCHANGED <<row, risk, notices>> /\ ~SameDay
  BY DEF Midnight, SameDay
<1>2. ASSUME NEW s \in Strategies
      PROVE  book'[s].pos = book[s].pos /\ book'[s].closed = 0
  <2>1. book'[s] = [book[s] EXCEPT !.closed = 0] /\ book[s] \in Books
    BY DEF Midnight, TypeOK
  <2> QED
    BY <2>1 DEF Books
<1>3. ASSUME NEW s \in Strategies, NEW k \in Slots
      PROVE  /\ loop'[s][k].pc = loop[s][k].pc /\ loop'[s][k].mode = loop[s][k].mode
             /\ loop'[s][k].cancelled = loop[s][k].cancelled
             /\ loop'[s][k].c.real = 0
             /\ loop'[s][k].c.broken = loop[s][k].c.broken /\ loop'[s][k].c.keep = loop[s][k].c.keep
             /\ loop'[s][k].c.wrote = loop[s][k].c.wrote /\ loop'[s][k].c.pos = loop[s][k].c.pos
             /\ loop'[s][k].c.plan = loop[s][k].c.plan /\ loop'[s][k].c.halted = loop[s][k].c.halted
  <2>1. /\ loop'[s][k] = [loop[s][k] EXCEPT !.c = [loop[s][k].c EXCEPT !.real = 0]]
        /\ loop[s][k] \in Tasks /\ loop[s][k].c \in Cycles
    BY CycleTyped DEF Midnight, TypeOK
  <2>2. PICK c : c = [loop[s][k].c EXCEPT !.real = 0]
    OBVIOUS
  <2>3. /\ c.real = 0 /\ c.broken = loop[s][k].c.broken /\ c.keep = loop[s][k].c.keep
        /\ c.wrote = loop[s][k].c.wrote /\ c.pos = loop[s][k].c.pos
        /\ c.plan = loop[s][k].c.plan /\ c.halted = loop[s][k].c.halted
    BY <2>1, <2>2 DEF Cycles
  <2>4. loop'[s][k] = [loop[s][k] EXCEPT !.c = c]
    BY <2>1, <2>2
  <2>5. /\ loop'[s][k].c = c /\ loop'[s][k].pc = loop[s][k].pc
        /\ loop'[s][k].mode = loop[s][k].mode /\ loop'[s][k].cancelled = loop[s][k].cancelled
    BY <2>1, <2>4 DEF Tasks
  <2> QED
    BY <2>3, <2>5
<1>4. ASSUME NEW s \in Strategies
      PROVE  StrategyOK(row[s], book'[s], risk[s], loop'[s])
  <2>1. StrategyOK(row[s], book[s], risk[s], loop[s])
    BY DEF Accounts, StrategiesOK
  <2>2. \A k \in Slots : TaskOK(row[s], book'[s], risk[s], loop'[s][k])
    BY <1>2, <1>3, <2>1 DEF StrategyOK, TaskOK
  <2>3. ASSUME NEW k \in Slots, Exact(book[s], risk[s], loop[s][k])
        PROVE  Exact(book'[s], risk[s], loop'[s][k])
    BY <1>1, <1>2, <1>3, <2>3 DEF Exact, Working, Today
  <2>4. RiskOK(row[s], book'[s], risk[s], loop'[s])
    BY <1>1, <1>2, <1>3, <2>1, <2>3 DEF StrategyOK, RiskOK, Untouched, Today
  <2> QED
    BY <1>3, <2>1, <2>2, <2>4 DEF StrategyOK
<1>5. NoticesOK'
  <2>1. NoticesOK /\ \A i \in DOMAIN notices : notices[i].sid \in Strategies
    BY NoticeTyped DEF Accounts, Notices
  <2> QED
    BY <1>1, <1>3, <2>1 DEF NoticesOK
<1> QED
  BY <1>1, <1>4, <1>5 DEF Accounts, StrategiesOK

\* The accounts are inductive.
LEMMA AccountsInductive ==
  ASSUME Undisturbed, TypeOK, Armed, Table, Booking, Accounts, [Next]_vars
  PROVE  Accounts'
<1>0. \A s \in Strategies : row[s].peak \in Nat
  BY DEF TypeOK, Rows
<1>1. ASSUME UNCHANGED <<row, book, loop, risk, notices>>
      PROVE  Accounts'
  BY <1>1 DEF Accounts, StrategiesOK, NoticesOK
<1>2. ASSUME NEW s \in Strategies, NEW k \in Slots, Step(s, k)
      PROVE  Accounts'
  <2>1. Accounts' /\ (row' = row \/ Commit(s, k)) /\ ~At(s, k, "free")
    BY <1>2, StepsAreBusy, LoopAccounts DEF Table
  <2>2. CASE row' = row
    BY <1>0, <2>1, <2>2
  <2>3. CASE Commit(s, k)
    <3>1. Told(s, k)
      BY <2>1, StepTold DEF Table, At
    <3> QED
      BY <1>0, <2>1, <2>3, <3>1, CommitAccounts DEF Table
  <2> QED
    BY <2>1, <2>2, <2>3
<1>3. ASSUME NEW s \in Strategies, NEW status \in Statuses, PatchStatus(s, status)
      PROVE  Accounts'
  BY <1>0, <1>3, PatchAccounts
<1>4. CASE Notify \/ Restart
  BY <1>0, <1>4, NotifyAccounts, RestartAccounts DEF Table
<1>5. ASSUME NEW s \in Strategies, PatchConfig(s) \/ DeleteStrategy(s) \/ NewBar(s)
      PROVE  Accounts'
  <2>1. ~PatchConfig(s) /\ ~DeleteStrategy(s)
    BY DEF Undisturbed, PatchConfig, DeleteStrategy
  <2>2. UNCHANGED <<row, book, loop, risk, notices>>
    BY <1>5, <2>1 DEF NewBar
  <2> QED
    BY <1>0, <1>1, <2>2
<1>6. CASE Midnight
  BY <1>0, <1>6, MidnightAccounts
<1>7. CASE UNCHANGED vars
  BY <1>0, <1>1, <1>7 DEF vars
<1> QED
  BY <1>2, <1>3, <1>4, <1>5, <1>6, <1>7 DEF Next

\* A process that boots on drafts has nothing to account for.
LEMMA AccountsInit ==
  ASSUME Init
  PROVE  Accounts
<1>1. ASSUME NEW s \in Strategies
      PROVE  StrategyOK(row[s], book[s], risk[s], loop[s])
  <2>1. /\ row[s].status = "draft" /\ row[s].peak = NoPeak /\ risk[s] = None
        /\ book[s].pos = Flat /\ book[s].closed = 0
        /\ \A k \in Slots : loop[s][k] = FreeTask
    BY DEF Init, EmptyBook
  <2>2. /\ FreeTask.pc = "free" /\ ~FreeTask.cancelled /\ ~FreeTask.c.broken
        /\ ~FreeTask.c.wrote /\ FreeTask.c.real = 0
    BY DEF FreeTask, NoCycle
  <2>3. \A k \in Slots : TaskOK(row[s], book[s], risk[s], loop[s][k])
    BY <2>1, <2>2 DEF TaskOK
  <2> QED
    BY <2>1, <2>2, <2>3 DEF StrategyOK, RiskOK, Untouched
<1>2. notices = <<>>
  BY DEF Init
<1> QED
  BY <1>1, <1>2 DEF Accounts, StrategiesOK, NoticesOK

\* All that the accounts rest on holds together.
LEMMA AccountsHold ==
  ASSUME Undisturbed
  PROVE  Spec => [](TypeOK /\ Armed /\ Table /\ Booking /\ Accounts)
<1>1. Init => Table /\ Accounts
  BY AccountsInit, ExecutorAssumption DEF Init, Table, TaskTableExact, Vacant, Solo, Busy, FreeTask, At
<1>2. TypeOK /\ Armed /\ Table /\ Booking /\ Accounts /\ [Next]_vars => Accounts'
  BY AccountsInductive
<1> QED
  BY <1>1, <1>2, TableInductive, TypeCorrect, BookingHolds, PTL DEF Spec

\* The session that holds what is uncommitted is the one that wrote.
LEMMA WriterKnown ==
  ASSUME TypeOK, Table, Accounts, NEW s \in Strategies, risk[s] # None
  PROVE  /\ risk[s].open = Count(Held(s))
         /\ Today(risk[s].daily, book[s].closed + Staged(s))
<1>1. StrategyOK(row[s], book[s], risk[s], loop[s])
  BY DEF Accounts, StrategiesOK
<1>2. book[s].closed \in Int
  BY DEF TypeOK, Books
<1>3. CASE \A k \in Slots : ~loop[s][k].c.wrote
  <2>1. Held(s) = book[s].pos /\ Staged(s) = 0
    BY <1>3 DEF Held, Staged
  <2>2. risk[s].open = Count(book[s].pos) /\ Today(risk[s].daily, book[s].closed)
    BY <1>1, <1>3 DEF StrategyOK, RiskOK, Exact, Working
  <2> QED
    BY <1>2, <2>1, <2>2
<1>4. ASSUME NEW k \in Slots, loop[s][k].c.wrote
      PROVE  /\ risk[s].open = Count(Held(s))
             /\ Today(risk[s].daily, book[s].closed + Staged(s))
  <2>1. TaskOK(row[s], book[s], risk[s], loop[s][k])
    BY <1>1 DEF StrategyOK
  <2>2. loop[s][k].pc \in {"trade", "settle", "broadcast"} /\ Exact(book[s], risk[s], loop[s][k])
    BY <1>1, <1>4, <2>1 DEF TaskOK, StrategyOK, RiskOK
  <2>3. \A j \in Slots : loop[s][j].c.wrote => j = k
    <3>1. \A j \in Slots \ {k} : loop[s][j].pc = "free"
      BY <2>2, OnlyTask DEF Table
    <3>2. \A j \in Slots : TaskOK(row[s], book[s], risk[s], loop[s][j])
      BY <1>1 DEF StrategyOK
    <3> QED
      BY <3>1, <3>2 DEF TaskOK
  <2>4. k = CHOOSE j \in Slots : loop[s][j].c.wrote
    BY <1>4, <2>3
  <2>5. Held(s) = loop[s][k].c.pos
    BY <1>4, <2>4 DEF Held
  <2>6. CASE loop[s][k].pc = "broadcast"
    <3>1. Staged(s) = 0
      BY <2>3, <2>6 DEF Staged, At
    <3> QED
      BY <1>2, <1>4, <2>1, <2>2, <2>5, <2>6, <3>1 DEF Exact, Working, TaskOK
  <2>7. CASE loop[s][k].pc # "broadcast"
    <3>1. Staged(s) = loop[s][k].c.real
      BY <1>4, <2>4, <2>7 DEF Staged, At
    <3> QED
      BY <1>4, <2>2, <2>5, <2>7, <3>1 DEF Exact, Working
  <2> QED
    BY <2>6, <2>7
<1> QED
  BY <1>3, <1>4

\* The RiskManager's count of open positions, which no transaction protects, is that
\* of the session that trades, or of the ledger, at every step of every cycle, also
\* after a restart at any point of it and across midnights.
THEOREM OpenCountsAreExact ==
  ASSUME Undisturbed
  PROVE  Spec => []OpenCountExact
<1>1. TypeOK /\ Table /\ Accounts => OpenCountExact
  BY WriterKnown DEF OpenCountExact, Count
<1> QED
  BY <1>1, AccountsHold, PTL

\* Its result of the day is that of the recorded closes and the staged ones, as long
\* as the day lasts.
THEOREM DailyPnlIsExact ==
  ASSUME Undisturbed, SameDay
  PROVE  Spec => []DailyPnlIsTodays
<1>1. TypeOK /\ Table /\ Accounts => DailyPnlIsTodays
  BY WriterKnown DEF DailyPnlIsTodays, Today
<1> QED
  BY <1>1, AccountsHold, PTL

\* The persisted peak never falls, whatever transactions are lost, cycles cancelled,
\* strategies reloaded, paused or deleted; and with crashes at any point, as long as a
\* strategy whose peak a crash may have dropped from memory does not start paper trading
\* again (strategy_executor.py:452).
THEOREM PeaksNeverFall ==
  ASSUME BaselinesKnown
  PROVE  Spec => PeakNeverDecreases
<1>1. Init => Table /\ Baselines
  BY BaselinesInit, ExecutorAssumption DEF Init, Table, TaskTableExact, Vacant, Solo, Busy, FreeTask, At
<1>2. TypeOK /\ Armed /\ TypeOK' /\ Table /\ Baselines /\ [Next]_vars => Baselines'
  BY BaselinesInductive
<1>3. TypeOK /\ Armed /\ TypeOK' /\ Table /\ Baselines /\ [Next]_vars =>
        [\A s \in Strategies : row'[s].status # "gone" => row'[s].peak >= row[s].peak]_vars
  BY BaselinesInductive
<1> QED
  BY <1>1, <1>2, <1>3, TableInductive, TypeCorrect, PTL DEF Spec, PeakNeverDecreases

=============================================================================
