----------------------------- MODULE StepProofs -----------------------------
(***************************************************************************)
(* Theorems about what a step of Executor may do.  First, who controls a   *)
(* strategy: what a halt keeps from happening, who releases it, that a     *)
(* stopped strategy stays stopped, and when the loops follow the rows.     *)
(* Then, when every error is counted, and when a halt is in the row; and   *)
(* that Executor implements TradeLog: whatever the tasks, sessions,        *)
(* handlers, crashes and faults do, the database moves as the abstract     *)
(* ledger does.                                                            *)
(***************************************************************************)
EXTENDS ExecutorProofs

(***************************************************************************)
(* The kill switch.                                                        *)
(***************************************************************************)

\* What a step of a loop of s does to the risk states: a halted one stays
\* halted and counts no opened position, and only that of s changes.
Hardened(s) ==
  /\ \A t \in Strategies \ {s} : risk'[t] = risk[t]
  /\ Halted(s) => Halted(s)' /\ risk'[s].open <= risk[s].open

\* The rules that follow a reading, a close and a veto keep a halt.
LEMMA RulesKeepHalt ==
  ASSUME NEW st \in Risks, st.halted
  PROVE  /\ \A eq \in Nat : LET o == ObserveEquity(st # None, st, eq)
                            IN  o \in Risks /\ o.halted /\ o.open <= st.open
         /\ \A pnl \in Int : LET o == AfterClose(st, pnl)
                             IN  o \in Risks /\ o.halted /\ o.open <= st.open
         /\ \A rule : LET o == AfterVeto(st, rule, RiskCfg)
                      IN  o \in Risks /\ o.halted /\ o.open <= st.open
<1>0. st.open \in Int /\ st.daily \in Int /\ st.peak \in Nat /\ st # None
  BY NoneAssumption DEF Risks
<1>1. ASSUME NEW eq \in Nat
      PROVE  LET o == ObserveEquity(st # None, st, eq)
             IN  o \in Risks /\ o.halted /\ o.open <= st.open
  <2>1. ObserveEquity(st # None, st, eq) = [st EXCEPT !.peak = Higher(st.peak, eq)]
    BY <1>0 DEF ObserveEquity
  <2>2. \A n : [st EXCEPT !.peak = n].halted = st.halted /\ [st EXCEPT !.peak = n].open = st.open
    BY DEF Risks
  <2>3. PICK o : o = ObserveEquity(st # None, st, eq)
    OBVIOUS
  <2>4. o \in Risks
    BY <2>3, ObserveTyped
  <2>5. o.halted = st.halted /\ o.open = st.open
    BY <2>1, <2>2, <2>3
  <2>6. o.halted /\ o.open <= st.open
    BY <1>0, <2>5
  <2> QED
    BY <2>3, <2>4, <2>6
<1>2. ASSUME NEW pnl \in Int
      PROVE  LET o == AfterClose(st, pnl) IN o \in Risks /\ o.halted /\ o.open <= st.open
  <2>1. \A n, d : [st EXCEPT !.open = n, !.daily = d].halted = st.halted
                  /\ [st EXCEPT !.open = n, !.daily = d].open = n
    BY DEF Risks
  <2>2. AfterClose(st, pnl) = [st EXCEPT !.open = st.open - 1, !.daily = st.daily + pnl]
    BY DEF AfterClose
  <2>3. AfterClose(st, pnl) \in Risks
    BY FillTyped
  <2>4. st.open - 1 <= st.open
    BY <1>0
  <2> QED
    BY <2>1, <2>2, <2>3, <2>4
<1>3. ASSUME NEW rule
      PROVE  LET o == AfterVeto(st, rule, RiskCfg) IN o \in Risks /\ o.halted /\ o.open <= st.open
  <2>1. [st EXCEPT !.halted = TRUE].halted /\ [st EXCEPT !.halted = TRUE].open = st.open
    BY DEF Risks
  <2>2. PICK o : o = AfterVeto(st, rule, RiskCfg)
    OBVIOUS
  <2>3. o = st \/ o = [st EXCEPT !.halted = TRUE]
    BY <2>2 DEF AfterVeto
  <2>4. o \in Risks
    BY <2>2, VetoTyped
  <2>5. o.halted /\ o.open = st.open
    BY <2>1, <2>3
  <2>6. o.halted /\ o.open <= st.open
    BY <1>0, <2>5
  <2> QED
    BY <2>2, <2>4, <2>6
<1> QED
  BY <1>1, <1>2, <1>3

\* A step that leaves the risk manager alone, or gives s a state no less strict.
LEMMA HardenedBy ==
  ASSUME TypeOK, NEW s \in Strategies,
         \/ risk' = risk
         \/ \E st \in Risks :
              /\ risk' = [risk EXCEPT ![s] = st]
              /\ Halted(s) => st.halted /\ st.open <= risk[s].open
  PROVE  Hardened(s)
<1>1. CASE risk' = risk
  <2>1. Halted(s) => risk[s].open \in Int
    BY DEF Halted, TypeOK, Risks
  <2> QED
    BY <1>1, <2>1 DEF Hardened, Halted
<1>2. ASSUME NEW st \in Risks, risk' = [risk EXCEPT ![s] = st],
             Halted(s) => st.halted /\ st.open <= risk[s].open
      PROVE  Hardened(s)
  <2>1. risk'[s] = st /\ \A t \in Strategies \ {s} : risk'[t] = risk[t]
    BY <1>2 DEF TypeOK
  <2>2. st # None
    BY NoneAssumption
  <2> QED
    BY <1>2, <2>1, <2>2 DEF Hardened, Halted
<1> QED
  BY <1>1, <1>2

\* A halted state vetoes every order.
LEMMA HaltVetoes ==
  ASSUME NEW s, Halted(s), NEW c, NEW oversized, NEW throttled
  PROVE  ~Approved(s, c, oversized, throttled)
  BY DEF Halted, Approved, Veto

\* No step of a loop weakens a halt.
LEMMA StepHardens ==
  ASSUME TypeOK, Armed, NEW s \in Strategies, NEW k \in Slots, Step(s, k)
  PROVE  Hardened(s)
<1> USE ExecutorAssumption
<1>0. risk[s] \in Risks \cup {None}
  BY DEF TypeOK
<1>1. CASE \/ StartCycle(s, k) \/ NoAdapter(s, k) \/ OrderFails(s, k) \/ Commit(s, k)
           \/ CycleLost(s, k) \/ Finish(s, k) \/ Aborted(s, k)
  <2>1. risk' = risk
    BY <1>1 DEF StartCycle, NoAdapter, OrderFails, Commit, CycleLost, Finish, Aborted
  <2> QED
    BY <2>1, HardenedBy
<1>2. CASE ReadAccount(s, k) \/ ReadFails(s, k)
  <2>1. \/ risk' = risk
        \/ \E eq \in Equities :
             risk' = [risk EXCEPT ![s] = ObserveEquity(risk[s] # None, risk[s], eq)]
    <3>1. CASE ReadAccount(s, k)
      BY <3>1 DEF ReadAccount, TypeOK
    <3>2. CASE ReadFails(s, k)
      BY <3>2 DEF ReadFails, TypeOK
    <3> QED
      BY <1>2, <3>1, <3>2
  <2>2. ASSUME NEW eq \in Equities,
               risk' = [risk EXCEPT ![s] = ObserveEquity(risk[s] # None, risk[s], eq)]
        PROVE  Hardened(s)
    <3> DEFINE o == ObserveEquity(risk[s] # None, risk[s], eq)
    <3>1. o \in Risks
      BY <1>0, ObserveTyped
    <3>2. Halted(s) => o.halted /\ o.open <= risk[s].open
      BY <1>0, RulesKeepHalt DEF Halted
    <3> HIDE DEF o
    <3> QED
      BY <2>2, <3>1, <3>2, HardenedBy DEF o
  <2> QED
    BY <2>1, <2>2, HardenedBy
<1>3. CASE CloseFills(s, k)
  <2>1. risk[s] \in Risks
    BY <1>3 DEF CloseFills, ClosePending, Runs, Armed
  <2>2. PICK pnl \in Pnls : risk' = [risk EXCEPT ![s] = AfterClose(risk[s], pnl)]
    BY <1>3 DEF CloseFills, TypeOK
  <2> DEFINE o == AfterClose(risk[s], pnl)
  <2>3. pnl \in Int
    OBVIOUS
  <2>4. o \in Risks
    BY <2>1, <2>3, FillTyped
  <2>5. Halted(s) => o.halted /\ o.open <= risk[s].open
    BY <2>1, <2>3, RulesKeepHalt DEF Halted
  <2> HIDE DEF o
  <2> QED
    BY <2>2, <2>4, <2>5, HardenedBy DEF o
<1>4. CASE OpenFills(s, k)
  <2>1. ~Halted(s)
    BY <1>4, HaltVetoes DEF OpenFills
  <2>2. risk[s] \in Risks
    BY <1>4 DEF OpenFills, OpenPending, Runs, Armed
  <2>3. risk' = [risk EXCEPT ![s] = AfterOpen(risk[s])] /\ AfterOpen(risk[s]) \in Risks
    BY <1>4, <2>2, FillTyped DEF OpenFills, TypeOK
  <2> QED
    BY <2>1, <2>3, HardenedBy
<1>5. CASE OpenRejected(s, k)
  <2>1. risk[s] \in Risks
    BY <1>5 DEF OpenRejected, OpenPending, Runs, Armed
  <2>2. \/ risk' = risk
        \/ \E rule : risk' = [risk EXCEPT ![s] = AfterVeto(risk[s], rule, RiskCfg)]
    BY <1>5 DEF OpenRejected, TypeOK
  <2>3. ASSUME NEW rule, risk' = [risk EXCEPT ![s] = AfterVeto(risk[s], rule, RiskCfg)]
        PROVE  Hardened(s)
    <3> DEFINE o == AfterVeto(risk[s], rule, RiskCfg)
    <3>1. o \in Risks
      BY <2>1, VetoTyped
    <3>2. Halted(s) => o.halted /\ o.open <= risk[s].open
      BY <2>1, RulesKeepHalt DEF Halted
    <3> HIDE DEF o
    <3> QED
      BY <2>3, <3>1, <3>2, HardenedBy DEF o
  <2> QED
    BY <2>2, <2>3, HardenedBy
<1> QED
  BY <1>1, <1>2, <1>3, <1>4, <1>5 DEF Step

\* No step of any loop opens a position of a halted strategy.
LEMMA StepStaysFlat ==
  ASSUME TypeOK, NEW s \in Strategies, NEW k \in Slots, Step(s, k),
         NEW t \in Strategies, NEW j \in Slots, Halted(t),
         At(t, j, "trade"), loop[t][j].c.pos = Flat
  PROVE  loop'[t][j].c.pos = Flat
<1> USE ExecutorAssumption
<1> DEFINE c == loop[s][k].c
<1>0. /\ loop \in [Strategies -> [Slots -> Tasks]] /\ c \in Cycles /\ c.plan \in Plans
      /\ [c.plan EXCEPT !.close = FALSE] \in Plans
  <2>1. loop \in [Strategies -> [Slots -> Tasks]] /\ c \in Cycles
    BY CycleTyped DEF TypeOK
  <2>2. c.plan \in Plans
    BY <2>1 DEF Cycles
  <2>3. [c.plan EXCEPT !.close = FALSE] \in Plans
    BY <2>2 DEF Plans
  <2> QED
    BY <2>1, <2>2, <2>3
<1>1. CASE t # s \/ j # k
  <2>1. \/ \E stage, c2 : Goto(s, k, stage, c2)
        \/ loop' = [loop EXCEPT ![s] = [loop[s] EXCEPT ![k] = FreeTask]]
    BY DEF Step, StartCycle, ReadAccount, ReadFails, NoAdapter, CloseFills, OpenFills,
           OpenRejected, OrderFails, Commit, CycleLost, Finish, Aborted
  <2>2. PICK u : loop' = [loop EXCEPT ![s] = [loop[s] EXCEPT ![k] = u]]
    <3>1. ASSUME NEW stage, NEW c2, Goto(s, k, stage, c2)
          PROVE  loop' = [loop EXCEPT ![s] = [loop[s] EXCEPT ![k] =
                            [loop[s][k] EXCEPT !.pc = stage, !.c = c2]]]
      BY <3>1 DEF Goto
    <3> QED
      BY <2>1, <3>1
  <2>3. loop'[t][j] = loop[t][j]
    BY <1>0, <1>1, <2>2
  <2> QED
    BY <2>3
<1>2. CASE t = s /\ j = k
  <2>1. At(s, k, "trade") /\ Halted(s) /\ c.pos = Flat
    BY <1>2
  <2>2. CASE CloseFills(s, k)
    <3>1. PICK stage, plan, pnl :
            /\ plan = [c.plan EXCEPT !.close = FALSE] /\ pnl \in Pnls /\ stage = NextStage(plan)
            /\ Goto(s, k, stage, [c EXCEPT !.plan = plan, !.pos = Flat, !.filled = c.filled - c.pos,
                                           !.real = c.real + pnl, !.wrote = TRUE])
      BY <1>0, <2>2 DEF CloseFills, Cycles
    <3>2. PICK c2 :
            c2 = [c EXCEPT !.plan = plan, !.pos = Flat, !.filled = c.filled - c.pos,
                           !.real = c.real + pnl, !.wrote = TRUE]
      OBVIOUS
    <3>3. c2.pos = Flat
      BY <1>0, <3>2 DEF Cycles
    <3>4. c2 \in Cycles
      <4>1. plan \in Plans /\ pnl \in Int
        BY <1>0, <3>1
      <4>2. Flat \in Int /\ c.filled - c.pos \in Int /\ c.real + pnl \in Int
        BY <1>0, <4>1 DEF Cycles, Flat
      <4> QED
        BY <1>0, <3>2, <4>1, <4>2, CycleSteps
    <3>5. Goto(s, k, NextStage(plan), c2)
      BY <3>1, <3>2
    <3>6. loop'[s][k].c = c2
      BY <1>0, <3>4, <3>5, StageTyped, GotoFacts
    <3> QED
      BY <1>2, <3>3, <3>6
  <2>3. CASE OpenFills(s, k)
    BY <2>1, <2>3, HaltVetoes DEF OpenFills
  <2>4. CASE OpenRejected(s, k)
    <3>1. PICK b \in BOOLEAN : Goto(s, k, "settle", [c EXCEPT !.plan = NoPlan, !.halted = b])
      BY <2>4 DEF OpenRejected, Halts
    <3>2. PICK c2 \in Cycles : c2 = [c EXCEPT !.plan = NoPlan, !.halted = b]
      BY <1>0, NoPlanTyped, CycleSteps
    <3>3. c2.pos = Flat
      BY <1>0, <2>1, <3>2 DEF Cycles
    <3>4. loop'[s][k].c = c2
      BY <1>0, <3>1, <3>2, GotoFacts DEF Stages
    <3> QED
      BY <1>2, <3>3, <3>4
  <2>5. CASE OrderFails(s, k)
    <3>1. PICK plan \in Plans :
            Goto(s, k, NextStage(plan), [c EXCEPT !.plan = plan, !.broken = TRUE, !.errored = TRUE])
      BY <1>0, <2>5, NoPlanTyped DEF OrderFails
    <3>2. PICK c2 \in Cycles : c2 = [c EXCEPT !.plan = plan, !.broken = TRUE, !.errored = TRUE]
      BY <1>0, CycleSteps
    <3>3. c2.pos = Flat
      BY <1>0, <2>1, <3>2 DEF Cycles
    <3>4. loop'[s][k].c = c2
      BY <1>0, <3>1, <3>2, StageTyped, GotoFacts
    <3> QED
      BY <1>2, <3>3, <3>4
  <2>6. CASE Aborted(s, k)
    <3>1. loop' = [loop EXCEPT ![s] = [loop[s] EXCEPT ![k] = FreeTask]]
      BY <2>6 DEF Aborted
    <3>2. loop'[s][k] = FreeTask /\ FreeTask.c.pos = Flat
      BY <1>0, <3>1 DEF FreeTask, NoCycle
    <3> QED
      BY <1>2, <3>2
  <2> QED
    BY <2>1, <2>2, <2>3, <2>4, <2>5, <2>6
       DEF Step, StartCycle, ReadAccount, ReadFails, NoAdapter, Commit, CycleLost, Finish, Runs, At
<1> QED
  BY <1>1, <1>2

\* A notification touches the risk state of its strategy only, only to release it,
\* and only when it is a change of the status.
LEMMA NotifyReleases ==
  ASSUME TypeOK, Notify, NEW s \in Strategies
  PROVE  \/ risk'[s] = risk[s]
         \/ /\ Head(notices).kind = "status" /\ Head(notices).sid = s
            /\ ~Halted(s)'
<1> DEFINE n == Head(notices)
<1>1. n \in Notices
  BY DEF Notify, TypeOK
<1>2. CASE risk' = risk
  BY <1>2
<1>3. CASE risk' # risk
  <2>1. n.kind = "status" /\ NotifyStatus(n.sid, n.status)
    BY <1>3 DEF Notify, NotifyConfig
  <2>2. risk' = [risk EXCEPT ![n.sid] = Released(risk[n.sid])] /\ risk[n.sid] # None
    BY <1>3, <2>1 DEF NotifyStatus
  <2>3. n.sid \in Strategies
    BY <1>1 DEF Notices
  <2>4. risk[n.sid] \in Risks
    BY <2>2, <2>3 DEF TypeOK
  <2>5. ~Released(risk[n.sid]).halted
    BY <2>4 DEF Released, Risks
  <2>6. CASE s = n.sid
    BY <2>1, <2>2, <2>3, <2>5, <2>6 DEF Halted, TypeOK
  <2>7. CASE s # n.sid
    BY <2>2, <2>3, <2>7 DEF TypeOK
  <2> QED
    BY <2>6, <2>7
<1> QED
  BY <1>2, <1>3

\* What every step but a restart does to a halted strategy.
LEMMA HaltKept ==
  ASSUME TypeOK, Armed, [Next]_vars, ~Restart, NEW s \in Strategies, Halted(s)
  PROVE  \/ Halted(s)' /\ risk'[s].open <= risk[s].open
         \/ Notify /\ Head(notices).kind = "status" /\ Head(notices).sid = s /\ ~Halted(s)'
<1>0. risk[s] \in Risks /\ risk[s].open \in Int
  BY DEF Halted, TypeOK, Risks
<1>1. ASSUME NEW t \in Strategies, NEW k \in Slots, Step(t, k)
      PROVE  Halted(s)' /\ risk'[s].open <= risk[s].open
  <2>1. Hardened(t)
    BY <1>1, StepHardens
  <2> QED
    BY <1>0, <2>1 DEF Hardened, Halted
<1>2. CASE Notify
  BY <1>0, <1>2, NotifyReleases DEF Halted
<1>3. CASE risk' = risk
  BY <1>0, <1>3 DEF Halted
<1> QED
  BY <1>1, <1>2, <1>3
     DEF Next, vars, PatchStatus, PatchConfig, DeleteStrategy, NewBar, Midnight

\* A halt the risk manager took lasts: no cycle, reload, deletion, midnight or
\* reading of the account releases it, only the user's change of the status of that
\* strategy, or the end of the process.
THEOREM HaltsAreReleasedByUser == Spec => HaltReleasedByUser
<1>1. TypeOK /\ Armed /\ [Next]_vars =>
        [\A s \in Strategies :
           Halted(s) /\ ~Halted(s)'
           => \/ Restart
              \/ Notify /\ Head(notices).kind = "status" /\ Head(notices).sid = s]_vars
  BY HaltKept
<1> QED
  BY <1>1, TypeCorrect, PTL DEF Spec, HaltReleasedByUser

\* While a strategy stays halted no order of it opens a position, in whichever of
\* its loops and whatever else the system does.
THEOREM HaltedStrategiesNeverOpen == Spec => HaltedNeverOpens
<1> DEFINE Quieted(s) ==
             /\ risk'[s].open <= risk[s].open
             /\ \A k \in Slots :
                  At(s, k, "trade") /\ loop[s][k].c.pos = Flat => loop'[s][k].c.pos = Flat
<1>1. ASSUME TypeOK, Armed, [Next]_vars,
             NEW s \in Strategies, Halted(s), Halted(s)'
      PROVE  Quieted(s)
  <2>1. CASE Restart
    <3>1. \E eq, open, peak, day :
            risk'[s] = SeedState(eq, open, peak, day) \/ risk'[s] = None
      BY <2>1 DEF Restart
    <3>2. ~Halted(s)'
      BY <3>1 DEF Halted, SeedState
    <3> QED
      BY <1>1, <3>2
  <2>2. CASE ~Restart
    <3>1. risk'[s].open <= risk[s].open
      BY <1>1, <2>2, HaltKept
    <3>2. ASSUME NEW k \in Slots, At(s, k, "trade"), loop[s][k].c.pos = Flat
          PROVE  loop'[s][k].c.pos = Flat
      <4>1. ASSUME NEW t \in Strategies, NEW j \in Slots, Step(t, j)
            PROVE  loop'[s][k].c.pos = Flat
        BY <1>1, <3>2, <4>1, StepStaysFlat
      <4>2. CASE Notify
        <5>1. CASE \E t \in Strategies, j \in Slots : Launched(t, j)
          BY <3>2, <5>1 DEF Launched, Dropped, NoCycle
        <5>2. CASE \E t \in Strategies : Stopped(t)
          BY <3>2, <5>2 DEF Stopped, Dropped
        <5> QED
          BY <1>1, <3>2, <4>2, <5>1, <5>2, NotifyShape
      <4>3. CASE loop' = loop
        BY <3>2, <4>3
      <4>4. CASE Midnight
        <5>1. /\ loop'[s][k] = [loop[s][k] EXCEPT !.c = [loop[s][k].c EXCEPT !.real = 0]]
              /\ loop[s][k] \in Tasks /\ loop[s][k].c \in Cycles
          BY <1>1, <4>4, CycleTyped DEF Midnight, TypeOK
        <5>2. loop'[s][k].c = [loop[s][k].c EXCEPT !.real = 0]
          BY <5>1 DEF Tasks
        <5> QED
          BY <3>2, <5>1, <5>2 DEF Cycles
      <4> QED
        BY <1>1, <2>2, <4>1, <4>2, <4>3, <4>4
           DEF Next, vars, PatchStatus, PatchConfig, DeleteStrategy, NewBar
    <3> QED
      BY <3>1, <3>2
  <2> QED
    BY <2>1, <2>2
<1>2. TypeOK /\ Armed /\ [Next]_vars =>
        [\A s \in Strategies : Halted(s) /\ Halted(s)' => Quieted(s)]_vars
  BY <1>1
<1> QED
  BY <1>2, TypeCorrect, PTL DEF Spec, HaltedNeverOpens

-----------------------------------------------------------------------------
(***************************************************************************)
(* Stopping.  Of the notices about a strategy the last one about its       *)
(* status counts, so a strategy the user took out of trading is stopped,   *)
(* or a notice that stops it is still to come, after all that start it.    *)
(***************************************************************************)

Idle == {"draft", "paused", "archived"}
StopsIt(n, s)  == n.kind = "status" /\ n.sid = s /\ ~Starts(n.status)
StartsIt(n, s) == n.kind = "status" /\ n.sid = s /\ Starts(n.status)

WillStop(s) ==
  /\ tasks[s] # None => \E j \in DOMAIN notices : StopsIt(notices[j], s)
  /\ \A i \in DOMAIN notices : StartsIt(notices[i], s) =>
       \E j \in DOMAIN notices : j > i /\ StopsIt(notices[j], s)

Obeyed == \A s \in Strategies : row[s].status \in Idle => WillStop(s)

\* A step that leaves the notices alone and launches nothing.
LEMMA StillObeyed ==
  ASSUME Obeyed, notices' = notices,
         \A s \in Strategies :
           /\ row'[s].status \in Idle => row[s].status \in Idle
           /\ tasks'[s] # None => tasks[s] # None
  PROVE  Obeyed'
  BY DEF Obeyed, WillStop

\* A handler that commits a status that stops also queues the notice that stops.
LEMMA PatchObeyed ==
  ASSUME TypeOK, Obeyed, NEW s \in Strategies, NEW status \in Statuses,
         PatchStatus(s, status)
  PROVE  Obeyed'
<1> DEFINE n == Notice("status", s, status)
           l == Len(notices)
<1>1. /\ notices \in Seq(Notices) /\ n \in Notices /\ notices' = Append(notices, n)
      /\ tasks' = tasks
  BY DEF PatchStatus, TypeOK, Notice, Notices
<1>2. n.kind = "status" /\ n.sid = s /\ n.status = status
  BY DEF Notice
<1>3. row'[s].status = status /\ \A t \in Strategies \ {s} : row'[t] = row[t]
  BY DEF PatchStatus, TypeOK, Rows
<1> HIDE DEF n
<1>4. /\ l \in Nat /\ DOMAIN notices = 1..l /\ DOMAIN notices' = 1..(l + 1)
      /\ \A i \in 1..l : notices'[i] = notices[i]
      /\ notices'[l + 1] = n
  BY <1>1
<1>5. ASSUME NEW t \in Strategies \ {s}, row'[t].status \in Idle
      PROVE  WillStop(t)'
  <2>1. WillStop(t)
    BY <1>3, <1>5 DEF Obeyed
  <2>2. ~StopsIt(n, t) /\ ~StartsIt(n, t)
    BY <1>2 DEF StopsIt, StartsIt
  <2>3. tasks'[t] # None => \E j \in 1..(l + 1) : StopsIt(notices'[j], t)
    BY <1>1, <1>4, <2>1 DEF WillStop
  <2>4. ASSUME NEW i \in 1..(l + 1), StartsIt(notices'[i], t)
        PROVE  \E j \in 1..(l + 1) : j > i /\ StopsIt(notices'[j], t)
    <3>1. i \in 1..l /\ notices'[i] = notices[i]
      BY <1>4, <2>2, <2>4
    <3>2. PICK j \in 1..l : j > i /\ StopsIt(notices[j], t)
      BY <1>4, <2>1, <2>4, <3>1 DEF WillStop
    <3> QED
      BY <1>4, <3>2
  <2> QED
    BY <1>4, <2>3, <2>4 DEF WillStop
<1>6. ASSUME row'[s].status \in Idle
      PROVE  WillStop(s)'
  <2>1. StopsIt(n, s) /\ ~StartsIt(n, s)
    BY <1>2, <1>3, <1>6 DEF StopsIt, StartsIt, Starts, Active, Idle
  <2>2. ASSUME NEW i \in 1..(l + 1), StartsIt(notices'[i], s)
        PROVE  l + 1 > i
    BY <1>4, <2>1, <2>2
  <2> QED
    BY <1>4, <2>1, <2>2 DEF WillStop
<1> QED
  BY <1>5, <1>6 DEF Obeyed

\* A reload's notice starts nothing.
LEMMA ReloadObeyed ==
  ASSUME TypeOK, Obeyed, NEW s \in Strategies, PatchConfig(s)
  PROVE  Obeyed'
<1> DEFINE n == Notice("config", s, row[s].status)
           l == Len(notices)
<1>1. /\ notices \in Seq(Notices) /\ n \in Notices /\ notices' = Append(notices, n)
      /\ tasks' = tasks /\ row' = row
  BY DEF PatchConfig, TypeOK, Notice, Notices, Rows
<1>2. \A t : ~StopsIt(n, t) /\ ~StartsIt(n, t)
  BY DEF Notice, StopsIt, StartsIt
<1> HIDE DEF n
<1>3. /\ l \in Nat /\ DOMAIN notices = 1..l /\ DOMAIN notices' = 1..(l + 1)
      /\ \A i \in 1..l : notices'[i] = notices[i]
      /\ notices'[l + 1] = n
  BY <1>1
<1>4. ASSUME NEW t \in Strategies, row'[t].status \in Idle
      PROVE  WillStop(t)'
  <2>1. WillStop(t)
    BY <1>1, <1>4 DEF Obeyed
  <2>2. tasks'[t] # None => \E j \in 1..(l + 1) : StopsIt(notices'[j], t)
    BY <1>1, <1>3, <2>1 DEF WillStop
  <2>3. ASSUME NEW i \in 1..(l + 1), StartsIt(notices'[i], t)
        PROVE  \E j \in 1..(l + 1) : j > i /\ StopsIt(notices'[j], t)
    <3>1. i \in 1..l /\ notices'[i] = notices[i]
      BY <1>2, <1>3, <2>3
    <3>2. PICK j \in 1..l : j > i /\ StopsIt(notices[j], t)
      BY <1>3, <2>1, <2>3, <3>1 DEF WillStop
    <3> QED
      BY <1>3, <3>2
  <2> QED
    BY <1>3, <2>2, <2>3 DEF WillStop
<1> QED
  BY <1>4 DEF Obeyed

\* What the notice at the head does to the task of its strategy, and to no other:
\* one that stops it leaves none, and only one that starts it makes one.
LEMMA NotifyTable ==
  ASSUME TypeOK, Notify, NEW s \in Strategies
  PROVE  /\ StopsIt(Head(notices), s) => tasks'[s] = None
         /\ tasks'[s] # None => tasks[s] # None \/ StartsIt(Head(notices), s)
<1> DEFINE n == Head(notices)
<1>1. n \in Notices
  BY DEF Notify, TypeOK
<1>2. n.kind \in {"status", "config"} /\ n.sid \in Strategies
  BY <1>1 DEF Notices
<1>3. tasks \in [Strategies -> Slots \cup {None}]
  BY DEF TypeOK
<1> HIDE DEF n
<1>4. CASE n.kind = "status"
  <2>1. NotifyStatus(n.sid, n.status)
    BY <1>4 DEF Notify, n
  <2>2. CASE Starts(n.status)
    <3>1. tasks' = tasks \/ \E k \in Slots : tasks' = [tasks EXCEPT ![n.sid] = k]
      BY <2>1, <2>2 DEF NotifyStatus
    <3> QED
      BY <1>2, <1>3, <1>4, <2>2, <3>1 DEF StopsIt, StartsIt, n
  <2>3. CASE ~Starts(n.status)
    <3>1. tasks' = [tasks EXCEPT ![n.sid] = None]
      BY <2>1, <2>3 DEF NotifyStatus
    <3> QED
      BY <1>2, <1>3, <3>1 DEF StopsIt, n
  <2> QED
    BY <2>2, <2>3
<1>5. CASE n.kind = "config"
  <2>1. NotifyConfig(n.sid, n.status)
    BY <1>5 DEF Notify, n
  <2>2. \/ tasks' = tasks
        \/ tasks[n.sid] # None /\ \E k \in Slots : tasks' = [tasks EXCEPT ![n.sid] = k]
    BY <2>1 DEF NotifyConfig
  <2> QED
    BY <1>2, <1>3, <1>5, <2>2 DEF StopsIt, n
<1> QED
  BY <1>2, <1>4, <1>5

\* The notices that are left still say what is to come.
LEMMA NotifyObeyed ==
  ASSUME TypeOK, Obeyed, Notify
  PROVE  Obeyed'
<1> DEFINE l == Len(notices)
<1>1. /\ notices \in Seq(Notices) /\ notices # <<>> /\ notices' = Tail(notices) /\ row' = row
  BY DEF Notify, TypeOK
<1>2. /\ l \in Nat \ {0} /\ DOMAIN notices = 1..l /\ DOMAIN notices' = 1..(l - 1)
      /\ \A i \in 1..(l - 1) : notices'[i] = notices[i + 1]
      /\ Head(notices) = notices[1]
  BY <1>1
<1>3. ASSUME NEW s \in Strategies, row'[s].status \in Idle
      PROVE  WillStop(s)'
  <2>1. WillStop(s)
    BY <1>1, <1>3 DEF Obeyed
  <2>2. ASSUME NEW j \in 1..l, j > 1
        PROVE  j - 1 \in 1..(l - 1) /\ notices'[j - 1] = notices[j]
    BY <1>2, <2>2
  <2>3. ASSUME tasks'[s] # None
        PROVE  \E j \in 1..(l - 1) : StopsIt(notices'[j], s)
    <3>1. PICK j \in 1..l : j > 1 /\ StopsIt(notices[j], s)
      <4>1. ~StopsIt(notices[1], s)
        BY <1>2, <2>3, NotifyTable
      <4>2. CASE tasks[s] # None
        <5>1. PICK j \in 1..l : StopsIt(notices[j], s)
          BY <1>2, <2>1, <4>2 DEF WillStop
        <5> QED
          BY <4>1, <5>1
      <4>3. CASE StartsIt(notices[1], s)
        BY <1>2, <2>1, <4>3 DEF WillStop
      <4> QED
        BY <1>2, <2>3, <4>2, <4>3, NotifyTable
    <3> QED
      BY <2>2, <3>1
  <2>4. ASSUME NEW i \in 1..(l - 1), StartsIt(notices'[i], s)
        PROVE  \E j \in 1..(l - 1) : j > i /\ StopsIt(notices'[j], s)
    <3>1. i + 1 \in 1..l /\ StartsIt(notices[i + 1], s)
      BY <1>2, <2>4
    <3>2. PICK j \in 1..l : j > i + 1 /\ StopsIt(notices[j], s)
      BY <1>2, <2>1, <3>1 DEF WillStop
    <3>3. j - 1 \in 1..(l - 1) /\ notices'[j - 1] = notices[j] /\ j - 1 > i
      BY <1>2, <2>2, <3>2
    <3> QED
      BY <3>2, <3>3
  <2> QED
    BY <1>2, <2>3, <2>4 DEF WillStop
<1> QED
  BY <1>3 DEF Obeyed

\* What is promised of stopping is kept by every step.
LEMMA ObeyedInductive ==
  TypeOK /\ Table /\ Obeyed /\ [Next]_vars => Obeyed'
<1> SUFFICES ASSUME TypeOK, Table, Obeyed, [Next]_vars
             PROVE  Obeyed'
  OBVIOUS
<1>1. ASSUME NEW s \in Strategies, NEW k \in Slots, Step(s, k)
      PROVE  Obeyed'
  <2>1. notices' = notices
    BY <1>1 DEF Step, StartCycle, ReadAccount, ReadFails, NoAdapter, CloseFills, OpenFills,
                OpenRejected, OrderFails, Commit, CycleLost, Finish, Aborted
  <2>2. tasks' = tasks \/ tasks' = [tasks EXCEPT ![s] = None]
    BY <1>1, StepShape, StepsAreBusy DEF Table, Moved, Ended
  <2>3. row' = row \/ Commit(s, k)
    BY <1>1 DEF Step, StartCycle, ReadAccount, ReadFails, NoAdapter, CloseFills, OpenFills,
                OpenRejected, OrderFails, CycleLost, Finish, Aborted
  <2>4. ASSUME NEW t \in Strategies, row'[t].status \in Idle
        PROVE  row[t].status \in Idle
    <3>1. CASE Commit(s, k)
      <4> DEFINE c == loop[s][k].c
                 halts == c.halted \/ ErrorsAfter(row[s].errors, c) = MaxErrors
                 r == [status |-> IF halts THEN "halted" ELSE row[s].status,
                       errors |-> ErrorsAfter(row[s].errors, c),
                       peak   |-> IF risk[s] = None THEN row[s].peak ELSE risk[s].peak]
      <4>1. row' = [row EXCEPT ![s] = r]
        BY <3>1 DEF Commit, TypeOK
      <4>2. r.status \in {"halted", row[s].status}
        OBVIOUS
      <4> HIDE DEF r
      <4>3. t = s => row'[t] = r
        BY <4>1 DEF TypeOK
      <4>4. t # s => row'[t] = row[t]
        BY <4>1 DEF TypeOK
      <4> QED
        BY <2>4, <4>2, <4>3, <4>4 DEF Idle
    <3> QED
      BY <2>3, <2>4, <3>1
  <2>5. \A t \in Strategies : tasks'[t] # None => tasks[t] # None
    BY <2>2 DEF TypeOK
  <2> QED
    BY <2>1, <2>4, <2>5, StillObeyed
<1>2. ASSUME NEW s \in Strategies, DeleteStrategy(s)
      PROVE  Obeyed'
  <2>1. /\ row'[s].status = "gone" /\ \A t \in Strategies \ {s} : row'[t] = row[t]
        /\ UNCHANGED <<tasks, notices>>
    BY <1>2 DEF DeleteStrategy, TypeOK
  <2> QED
    BY <2>1, StillObeyed DEF Idle
<1>3. CASE Restart
  <2>1. row' = row /\ notices' = <<>>
    BY <1>3 DEF Restart
  <2>2. \A s \in Strategies : row[s].status \in Idle => tasks'[s] = None
    BY <1>3 DEF Restart, Starts, Active, Idle
  <2> QED
    BY <2>1, <2>2 DEF Obeyed, WillStop
<1>4. CASE UNCHANGED <<row, tasks, notices>>
  BY <1>4, StillObeyed
<1> QED
  BY <1>1, <1>2, <1>3, <1>4, PatchObeyed, ReloadObeyed, NotifyObeyed
     DEF Next, vars, NewBar, Midnight

\* A strategy the user took out of trading has no loop once the notifications of it
\* have been handled, whatever reloads, halts, requests or restarts came between.
THEOREM StoppedStays == Spec => []StoppedStaysStopped
<1>1. Init => Obeyed
  BY DEF Init, Obeyed, WillStop
<1>2. Init => Table
  BY ExecutorAssumption DEF Init, Table, TaskTableExact, Vacant, Solo, Busy, FreeTask, At
<1>3. Obeyed => StoppedStaysStopped
  BY DEF Obeyed, WillStop, StoppedStaysStopped, Quiet, Idle, StopsIt
<1> QED
  BY <1>1, <1>2, <1>3, ObeyedInductive, TableInductive, TypeCorrect, PTL DEF Spec

-----------------------------------------------------------------------------
(***************************************************************************)
(* One loop per active strategy.  The executor follows the rows as long as *)
(* a strategy is started once, by a change of its status, and not reloaded *)
(* or deleted: whatever else starts it, or changes its mode, can cross a   *)
(* halt or a loop that runs already.                                       *)
(***************************************************************************)

StartedOnce ==
  /\ Enabled \cap {"config", "delete"} = {}
  /\ \A req \in Requests : /\ req[2] # "draft"
                           /\ req[2] \in Active => req[1] = "draft"

\* A loop that committed a halt and will end by itself.
Leaving(t) == t.pc = "broadcast" /\ ~t.c.keep

AllFree(l) == \A k \in Slots : l[k].pc = "free"

\* Of the status st of s, its current task tk, its tasks l and the notices q: a notice
\* that starts s is its first, names the status of an active row, and one that stops it
\* follows if the row is active no more; an active row has a loop in its mode or the
\* notice that starts it; any other has no loop, or one that is stopped or ends.
StartOK(s, st, l, q) ==
  \A i \in DOMAIN q : StartsIt(q[i], s) =>
    /\ AllFree(l)
    /\ \A j \in DOMAIN q : StartsIt(q[j], s) => i = j
    /\ IF st \in Active THEN q[i].status = st
                        ELSE \E j \in DOMAIN q : j > i /\ StopsIt(q[j], s)
DraftOK(s, st, l, q) ==
  st = "draft" => AllFree(l) /\ \A i \in DOMAIN q : q[i].sid # s
ActiveOK(s, st, tk, l, q) ==
  st \in Active =>
    /\ \A i \in DOMAIN q : ~StopsIt(q[i], s)
    /\ \A k \in Slots : ~l[k].cancelled
    /\ \/ \E i \in DOMAIN q : StartsIt(q[i], s)
       \/ tk # None /\ l[tk].mode = st /\ ~Leaving(l[tk])
EndedOK(s, st, tk, l, q) ==
  st \notin Active => \/ tk = None \/ Leaving(l[tk])
                      \/ \E i \in DOMAIN q : StopsIt(q[i], s)

Follows(s, st, tk, l, q) ==
  StartOK(s, st, l, q) /\ DraftOK(s, st, l, q) /\ ActiveOK(s, st, tk, l, q) /\ EndedOK(s, st, tk, l, q)

Follow ==
  /\ \A i \in DOMAIN notices : notices[i].kind = "status"
  /\ \A s \in Strategies : Follows(s, row[s].status, tasks[s], loop[s], notices)

\* The stages of a cycle,
LEMMA FollowsMove ==
  ASSUME NEW s, NEW st, NEW tk \in Slots \cup {None}, NEW l, NEW q, Follows(s, st, tk, l, q),
         NEW k \in Slots, l[k].pc # "free", ~Leaving(l[k]),
         NEW l2, \A j \in Slots \ {k} : l2[j] = l[j],
         l2[k].pc # "free", ~Leaving(l2[k]), l2[k].cancelled = l[k].cancelled, l2[k].mode = l[k].mode
  PROVE  Follows(s, st, tk, l2, q)
<1> USE ExecutorAssumption
<1>1. StartOK(s, st, l2, q) /\ DraftOK(s, st, l2, q)
  BY DEF Follows, StartOK, DraftOK, AllFree
<1>2. ActiveOK(s, st, tk, l2, q) /\ EndedOK(s, st, tk, l2, q)
  BY DEF Follows, ActiveOK, EndedOK
<1> QED
  BY <1>1, <1>2 DEF Follows

\* its halting commit, and
LEMMA FollowsHalt ==
  ASSUME NEW s, NEW st, NEW tk \in Slots \cup {None}, NEW l, NEW q, Follows(s, st, tk, l, q),
         NEW k \in Slots, l[k].pc # "free", ~Leaving(l[k]), l[k].cancelled \/ tk = k,
         NEW l2, \A j \in Slots \ {k} : l2[j] = l[j], Leaving(l2[k])
  PROVE  Follows(s, "halted", tk, l2, q)
<1> USE ExecutorAssumption
<1>1. ~AllFree(l)
  BY DEF AllFree
<1>2. StartOK(s, "halted", l2, q) /\ DraftOK(s, "halted", l2, q)
  BY <1>1 DEF Follows, StartOK, DraftOK
<1>3. EndedOK(s, "halted", tk, l2, q)
  BY DEF Follows, ActiveOK, EndedOK
<1>4. ActiveOK(s, "halted", tk, l2, q)
  BY DEF ActiveOK, Active
<1> QED
  BY <1>2, <1>3, <1>4 DEF Follows

\* the end of a task that was cancelled or halted.
LEMMA FollowsEnd ==
  ASSUME NEW s, NEW st, NEW tk \in Slots \cup {None}, NEW l, NEW q, Follows(s, st, tk, l, q),
         NEW k \in Slots, l[k].pc # "free", NEW tk2, NEW l2, \A j \in Slots \ {k} : l2[j] = l[j],
         \/ l[k].cancelled /\ tk # k /\ tk2 = tk
         \/ tk = k /\ Leaving(l[k]) /\ tk2 = None
  PROVE  Follows(s, st, tk2, l2, q)
<1> USE ExecutorAssumption
<1>1. ~AllFree(l)
  BY DEF AllFree
<1>2. st \notin Active
  BY <1>1 DEF Follows, ActiveOK, StartOK
<1>3. StartOK(s, st, l2, q) /\ DraftOK(s, st, l2, q) /\ ActiveOK(s, st, tk2, l2, q)
  BY <1>1, <1>2 DEF Follows, StartOK, DraftOK, ActiveOK
<1>4. EndedOK(s, st, tk2, l2, q)
  BY <1>2 DEF Follows, EndedOK
<1> QED
  BY <1>3, <1>4 DEF Follows

\* A step of a loop as a move, a commit or an end.
LEMMA StepKinds ==
  ASSUME TypeOK, Table, NEW s \in Strategies, NEW k \in Slots, Step(s, k)
  PROVE  /\ notices' = notices /\ ~At(s, k, "free")
         /\ \/ Commit(s, k)
            \/ /\ tasks' = tasks /\ row' = row /\ ~Leaving(loop[s][k])
               /\ \E stage \in Stages \ {"free", "broadcast"} : \E c : Goto(s, k, stage, c)
            \/ /\ row' = row
               /\ loop' = [loop EXCEPT ![s] = [loop[s] EXCEPT ![k] = FreeTask]]
               /\ \/ loop[s][k].cancelled /\ tasks' = tasks
                  \/ /\ ~loop[s][k].cancelled /\ Leaving(loop[s][k])
                     /\ tasks' = [tasks EXCEPT ![s] = None]
<1>0. notices' = notices /\ ~At(s, k, "free")
  BY StepsAreBusy DEF Table, Step, StartCycle, ReadAccount, ReadFails, NoAdapter, CloseFills, OpenFills,
         OpenRejected, OrderFails, Commit, CycleLost, Finish, Aborted
<1>1. \A plan : NextStage(plan) \in Stages \ {"free", "broadcast"}
  BY DEF NextStage, Stages
<1>2. {"read", "settle", "sleep"} \subseteq Stages \ {"free", "broadcast"}
  BY DEF Stages
<1>3. CASE StartCycle(s, k)
  BY <1>0, <1>2, <1>3 DEF StartCycle, Runs, At, Leaving
<1>4. CASE ReadAccount(s, k)
  BY <1>0, <1>1, <1>4 DEF ReadAccount, Runs, At, Leaving
<1>5. CASE ReadFails(s, k) \/ NoAdapter(s, k)
  BY <1>0, <1>2, <1>5 DEF ReadFails, NoAdapter, Runs, At, Leaving
<1>6. CASE CloseFills(s, k)
  BY <1>0, <1>1, <1>6 DEF CloseFills, ClosePending, Runs, At, Leaving
<1>7. CASE OpenFills(s, k)
  BY <1>0, <1>2, <1>7 DEF OpenFills, OpenPending, Runs, At, Leaving
<1>8. CASE OpenRejected(s, k)
  BY <1>0, <1>2, <1>8 DEF OpenRejected, OpenPending, Runs, At, Leaving
<1>9. CASE OrderFails(s, k)
  BY <1>0, <1>1, <1>9 DEF OrderFails, ClosePending, OpenPending, Runs, At, Leaving
<1>10. CASE CycleLost(s, k)
  BY <1>0, <1>2, <1>10 DEF CycleLost, Runs, At, Leaving
<1>11. CASE Finish(s, k)
  BY <1>0, <1>2, <1>11 DEF Finish, Runs, At, Leaving
<1>12. CASE Aborted(s, k)
  BY <1>0, <1>12 DEF Aborted
<1> QED
  BY <1>0, <1>3, <1>4, <1>5, <1>6, <1>7, <1>8, <1>9, <1>10, <1>11, <1>12 DEF Step

\* What a commit does to its task and its row.
LEMMA CommitFacts ==
  ASSUME TypeOK, NEW s \in Strategies, NEW k \in Slots, Commit(s, k)
  PROVE  /\ tasks' = tasks /\ loop[s][k].pc = "settle"
         /\ loop'[s][k].pc = "broadcast" /\ loop'[s][k].cancelled = loop[s][k].cancelled
         /\ \A t \in Strategies, j \in Slots : t # s \/ j # k => loop'[t][j] = loop[t][j]
         /\ \A t \in Strategies \ {s} : row'[t] = row[t]
         /\ row'[s].errors = ErrorsAfter(row[s].errors, loop[s][k].c)
         /\ IF loop'[s][k].c.keep THEN row'[s].status = row[s].status ELSE row'[s].status = "halted"
<1> DEFINE c      == loop[s][k].c
           errors == ErrorsAfter(row[s].errors, c)
           halts  == c.halted \/ errors = MaxErrors
           peak   == IF risk[s] = None THEN row[s].peak ELSE risk[s].peak
           status == IF halts THEN "halted" ELSE row[s].status
<1>1. /\ tasks' = tasks /\ At(s, k, "settle")
      /\ row' = [row EXCEPT ![s] = [status |-> status, errors |-> errors, peak |-> peak]]
      /\ Goto(s, k, "broadcast", [c EXCEPT !.keep = ~halts])
  BY DEF Commit
<1>2. loop \in [Strategies -> [Slots -> Tasks]] /\ c \in Cycles /\ row \in [Strategies -> Rows]
  BY CycleTyped DEF TypeOK
<1>3. PICK r : r = [status |-> status, errors |-> errors, peak |-> peak]
  OBVIOUS
<1>4. r.status = status /\ r.errors = errors
  BY <1>3
<1>5. row'[s] = r /\ \A t \in Strategies \ {s} : row'[t] = row[t]
  BY <1>1, <1>2, <1>3
<1>6. PICK keep \in BOOLEAN : keep = ~halts
  OBVIOUS
<1>7. PICK c2 \in Cycles : c2 = [c EXCEPT !.keep = keep] /\ c2.keep = keep
  <2>1. [c EXCEPT !.keep = keep] \in Cycles
    BY <1>2, CycleSteps
  <2> HIDE DEF c
  <2>2. [c EXCEPT !.keep = keep].keep = keep
    BY <1>2 DEF Cycles
  <2> QED
    BY <2>1, <2>2
<1>8. /\ loop'[s][k].pc = "broadcast" /\ loop'[s][k].c = c2
      /\ loop'[s][k].cancelled = loop[s][k].cancelled
      /\ \A t \in Strategies, j \in Slots : t # s \/ j # k => loop'[t][j] = loop[t][j]
  BY <1>1, <1>2, <1>6, <1>7, GotoFacts DEF Stages
<1> QED
  BY <1>1, <1>4, <1>5, <1>6, <1>7, <1>8 DEF At

LEMMA StepFollow ==
  ASSUME TypeOK, Table, Follow, NEW s \in Strategies, NEW k \in Slots, Step(s, k)
  PROVE  Follow'
<1> USE ExecutorAssumption
<1>0. /\ notices' = notices /\ loop[s][k].pc # "free"
      /\ tasks \in [Strategies -> Slots \cup {None}] /\ loop \in [Strategies -> [Slots -> Tasks]]
  BY StepKinds DEF At, TypeOK
<1>1. Follows(s, row[s].status, tasks[s], loop[s], notices)
  BY DEF Follow
<1>2. ~loop[s][k].cancelled <=> tasks[s] = k
  BY <1>0 DEF Table, TaskTableExact
<1>3. ASSUME Follows(s, row'[s].status, tasks'[s], loop'[s], notices),
             \A t \in Strategies \ {s} : /\ row'[t] = row[t] /\ tasks'[t] = tasks[t]
                                         /\ loop'[t] = loop[t]
      PROVE  Follow'
  <2>1. ASSUME NEW t \in Strategies
        PROVE  Follows(t, row'[t].status, tasks'[t], loop'[t], notices')
    <3>1. CASE t = s
      BY <1>0, <1>3, <3>1
    <3>2. CASE t # s
      BY <1>0, <1>3, <3>2 DEF Follow
    <3> QED
      BY <3>1, <3>2
  <2> QED
    BY <1>0, <2>1 DEF Follow
<1>4. loop' \in [Strategies -> [Slots -> Tasks]] =>
        \A t \in Strategies \ {s} :
          (\A j \in Slots : loop'[t][j] = loop[t][j]) => loop'[t] = loop[t]
  BY <1>0
<1>5. CASE Commit(s, k)
  <2>1. /\ tasks' = tasks /\ loop[s][k].pc = "settle"
        /\ loop'[s][k].pc = "broadcast" /\ loop'[s][k].cancelled = loop[s][k].cancelled
        /\ \A j \in Slots \ {k} : loop'[s][j] = loop[s][j]
        /\ \A t \in Strategies \ {s} : row'[t] = row[t]
        /\ IF loop'[s][k].c.keep THEN row'[s].status = row[s].status ELSE row'[s].status = "halted"
    BY <1>5, CommitFacts
  <2>2. \A t \in Strategies \ {s} : loop'[t] = loop[t]
    BY <1>0, <1>5 DEF Commit, Goto
  <2>3. loop'[s][k].mode = loop[s][k].mode
    BY <2>1, StepModes
  <2>4. ~Leaving(loop[s][k])
    BY <2>1 DEF Leaving
  <2>5. Follows(s, row'[s].status, tasks[s], loop'[s], notices)
    <3>1. CASE loop'[s][k].c.keep
      <4>1. ~Leaving(loop'[s][k])
        BY <3>1 DEF Leaving
      <4> QED
        BY <1>0, <1>1, <2>1, <2>3, <2>4, <3>1, <4>1, FollowsMove
    <3>2. CASE ~loop'[s][k].c.keep
      <4>1. Leaving(loop'[s][k]) /\ row'[s].status = "halted"
        BY <2>1, <3>2 DEF Leaving
      <4>2. loop[s][k].cancelled \/ tasks[s] = k
        BY <1>2
      <4>3. /\ loop[s][k].pc # "free" /\ tasks[s] \in Slots \cup {None}
            /\ \A j \in Slots \ {k} : loop'[s][j] = loop[s][j]
        BY <1>0, <2>1
      <4>4. \A l, l2 : l = loop[s] /\ l2 = loop'[s] => Follows(s, "halted", tasks[s], l2, notices)
        BY <1>1, <2>4, <4>1, <4>2, <4>3, FollowsHalt
      <4> QED
        BY <4>1, <4>4
    <3> QED
      BY <3>1, <3>2
  <2> QED
    BY <1>3, <2>1, <2>2, <2>5
<1>6. ASSUME tasks' = tasks, row' = row, ~Leaving(loop[s][k]),
             NEW stage \in Stages \ {"free", "broadcast"}, NEW c, Goto(s, k, stage, c)
      PROVE  Follow'
  <2>1. PICK u : u = [loop[s][k] EXCEPT !.pc = stage, !.c = c]
    OBVIOUS
  <2>2. u.pc = stage /\ u.mode = loop[s][k].mode /\ u.cancelled = loop[s][k].cancelled
    <3>1. loop[s][k] \in Tasks
      BY <1>0
    <3> QED
      BY <2>1, <3>1 DEF Tasks
  <2>3. loop' = [loop EXCEPT ![s] = [loop[s] EXCEPT ![k] = u]]
    BY <1>6, <2>1 DEF Goto
  <2>4. /\ loop'[s][k] = u /\ \A j \in Slots \ {k} : loop'[s][j] = loop[s][j]
        /\ \A t \in Strategies \ {s} : loop'[t] = loop[t]
    BY <1>0, <2>3
  <2>5. ~Leaving(u) /\ u.pc # "free"
    BY <1>6, <2>2 DEF Leaving
  <2>6. Follows(s, row[s].status, tasks[s], loop'[s], notices)
    BY <1>0, <1>1, <1>6, <2>2, <2>4, <2>5, FollowsMove
  <2> QED
    BY <1>3, <1>6, <2>4, <2>6
<1>7. ASSUME row' = row,
             loop' = [loop EXCEPT ![s] = [loop[s] EXCEPT ![k] = FreeTask]],
             \/ loop[s][k].cancelled /\ tasks' = tasks
             \/ /\ ~loop[s][k].cancelled /\ Leaving(loop[s][k])
                /\ tasks' = [tasks EXCEPT ![s] = None]
      PROVE  Follow'
  <2>1. /\ \A j \in Slots \ {k} : loop'[s][j] = loop[s][j]
        /\ \A t \in Strategies \ {s} : loop'[t] = loop[t] /\ tasks'[t] = tasks[t]
        /\ \/ loop[s][k].cancelled /\ tasks[s] # k /\ tasks'[s] = tasks[s]
           \/ tasks[s] = k /\ Leaving(loop[s][k]) /\ tasks'[s] = None
    BY <1>0, <1>2, <1>7
  <2>2. Follows(s, row[s].status, tasks'[s], loop'[s], notices)
    BY <1>0, <1>1, <2>1, FollowsEnd
  <2> QED
    BY <1>3, <1>7, <2>1, <2>2
<1> QED
  BY <1>5, <1>6, <1>7, StepKinds

\* A handler adds a notice with the status it committed.
LEMMA PatchFollow ==
  ASSUME StartedOnce, TypeOK, Table, Follow, NEW s \in Strategies, NEW status \in Statuses,
         PatchStatus(s, status)
  PROVE  Follow'
<1> USE ExecutorAssumption
<1> DEFINE l == Len(notices)
<1>1. PICK n : n = Notice("status", s, status)
  OBVIOUS
<1>2. n.kind = "status" /\ n.sid = s /\ n.status = status
  BY <1>1 DEF Notice
<1>3. /\ notices \in Seq(Notices) /\ notices' = Append(notices, n) /\ UNCHANGED <<tasks, loop>>
      /\ <<row[s].status, status>> \in Requests
  BY <1>1 DEF PatchStatus, TypeOK
<1>4. /\ l \in Nat /\ DOMAIN notices = 1..l /\ DOMAIN notices' = 1..(l + 1)
      /\ \A i \in 1..l : notices'[i] = notices[i]
      /\ notices'[l + 1] = n
  BY <1>3
<1>5. row'[s].status = status /\ \A t \in Strategies \ {s} : row'[t] = row[t]
  <2>1. row' = [row EXCEPT ![s] = [row[s] EXCEPT !.status = status]] /\ row[s] \in Rows
    BY DEF PatchStatus, TypeOK
  <2> QED
    BY <2>1 DEF TypeOK, Rows
<1>6. status # "draft" /\ (status \in Active => row[s].status = "draft")
  BY <1>3 DEF StartedOnce
<1>7. \A i \in 1..l : i < l + 1 /\ i \in 1..(l + 1)
  BY <1>4
<1>8. l + 1 \in 1..(l + 1) /\ \A i \in 1..(l + 1) : i \in 1..l \/ i = l + 1
  BY <1>4
<1>9. ASSUME NEW t \in Strategies \ {s}
      PROVE  Follows(t, row'[t].status, tasks'[t], loop'[t], notices')
  <2>1. ~StartsIt(n, t) /\ ~StopsIt(n, t)
    BY <1>2 DEF StartsIt, StopsIt
  <2>2. Follows(t, row[t].status, tasks[t], loop[t], notices)
    BY DEF Follow
  <2>3. /\ StartOK(t, row[t].status, loop[t], notices')
        /\ DraftOK(t, row[t].status, loop[t], notices')
    <3>1. StartOK(t, row[t].status, loop[t], notices')
      BY <1>4, <1>7, <1>8, <2>1, <2>2 DEF Follows, StartOK
    <3>2. DraftOK(t, row[t].status, loop[t], notices')
      BY <1>2, <1>4, <1>7, <1>8, <2>2 DEF Follows, DraftOK
    <3> QED
      BY <3>1, <3>2
  <2>4. ActiveOK(t, row[t].status, tasks[t], loop[t], notices')
    BY <1>4, <1>7, <1>8, <2>1, <2>2 DEF Follows, ActiveOK
  <2>5. EndedOK(t, row[t].status, tasks[t], loop[t], notices')
    BY <1>4, <1>7, <2>2 DEF Follows, EndedOK
  <2> QED
    BY <1>3, <1>5, <2>3, <2>4, <2>5 DEF Follows
<1>10. Follows(s, status, tasks[s], loop[s], notices')
  <2>1. Follows(s, row[s].status, tasks[s], loop[s], notices)
    BY DEF Follow
  <2>2. DraftOK(s, status, loop[s], notices')
    BY <1>6 DEF DraftOK
  <2>3. CASE status \in Active
    <3>1. AllFree(loop[s]) /\ \A i \in 1..l : notices[i].sid # s
      BY <1>4, <1>6, <2>1, <2>3 DEF Follows, DraftOK
    <3>2. \A i \in 1..l : ~StartsIt(notices'[i], s) /\ ~StopsIt(notices'[i], s)
      BY <1>4, <3>1 DEF StartsIt, StopsIt
    <3>3. StartsIt(n, s) /\ ~StopsIt(n, s)
      BY <1>2, <2>3 DEF StartsIt, StopsIt, Starts
    <3>4. StartOK(s, status, loop[s], notices')
      BY <1>2, <1>4, <1>8, <2>3, <3>1, <3>2, <3>3 DEF StartOK
    <3>5. \A k \in Slots : ~loop[s][k].cancelled
      BY <3>1 DEF AllFree, Table, Vacant, At
    <3>6. ActiveOK(s, status, tasks[s], loop[s], notices')
      BY <1>4, <1>8, <3>2, <3>3, <3>5 DEF ActiveOK
    <3> QED
      BY <2>2, <2>3, <3>4, <3>6 DEF Follows, EndedOK
  <2>4. CASE status \notin Active
    <3>1. StopsIt(n, s) /\ ~StartsIt(n, s)
      BY <1>2, <2>4 DEF StartsIt, StopsIt, Starts
    <3>2. StartOK(s, status, loop[s], notices')
      BY <1>4, <1>7, <1>8, <2>1, <2>4, <3>1 DEF Follows, StartOK
    <3>3. ActiveOK(s, status, tasks[s], loop[s], notices') /\ EndedOK(s, status, tasks[s], loop[s], notices')
      BY <1>4, <1>8, <2>4, <3>1 DEF ActiveOK, EndedOK
    <3> QED
      BY <2>2, <3>2, <3>3 DEF Follows
  <2> QED
    BY <2>3, <2>4
<1>11. \A i \in DOMAIN notices' : notices'[i].kind = "status"
  BY <1>2, <1>4, <1>8 DEF Follow
<1> QED
  BY <1>3, <1>5, <1>9, <1>10, <1>11 DEF Follow


\* The notice of another strategy goes.
LEMMA FollowsTail ==
  ASSUME NEW s, NEW st, NEW tk, NEW l, NEW q, Follows(s, st, tk, l, q),
         NEW n \in Nat \ {0}, DOMAIN q = 1..n, ~StartsIt(q[1], s), ~StopsIt(q[1], s),
         NEW q2, DOMAIN q2 = 1..(n - 1), \A i \in 1..(n - 1) : q2[i] = q[i + 1]
  PROVE  Follows(s, st, tk, l, q2)
<1>1. \A i \in 1..(n - 1) : i + 1 \in 1..n
  OBVIOUS
<1>2. ASSUME NEW j \in 1..n, StartsIt(q[j], s) \/ StopsIt(q[j], s)
      PROVE  j - 1 \in 1..(n - 1) /\ q2[j - 1] = q[j]
  <2>1. j # 1
    BY <1>2
  <2> QED
    BY <2>1
<1>3. ASSUME NEW i \in 1..(n - 1), StartsIt(q2[i], s)
      PROVE  /\ AllFree(l)
             /\ \A j \in 1..(n - 1) : StartsIt(q2[j], s) => i = j
             /\ IF st \in Active THEN q2[i].status = st
                                 ELSE \E j \in 1..(n - 1) : j > i /\ StopsIt(q2[j], s)
  <2>1. /\ AllFree(l)
        /\ \A j \in 1..n : StartsIt(q[j], s) => i + 1 = j
        /\ IF st \in Active THEN q[i + 1].status = st
                            ELSE \E j \in 1..n : j > i + 1 /\ StopsIt(q[j], s)
    BY <1>1, <1>3 DEF Follows, StartOK
  <2>2. ASSUME NEW j \in 1..n, j > i + 1, StopsIt(q[j], s)
        PROVE  \E m \in 1..(n - 1) : m > i /\ StopsIt(q2[m], s)
    <3>1. j - 1 \in 1..(n - 1) /\ q2[j - 1] = q[j] /\ j - 1 > i
      BY <1>2, <2>2
    <3> QED
      BY <2>2, <3>1
  <2>3. \A j \in 1..(n - 1) : StartsIt(q2[j], s) => i + 1 = j + 1
    BY <1>1, <2>1
  <2> QED
    BY <2>1, <2>2, <2>3
<1>4. StartOK(s, st, l, q2)
  BY <1>3 DEF StartOK
<1>5. DraftOK(s, st, l, q2)
  BY <1>1 DEF Follows, DraftOK
<1>6. ActiveOK(s, st, tk, l, q2)
  BY <1>1, <1>2 DEF Follows, ActiveOK
<1>7. EndedOK(s, st, tk, l, q2)
  BY <1>1, <1>2 DEF Follows, EndedOK
<1> QED
  BY <1>4, <1>5, <1>6, <1>7 DEF Follows

\* The notice at the head is carried out.
LEMMA NotifyFollow ==
  ASSUME TypeOK, Table, Follow, Notify
  PROVE  Follow'
<1> USE ExecutorAssumption
<1> DEFINE l == Len(notices)
<1>1. /\ notices \in Seq(Notices) /\ notices # <<>> /\ notices' = Tail(notices) /\ row' = row
  BY DEF Notify, TypeOK
<1>2. /\ l \in Nat \ {0} /\ DOMAIN notices = 1..l /\ DOMAIN notices' = 1..(l - 1)
      /\ \A i \in 1..(l - 1) : i + 1 \in 1..l /\ notices'[i] = notices[i + 1]
      /\ Head(notices) = notices[1] /\ 1 \in 1..l
  BY <1>1
<1>3. PICK n \in Notices : n = notices[1]
  BY <1>1, <1>2
<1>4. n.kind = "status" /\ n.sid \in Strategies
  BY <1>2, <1>3 DEF Follow, Notices
<1>5. PICK s \in Strategies : s = n.sid
  BY <1>4
<1>6. NotifyStatus(s, n.status)
  BY <1>2, <1>3, <1>4, <1>5 DEF Notify
<1>7. /\ loop \in [Strategies -> [Slots -> Tasks]] /\ tasks \in [Strategies -> Slots \cup {None}]
  BY DEF TypeOK
<1>8. Follows(s, row[s].status, tasks[s], loop[s], notices) /\ row[s].status # "draft"
  BY <1>2, <1>3, <1>5 DEF Follow, Follows, DraftOK
<1>9. ASSUME NEW j \in 1..l, j > 1
      PROVE  j - 1 \in 1..(l - 1) /\ notices'[j - 1] = notices[j]
  BY <1>2, <1>9
<1>10. ASSUME Follows(s, row[s].status, tasks'[s], loop'[s], notices'),
              \A t \in Strategies \ {s} : tasks'[t] = tasks[t] /\ loop'[t] = loop[t]
       PROVE  Follow'
  <2>1. ASSUME NEW t \in Strategies \ {s}
        PROVE  Follows(t, row[t].status, tasks[t], loop[t], notices')
    <3>1. ~StartsIt(notices[1], t) /\ ~StopsIt(notices[1], t)
      BY <1>3, <1>5 DEF StartsIt, StopsIt
    <3> QED
      BY <1>2, <3>1, FollowsTail DEF Follow
  <2> QED
    BY <1>1, <1>2, <1>10, <2>1 DEF Follow
<1>11. CASE Starts(n.status)
  <2>1. StartsIt(notices[1], s)
    BY <1>3, <1>4, <1>5, <1>11 DEF StartsIt
  <2>2. /\ AllFree(loop[s])
        /\ \A j \in 1..l : StartsIt(notices[j], s) => 1 = j
        /\ IF row[s].status \in Active THEN n.status = row[s].status
                                      ELSE \E j \in 1..l : j > 1 /\ StopsIt(notices[j], s)
    BY <1>2, <1>3, <1>8, <2>1 DEF Follows, StartOK
  <2>3. tasks[s] = None /\ \A k \in Slots : ~loop[s][k].cancelled
    BY <1>7, <2>2 DEF AllFree, Table, TaskTableExact, Vacant, At
  <2>4. PICK k \in Slots :
          loop' = [loop EXCEPT ![s][k] = NewTask(n.status)] /\ tasks' = [tasks EXCEPT ![s] = k]
    BY <1>6, <1>11, <2>3 DEF NotifyStatus
  <2>5. PICK u : u = NewTask(n.status)
    OBVIOUS
  <2>6. u.pc = "sleep" /\ u.mode = n.status /\ ~u.cancelled
    BY <2>5 DEF NewTask, FreeTask
  <2>7. loop' = [loop EXCEPT ![s] = [loop[s] EXCEPT ![k] = u]]
    BY <2>4, <2>5
  <2>8. /\ loop'[s][k] = u /\ \A j \in Slots \ {k} : loop'[s][j] = loop[s][j]
        /\ tasks'[s] = k
        /\ \A t \in Strategies \ {s} : loop'[t] = loop[t] /\ tasks'[t] = tasks[t]
    BY <1>7, <2>4, <2>7
  <2>9. \A i \in 1..(l - 1) : ~StartsIt(notices'[i], s)
    <3>1. ASSUME NEW i \in 1..(l - 1), StartsIt(notices'[i], s)
          PROVE  FALSE
      <4>1. 1 = i + 1
        BY <1>2, <2>2, <3>1
      <4> QED
        BY <4>1
    <3> QED
      BY <3>1
  <2>10. StartOK(s, row[s].status, loop'[s], notices')
    BY <1>2, <2>9 DEF StartOK
  <2>11. DraftOK(s, row[s].status, loop'[s], notices')
    BY <1>8 DEF DraftOK
  <2>12. ActiveOK(s, row[s].status, tasks'[s], loop'[s], notices')
    BY <1>2, <1>8, <2>2, <2>3, <2>6, <2>8 DEF Follows, ActiveOK, Leaving
  <2>13. EndedOK(s, row[s].status, tasks'[s], loop'[s], notices')
    BY <1>2, <1>9, <2>2 DEF EndedOK
  <2> QED
    BY <1>10, <2>8, <2>10, <2>11, <2>12, <2>13 DEF Follows
<1>12. CASE ~Starts(n.status)
  <2>1. StopsIt(notices[1], s)
    BY <1>3, <1>4, <1>5, <1>12 DEF StopsIt
  <2>2. row[s].status \notin Active
    BY <1>2, <1>8, <2>1 DEF Follows, ActiveOK
  <2>3. /\ loop' = IF tasks[s] = None THEN loop ELSE Cancelled(s)
        /\ tasks' = [tasks EXCEPT ![s] = None]
    BY <1>6, <1>12 DEF NotifyStatus
  <2>4. tasks'[s] = None /\ \A t \in Strategies \ {s} : tasks'[t] = tasks[t]
    BY <1>7, <2>3
  <2>5. \A t \in Strategies \ {s} : loop'[t] = loop[t]
    BY <1>7, <2>3 DEF Cancelled
  <2>6. \A k \in Slots : loop'[s][k].pc = loop[s][k].pc
    BY <2>3, CancelFacts
  <2>7. StartOK(s, row[s].status, loop'[s], notices')
    <3>1. ASSUME NEW i \in 1..(l - 1), StartsIt(notices'[i], s)
          PROVE  /\ AllFree(loop[s])
                 /\ \A j \in 1..(l - 1) : StartsIt(notices'[j], s) => i + 1 = j + 1
                 /\ \E j \in 1..l : j > i + 1 /\ StopsIt(notices[j], s)
      BY <1>2, <1>8, <2>2, <3>1 DEF Follows, StartOK
    <3>2. ASSUME NEW i \in 1..(l - 1), NEW j \in 1..l, j > i + 1, StopsIt(notices[j], s)
          PROVE  \E m \in 1..(l - 1) : m > i /\ StopsIt(notices'[m], s)
      <4>1. j - 1 \in 1..(l - 1) /\ notices'[j - 1] = notices[j] /\ j - 1 > i
        BY <1>2, <1>9, <3>2
      <4> QED
        BY <3>2, <4>1
    <3>3. AllFree(loop[s]) => AllFree(loop'[s])
      BY <2>6 DEF AllFree
    <3>4. \A i, j \in 1..(l - 1) : i + 1 = j + 1 => i = j
      BY <1>2
    <3>5. ASSUME NEW i \in 1..(l - 1), StartsIt(notices'[i], s)
          PROVE  /\ AllFree(loop'[s])
                 /\ \A j \in 1..(l - 1) : StartsIt(notices'[j], s) => i = j
                 /\ \E j \in 1..(l - 1) : j > i /\ StopsIt(notices'[j], s)
      <4>1. AllFree(loop'[s])
        BY <3>1, <3>3, <3>5
      <4>2. \A j \in 1..(l - 1) : StartsIt(notices'[j], s) => i = j
        BY <3>1, <3>4, <3>5
      <4>3. PICK j \in 1..l : j > i + 1 /\ StopsIt(notices[j], s)
        BY <3>1, <3>5
      <4>4. \E m \in 1..(l - 1) : m > i /\ StopsIt(notices'[m], s)
        BY <3>2, <4>3
      <4> QED
        BY <4>1, <4>2, <4>4
    <3> QED
      BY <1>2, <2>2, <3>5 DEF StartOK
  <2> QED
    BY <1>8, <1>10, <2>2, <2>4, <2>5, <2>7 DEF Follows, DraftOK, ActiveOK, EndedOK
<1> QED
  BY <1>11, <1>12

\* A boot launches the active strategies, and forgets every notice.
LEMMA RestartFollow ==
  ASSUME TypeOK, Restart
  PROVE  Follow'
<1> USE ExecutorAssumption
<1>1. PICK slot \in [Strategies -> Slots] :
        /\ tasks' = [s \in Strategies |-> IF Starts(row[s].status) THEN slot[s] ELSE None]
        /\ loop' = [s \in Strategies |-> [k \in Slots |->
                      IF Starts(row[s].status) /\ k = slot[s]
                      THEN NewTask(row[s].status) ELSE FreeTask]]
  BY DEF Restart
<1>2. row' = row /\ notices' = <<>> /\ DOMAIN notices' = {}
  BY DEF Restart
<1>3. ASSUME NEW s \in Strategies
      PROVE  Follows(s, row[s].status, tasks'[s], loop'[s], notices')
  <2>1. \A st : /\ NewTask(st).pc = "sleep" /\ NewTask(st).mode = st /\ ~NewTask(st).cancelled
                /\ FreeTask.pc = "free" /\ ~FreeTask.cancelled
    BY DEF NewTask, FreeTask
  <2>2. StartOK(s, row[s].status, loop'[s], notices')
    BY <1>2 DEF StartOK
  <2>3. CASE Starts(row[s].status)
    <3>1. tasks'[s] = slot[s] /\ tasks'[s] # None
      BY <1>1, <2>3
    <3>2. \A k \in Slots : loop'[s][k] = IF k = slot[s] THEN NewTask(row[s].status) ELSE FreeTask
      BY <1>1, <2>3
    <3>3. /\ \A k \in Slots : ~loop'[s][k].cancelled
          /\ loop'[s][slot[s]].pc = "sleep" /\ loop'[s][slot[s]].mode = row[s].status
      BY <2>1, <3>2
    <3>4. ActiveOK(s, row[s].status, tasks'[s], loop'[s], notices')
      BY <1>2, <3>1, <3>3 DEF ActiveOK, Leaving
    <3> QED
      BY <2>2, <2>3, <3>4 DEF Follows, DraftOK, EndedOK, Starts, Active
  <2>4. CASE ~Starts(row[s].status)
    <3>1. tasks'[s] = None /\ \A k \in Slots : loop'[s][k] = FreeTask
      BY <1>1, <2>4
    <3> QED
      BY <1>2, <2>1, <2>2, <2>4, <3>1 DEF Follows, DraftOK, ActiveOK, EndedOK, AllFree, Starts
  <2> QED
    BY <2>3, <2>4
<1> QED
  BY <1>2, <1>3 DEF Follow

\* What the loops owe the rows is inductive.
LEMMA FollowInductive ==
  ASSUME StartedOnce, TypeOK, Table, Follow, [Next]_vars
  PROVE  Follow'
<1>1. CASE Midnight
  <2>1. UNCHANGED <<row, tasks, notices>>
    BY <1>1 DEF Midnight
  <2>2. ASSUME NEW s \in Strategies, NEW k \in Slots
        PROVE  /\ loop'[s][k].pc = loop[s][k].pc /\ loop'[s][k].mode = loop[s][k].mode
               /\ loop'[s][k].cancelled = loop[s][k].cancelled
               /\ loop'[s][k].c.keep = loop[s][k].c.keep
    <3>1. /\ loop'[s][k] = [loop[s][k] EXCEPT !.c = [loop[s][k].c EXCEPT !.real = 0]]
          /\ loop[s][k] \in Tasks /\ loop[s][k].c \in Cycles
      BY <1>1, CycleTyped DEF Midnight, TypeOK
    <3>2. PICK c : c = [loop[s][k].c EXCEPT !.real = 0]
      OBVIOUS
    <3>3. c.keep = loop[s][k].c.keep
      BY <3>1, <3>2 DEF Cycles
    <3>4. loop'[s][k] = [loop[s][k] EXCEPT !.c = c]
      BY <3>1, <3>2
    <3> QED
      BY <3>1, <3>3, <3>4 DEF Tasks
  <2>3. ASSUME NEW s \in Strategies
        PROVE  Follows(s, row[s].status, tasks[s], loop'[s], notices)
    <3>1. \A k \in Slots : Leaving(loop'[s][k]) <=> Leaving(loop[s][k])
      BY <2>2 DEF Leaving
    <3>2. AllFree(loop'[s]) <=> AllFree(loop[s])
      BY <2>2 DEF AllFree
    <3>3. tasks[s] \in Slots \cup {None} /\ Follows(s, row[s].status, tasks[s], loop[s], notices)
      BY DEF TypeOK, Follow
    <3>4. StartOK(s, row[s].status, loop'[s], notices) /\ DraftOK(s, row[s].status, loop'[s], notices)
      BY <3>2, <3>3 DEF Follows, StartOK, DraftOK
    <3>5. ActiveOK(s, row[s].status, tasks[s], loop'[s], notices)
      BY <2>2, <3>1, <3>3 DEF Follows, ActiveOK
    <3>6. EndedOK(s, row[s].status, tasks[s], loop'[s], notices)
      BY <3>1, <3>3 DEF Follows, EndedOK
    <3> QED
      BY <3>4, <3>5, <3>6 DEF Follows
  <2> QED
    BY <2>1, <2>3 DEF Follow
<1>2. CASE UNCHANGED <<row, tasks, loop, notices>>
  BY <1>2 DEF Follow
<1>3. \A s \in Strategies : ~PatchConfig(s) /\ ~DeleteStrategy(s)
  BY DEF StartedOnce, PatchConfig, DeleteStrategy
<1> QED
  BY <1>1, <1>2, <1>3, StepFollow, PatchFollow, NotifyFollow, RestartFollow DEF Next, vars, NewBar

\* A strategy that is started once, and not reloaded or deleted, has its loop exactly
\* as long as its row is active, and in the mode of the row, whatever stops, halts,
\* errors and restarts come between.
THEOREM LoopsFollowRows ==
  ASSUME StartedOnce
  PROVE  Spec => []LoopMatchesRow
<1>1. Init => Follow
  BY DEF Init, Follow, Follows, StartOK, DraftOK, ActiveOK, EndedOK, AllFree, FreeTask, Active
<1>2. Init => Table
  BY ExecutorAssumption DEF Init, Table, TaskTableExact, Vacant, Solo, Busy, FreeTask, At
<1>3. TypeOK /\ Table /\ Follow => LoopMatchesRow
  <2> SUFFICES ASSUME TypeOK, Table, Follow, NEW s \in Strategies, Quiet(s)
               PROVE  IF row[s].status \in Active
                      THEN tasks[s] # None /\ loop[s][tasks[s]].mode = row[s].status
                      ELSE tasks[s] = None
    BY DEF LoopMatchesRow
  <2>1. Follows(s, row[s].status, tasks[s], loop[s], notices) /\ tasks[s] \in Slots \cup {None}
    BY DEF Follow, TypeOK
  <2>2. \A i \in DOMAIN notices : ~StartsIt(notices[i], s) /\ ~StopsIt(notices[i], s)
    BY DEF Quiet, StartsIt, StopsIt
  <2>3. ASSUME NEW k \in Slots, tasks[s] = k
        PROVE  ~Leaving(loop[s][k])
    BY <2>3 DEF Quiet, Runs, At, Leaving, Table, TaskTableExact
  <2> QED
    BY <2>1, <2>2, <2>3 DEF Follows, ActiveOK, EndedOK
<1>4. TypeOK /\ Table /\ Follow /\ [Next]_vars => Follow'
  BY FollowInductive
<1> QED
  BY <1>1, <1>2, <1>3, <1>4, TableInductive, TypeCorrect, PTL DEF Spec

-----------------------------------------------------------------------------
(***************************************************************************)
(* Errors.  What takes an error from the count is a transaction that is    *)
(* lost: without a failed flush or commit every cycle that is carried to   *)
(* its end commits its outcome.                                            *)
(***************************************************************************)

NothingLost == Enabled \cap {"place", "commit"} = {}

\* No session is unusable.
Usable == \A s \in Strategies, k \in Slots : ~loop[s][k].c.broken

\* A step of a loop that flushes and commits breaks no session.
LEMMA StepUsable ==
  ASSUME NothingLost, TypeOK, Usable, NEW s \in Strategies, NEW k \in Slots, Step(s, k)
  PROVE  Usable'
<1> DEFINE c == loop[s][k].c
<1>0. /\ c \in Cycles /\ ~c.broken /\ loop \in [Strategies -> [Slots -> Tasks]]
      /\ loop[s][k] \in Tasks /\ NoCycle \in Cycles /\ ~NoCycle.broken
  BY CycleTyped, NoCycleTyped DEF TypeOK, Usable, NoCycle
<1>1. ASSUME NEW u, loop' = [loop EXCEPT ![s] = [loop[s] EXCEPT ![k] = u]], ~u.c.broken
      PROVE  Usable'
  <2>1. /\ loop'[s][k] = u
        /\ \A t \in Strategies, j \in Slots : t # s \/ j # k => loop'[t][j] = loop[t][j]
    BY <1>0, <1>1
  <2> QED
    BY <1>1, <2>1 DEF Usable
<1>2. ASSUME NEW stage, NEW d, Goto(s, k, stage, d), ~d.broken
      PROVE  Usable'
  <2>1. PICK u : u = [loop[s][k] EXCEPT !.pc = stage, !.c = d]
    OBVIOUS
  <2>2. u.c = d
    BY <1>0, <2>1 DEF Tasks
  <2>3. loop' = [loop EXCEPT ![s] = [loop[s] EXCEPT ![k] = u]]
    BY <1>2, <2>1 DEF Goto
  <2> QED
    BY <1>1, <1>2, <2>2, <2>3
<1>3. CASE StartCycle(s, k)
  <2>1. \A i : ~[NoCycle EXCEPT !.intent = i].broken
    BY <1>0 DEF Cycles
  <2>2. \/ \E i : Goto(s, k, "read", [NoCycle EXCEPT !.intent = i])
        \/ Goto(s, k, "read", NoCycle)
    BY <1>3 DEF StartCycle
  <2> QED
    BY <1>0, <1>2, <2>1, <2>2
<1>4. CASE ReadAccount(s, k)
  <2>1. PICK stage, plan, eq, p :
          Goto(s, k, stage, [c EXCEPT !.plan = plan, !.equity = eq, !.pos = p])
    BY <1>4 DEF ReadAccount
  <2>2. PICK d : d = [c EXCEPT !.plan = plan, !.equity = eq, !.pos = p]
    OBVIOUS
  <2>3. ~d.broken
    BY <1>0, <2>2 DEF Cycles
  <2> QED
    BY <1>2, <2>1, <2>2, <2>3
<1>5. CASE ReadFails(s, k) \/ NoAdapter(s, k)
  <2>1. Goto(s, k, "settle", [c EXCEPT !.errored = TRUE])
    BY <1>5 DEF ReadFails, NoAdapter
  <2>2. PICK d : d = [c EXCEPT !.errored = TRUE]
    OBVIOUS
  <2>3. ~d.broken
    BY <1>0, <2>2 DEF Cycles
  <2> QED
    BY <1>2, <2>1, <2>2, <2>3
<1>6. CASE CloseFills(s, k)
  <2>1. PICK stage, plan, f, r :
          Goto(s, k, stage, [c EXCEPT !.plan = plan, !.pos = Flat, !.filled = f, !.real = r,
                                      !.wrote = TRUE])
    BY <1>0, <1>6 DEF CloseFills, Cycles
  <2>2. PICK d : d = [c EXCEPT !.plan = plan, !.pos = Flat, !.filled = f, !.real = r, !.wrote = TRUE]
    OBVIOUS
  <2>3. ~d.broken
    BY <1>0, <2>2 DEF Cycles
  <2> QED
    BY <1>2, <2>1, <2>2, <2>3
<1>7. CASE OpenFills(s, k)
  <2>1. PICK p, f :
          Goto(s, k, "settle", [c EXCEPT !.plan = NoPlan, !.pos = p, !.filled = f, !.wrote = TRUE])
    BY <1>0, <1>7 DEF OpenFills, Cycles
  <2>2. PICK d : d = [c EXCEPT !.plan = NoPlan, !.pos = p, !.filled = f, !.wrote = TRUE]
    OBVIOUS
  <2>3. ~d.broken
    BY <1>0, <2>2 DEF Cycles
  <2> QED
    BY <1>2, <2>1, <2>2, <2>3
<1>8. CASE OpenRejected(s, k)
  <2>1. PICK h : Goto(s, k, "settle", [c EXCEPT !.plan = NoPlan, !.halted = h])
    BY <1>8 DEF OpenRejected
  <2>2. PICK d : d = [c EXCEPT !.plan = NoPlan, !.halted = h]
    OBVIOUS
  <2>3. ~d.broken
    BY <1>0, <2>2 DEF Cycles
  <2> QED
    BY <1>2, <2>1, <2>2, <2>3
<1>9. ~OrderFails(s, k)
  BY <1>0 DEF OrderFails, NothingLost
<1>10. CASE Commit(s, k)
  <2>1. PICK keep : Goto(s, k, "broadcast", [c EXCEPT !.keep = keep])
    BY <1>10 DEF Commit
  <2>2. PICK d : d = [c EXCEPT !.keep = keep]
    OBVIOUS
  <2>3. ~d.broken
    BY <1>0, <2>2 DEF Cycles
  <2> QED
    BY <1>2, <2>1, <2>2, <2>3
<1>11. CASE CycleLost(s, k)
  BY <1>0, <1>2, <1>11 DEF CycleLost
<1>12. CASE Finish(s, k) \/ Aborted(s, k)
  <2>1. FreeTask.c = NoCycle
    BY DEF FreeTask
  <2>2. \/ Goto(s, k, "sleep", NoCycle)
        \/ loop' = [loop EXCEPT ![s] = [loop[s] EXCEPT ![k] = FreeTask]]
    BY <1>12 DEF Finish, Aborted
  <2> QED
    BY <1>0, <1>1, <1>2, <2>1, <2>2
<1> QED
  BY <1>3, <1>4, <1>5, <1>6, <1>7, <1>8, <1>9, <1>10, <1>11, <1>12 DEF Step

\* So does nothing else.
LEMMA UsableInductive ==
  ASSUME NothingLost, TypeOK, Usable, [Next]_vars
  PROVE  Usable'
<1>1. ~NoCycle.broken /\ FreeTask.c = NoCycle /\ \A st : NewTask(st).c = NoCycle
  BY NewTaskFacts DEF NoCycle, FreeTask
<1>2. CASE Notify
  <2>1. ASSUME NEW t \in Strategies, NEW j \in Slots
        PROVE  loop'[t][j].c = loop[t][j].c \/ loop'[t][j].c = NoCycle
    BY <1>2, NotifyShape DEF Launched, Stopped, Dropped
  <2> QED
    BY <1>1, <2>1 DEF Usable
<1>3. CASE Restart
  <2>1. PICK slot \in [Strategies -> Slots] :
          loop' = [s \in Strategies |-> [k \in Slots |->
                    IF Starts(row[s].status) /\ k = slot[s]
                    THEN NewTask(row[s].status) ELSE FreeTask]]
    BY <1>3 DEF Restart
  <2>2. \A t \in Strategies, j \in Slots : loop'[t][j].c = NoCycle
    BY <1>1, <2>1
  <2> QED
    BY <1>1, <2>2 DEF Usable
<1>4. CASE Midnight
  <2>1. ASSUME NEW s \in Strategies, NEW k \in Slots
        PROVE  loop'[s][k].c.broken = loop[s][k].c.broken
    <3>1. /\ loop'[s][k] = [loop[s][k] EXCEPT !.c = [loop[s][k].c EXCEPT !.real = 0]]
          /\ loop[s][k] \in Tasks /\ loop[s][k].c \in Cycles
      BY <1>4, CycleTyped DEF Midnight, TypeOK
    <3>2. PICK c : c = [loop[s][k].c EXCEPT !.real = 0]
      OBVIOUS
    <3>3. c.broken = loop[s][k].c.broken
      BY <3>1, <3>2 DEF Cycles
    <3>4. loop'[s][k].c = c
      BY <3>1, <3>2 DEF Tasks
    <3> QED
      BY <3>3, <3>4
  <2> QED
    BY <2>1 DEF Usable
<1>5. CASE UNCHANGED loop
  BY <1>5 DEF Usable
<1> QED
  BY <1>2, <1>3, <1>4, <1>5, StepUsable
     DEF Next, vars, PatchStatus, PatchConfig, DeleteStrategy, NewBar

\* While no flush and no commit fails, every error outcome advances the count that
\* halts the strategy, or finds it at the limit: no cancellation, reload, request,
\* restart or other loop comes between an outcome and its record.
THEOREM ErrorsAreCounted ==
  ASSUME NothingLost
  PROVE  Spec => ErrorsAdvance
<1> DEFINE Counted(s, k) ==
             Runs(s, k, "settle") /\ loop'[s][k].pc # "settle" /\ loop[s][k].c.errored
             /\ row[s].status # "gone" /\ ~Restart
             => row'[s].errors > row[s].errors \/ row'[s].errors = MaxErrors
<1>1. ASSUME TypeOK, Table, Usable, [Next]_vars, NEW s \in Strategies, NEW k \in Slots
      PROVE  Counted(s, k)
  <2> SUFFICES ASSUME Runs(s, k, "settle"), loop'[s][k].pc # "settle", loop[s][k].c.errored,
                      row[s].status # "gone", ~Restart
               PROVE  row'[s].errors > row[s].errors \/ row'[s].errors = MaxErrors
    OBVIOUS
  <2>0. /\ loop[s][k].pc = "settle" /\ ~loop[s][k].cancelled /\ ~loop[s][k].c.broken
        /\ loop \in [Strategies -> [Slots -> Tasks]]
        /\ row[s].errors \in 0..MaxErrors /\ MaxErrors \in Nat
    BY <1>1, ExecutorAssumption DEF Runs, At, Usable, TypeOK, Rows
  <2>1. CASE Step(s, k)
    <3>1. Commit(s, k)
      BY <2>0, <2>1 DEF Step, StartCycle, ReadAccount, ReadFails, NoAdapter, CloseFills, OpenFills,
            OpenRejected, OrderFails, ClosePending, OpenPending, CycleLost, Unusable, Orphan,
            NothingLost, Finish, Aborted, Runs, At
    <3>2. row'[s].errors = ErrorsAfter(row[s].errors, loop[s][k].c)
      BY <1>1, <3>1, CommitFacts
    <3> QED
      BY <2>0, <3>2 DEF ErrorsAfter
  <2>2. ASSUME NEW t \in Strategies, NEW j \in Slots, Step(t, j), t # s \/ j # k
        PROVE  loop'[s][k] = loop[s][k]
    <3>1. Moved(t, j) \/ Ended(t, j)
      BY <1>1, <2>2, StepsAreBusy, StepShape DEF Table
    <3> QED
      BY <2>0, <2>2, <3>1 DEF Moved, Ended
  <2>3. CASE Notify
    BY <1>1, <2>0, <2>3, NotifyShape DEF Launched, Stopped, Dropped, At
  <2>4. CASE Midnight
    <3>1. loop'[s][k] = [loop[s][k] EXCEPT !.c = [loop[s][k].c EXCEPT !.real = 0]]
      BY <2>4 DEF Midnight
    <3> QED
      BY <2>0, <3>1 DEF Tasks
  <2>5. CASE UNCHANGED loop
    BY <2>0, <2>5
  <2> QED
    BY <1>1, <2>0, <2>1, <2>2, <2>3, <2>4, <2>5
       DEF Next, vars, PatchStatus, PatchConfig, DeleteStrategy, NewBar
<1>2. TypeOK /\ Table /\ Usable /\ [Next]_vars =>
        [\A s \in Strategies, k \in Slots : Counted(s, k)]_vars
  BY <1>1
<1>3. TypeOK /\ Usable /\ [Next]_vars => Usable'
  BY UsableInductive
<1>4. Init => Usable /\ Table
  BY ExecutorAssumption DEF Init, Usable, Table, TaskTableExact, Vacant, Solo, Busy, FreeTask,
                            NoCycle, At
<1>5. [\A s \in Strategies, k \in Slots : Counted(s, k)]_vars =>
        [\A s \in Strategies, k \in Slots :
           LET ends == Runs(s, k, "settle") /\ loop'[s][k].pc # "settle"
           IN  ends /\ loop[s][k].c.errored /\ row[s].status # "gone" /\ ~Restart
               => row'[s].errors > row[s].errors \/ row'[s].errors = MaxErrors]_vars
  OBVIOUS
<1> QED
  BY <1>2, <1>3, <1>4, <1>5, TableInductive, TypeCorrect, PTL DEF Spec, ErrorsAdvance

-----------------------------------------------------------------------------
(***************************************************************************)
(* Halts and rows.  The RiskManager's halt is not in the database until    *)
(* the cycle that took it commits.  What loses it on the way is a lost     *)
(* transaction, a reload that cancels the cycle, and a user who starts the *)
(* strategy again while memory still knows the halt.                       *)
(***************************************************************************)

HaltsCommitted ==
  /\ NothingLost /\ "config" \notin Enabled
  /\ \A req \in Requests : /\ req[2] # "draft"
                           /\ req[2] \in Active => req[1] \in {"draft"} \cup Active

\* Of the status st of s, its risk state rk, its tasks l and the notices q: a draft has
\* none of them; as long as the row is active no task was asked to end, nor is one about
\* to be, and a halt is with the cycle that will commit it.
Untouched(s, rk, l, q) == rk = None /\ AllFree(l) /\ \A i \in DOMAIN q : q[i].sid # s
Carried(s, rk, l, q) ==
  /\ \A i \in DOMAIN q : q[i].sid = s => Starts(q[i].status)
  /\ \A k \in Slots : ~l[k].cancelled
  /\ rk # None /\ rk.halted => \E k \in Slots : l[k].pc = "settle" /\ l[k].c.halted
HaltOK(s, st, rk, l, q) ==
  /\ st = "draft" => Untouched(s, rk, l, q)
  /\ st \in Active => Carried(s, rk, l, q)

HaltsHeld ==
  /\ \A i \in DOMAIN notices : notices[i].kind = "status"
  /\ \A s \in Strategies : HaltOK(s, row[s].status, risk[s], loop[s], notices)

\* A reading, a close and an open take no halt.
LEMMA RulesKeepCalm ==
  ASSUME NEW st \in Risks \cup {None}, st # None => ~st.halted
  PROVE  /\ \A eq : ~ObserveEquity(st # None, st, eq).halted
         /\ st # None => ~AfterOpen(st).halted /\ \A pnl : ~AfterClose(st, pnl).halted
<1>1. ASSUME st # None
      PROVE  /\ \A n : ~[st EXCEPT !.peak = n].halted
             /\ \A n : ~[st EXCEPT !.open = n].halted
             /\ \A n, d : ~[st EXCEPT !.open = n, !.daily = d].halted
  BY <1>1 DEF Risks
<1>2. \A eq : ~FreshState(eq).halted
  BY DEF FreshState
<1>3. \A eq : ~ObserveEquity(st # None, st, eq).halted
  BY <1>1, <1>2 DEF ObserveEquity
<1>4. st # None => ~AfterOpen(st).halted /\ \A pnl : ~AfterClose(st, pnl).halted
  BY <1>1 DEF AfterOpen, AfterClose
<1> QED
  BY <1>3, <1>4

\* The halt of an active strategy is with the cycle that takes the step, and that step
\* is its commit.
LEMMA HaltIsSettled ==
  ASSUME TypeOK, Table, NEW s \in Strategies, NEW k \in Slots, Step(s, k),
         Carried(s, risk[s], loop[s], notices), Halted(s)
  PROVE  At(s, k, "settle") /\ loop[s][k].c.halted
<1>1. PICK j \in Slots : loop[s][j].pc = "settle" /\ loop[s][j].c.halted
  BY DEF Carried, Halted
<1>2. loop[s][k].pc \in Stages /\ ~At(s, k, "free") /\ ~loop[s][k].cancelled
  BY StepsAreBusy DEF TypeOK, Tasks, Table, Carried
<1>3. CASE k = j
  BY <1>1, <1>3 DEF At
<1>4. CASE k # j
  <2>1. loop[s][k].pc \notin Busy
    BY <1>1, <1>4 DEF Table, Solo, Busy
  <2>2. At(s, k, "sleep")
    BY <1>2, <2>1 DEF Stages, Busy, At
  <2>3. StartCycle(s, k)
    BY <1>2, <2>2 DEF Step, ReadAccount, ReadFails, NoAdapter, CloseFills, OpenFills, OpenRejected,
       OrderFails, ClosePending, OpenPending, Commit, CycleLost, Finish, Aborted, Runs, At
  <2> QED
    BY <1>1, <1>4, <2>3 DEF StartCycle, At
<1> QED
  BY <1>3, <1>4

\* A halt that a step takes is in the outcome of its cycle.
LEMMA HaltIsTaken ==
  ASSUME TypeOK, Armed, NEW s \in Strategies, NEW k \in Slots, Step(s, k), ~Halted(s), Halted(s)'
  PROVE  loop'[s][k].pc = "settle" /\ loop'[s][k].c.halted
<1> USE ExecutorAssumption
<1> DEFINE c == loop[s][k].c
<1>0. /\ risk[s] \in Risks \cup {None} /\ (risk[s] # None => ~risk[s].halted)
      /\ risk \in [Strategies -> Risks \cup {None}] /\ c \in Cycles
      /\ loop \in [Strategies -> [Slots -> Tasks]]
  BY CycleTyped DEF TypeOK, Halted
<1>1. risk' # risk
  BY DEF Halted
<1>2. ASSUME NEW st, risk' = [risk EXCEPT ![s] = st], ~st.halted
      PROVE  FALSE
  BY <1>0, <1>2 DEF Halted
<1>3. ~ReadAccount(s, k) /\ ~ReadFails(s, k)
  <2>1. ASSUME NEW eq, risk' = [risk EXCEPT ![s] = ObserveEquity(risk[s] # None, risk[s], eq)]
        PROVE  FALSE
    <3>1. ~ObserveEquity(risk[s] # None, risk[s], eq).halted
      BY <1>0, RulesKeepCalm
    <3>2. PICK st : st = ObserveEquity(risk[s] # None, risk[s], eq)
      OBVIOUS
    <3> QED
      BY <1>2, <2>1, <3>1, <3>2
  <2>2. ASSUME ReadAccount(s, k)
        PROVE  \E eq : risk' = [risk EXCEPT ![s] = ObserveEquity(risk[s] # None, risk[s], eq)]
    BY <1>0, <2>2 DEF ReadAccount
  <2>3. ASSUME ReadFails(s, k)
        PROVE  \E eq : risk' = [risk EXCEPT ![s] = ObserveEquity(risk[s] # None, risk[s], eq)]
    BY <1>0, <1>1, <2>3 DEF ReadFails
  <2> QED
    BY <2>1, <2>2, <2>3
<1>4. ~CloseFills(s, k) /\ ~OpenFills(s, k)
  <2>1. ASSUME CloseFills(s, k) \/ OpenFills(s, k)
        PROVE  risk[s] \in Risks /\ risk[s] # None
    BY <2>1, NoneAssumption DEF CloseFills, OpenFills, ClosePending, OpenPending, Runs, Armed
  <2>2. ASSUME NEW pnl, risk[s] # None, risk' = [risk EXCEPT ![s] = AfterClose(risk[s], pnl)]
        PROVE  FALSE
    <3>1. ~AfterClose(risk[s], pnl).halted
      BY <1>0, <2>2, RulesKeepCalm
    <3>2. PICK st : st = AfterClose(risk[s], pnl)
      OBVIOUS
    <3> QED
      BY <1>2, <2>2, <3>1, <3>2
  <2>3. ASSUME risk[s] # None, risk' = [risk EXCEPT ![s] = AfterOpen(risk[s])]
        PROVE  FALSE
    <3>1. ~AfterOpen(risk[s]).halted
      BY <1>0, <2>3, RulesKeepCalm
    <3>2. PICK st : st = AfterOpen(risk[s])
      OBVIOUS
    <3> QED
      BY <1>2, <2>3, <3>1, <3>2
  <2>4. ASSUME CloseFills(s, k)
        PROVE  \E pnl : risk' = [risk EXCEPT ![s] = AfterClose(risk[s], pnl)]
    BY <1>0, <2>4 DEF CloseFills
  <2>5. ASSUME OpenFills(s, k)
        PROVE  risk' = [risk EXCEPT ![s] = AfterOpen(risk[s])]
    BY <1>0, <2>5 DEF OpenFills
  <2> QED
    BY <2>1, <2>2, <2>3, <2>4, <2>5
<1>5. OpenRejected(s, k)
  BY <1>1, <1>3, <1>4
     DEF Step, StartCycle, NoAdapter, OrderFails, Commit, CycleLost, Finish, Aborted
<1>6. PICK rule : /\ risk' = [risk EXCEPT ![s] = AfterVeto(risk[s], rule, RiskCfg)]
                  /\ Goto(s, k, "settle", [c EXCEPT !.plan = NoPlan, !.halted = Halts(rule, RiskCfg)])
  BY <1>0, <1>1, <1>5 DEF OpenRejected
<1>7. risk[s] \in Risks /\ risk[s] # None
  BY <1>5, NoneAssumption DEF OpenRejected, OpenPending, Runs, Armed
<1>8. Halts(rule, RiskCfg)
  <2>1. SUFFICES ASSUME ~Halts(rule, RiskCfg) PROVE FALSE
    OBVIOUS
  <2>2. AfterVeto(risk[s], rule, RiskCfg) = risk[s]
    BY <2>1 DEF AfterVeto
  <2>3. PICK st : st = AfterVeto(risk[s], rule, RiskCfg)
    OBVIOUS
  <2> QED
    BY <1>0, <1>2, <1>6, <1>7, <2>2, <2>3
<1>9. PICK d : d = [c EXCEPT !.plan = NoPlan, !.halted = TRUE]
  OBVIOUS
<1>10. d \in Cycles /\ d.halted
  <2>1. d \in Cycles
    BY <1>0, <1>9, CycleSteps, NoPlanTyped
  <2> QED
    BY <1>0, <1>9, <2>1 DEF Cycles
<1>11. Goto(s, k, "settle", d)
  <2>1. Halts(rule, RiskCfg) = TRUE
    BY <1>8 DEF Halts
  <2> QED
    BY <1>6, <1>9, <2>1
<1> QED
  BY <1>0, <1>10, <1>11, GotoFacts DEF Stages

\* What a step of a loop of s leaves of its halt.
LEMMA StepHalts ==
  ASSUME NothingLost, TypeOK, Armed, Table, Usable, HaltsHeld,
         NEW s \in Strategies, NEW k \in Slots, Step(s, k)
  PROVE  HaltsHeld'
<1> USE ExecutorAssumption
<1>0. /\ notices' = notices /\ ~At(s, k, "free")
      /\ loop \in [Strategies -> [Slots -> Tasks]]
      /\ HaltOK(s, row[s].status, risk[s], loop[s], notices)
  BY StepKinds DEF TypeOK, HaltsHeld
<1>1. row[s].status # "draft"
  BY <1>0 DEF HaltOK, Untouched, AllFree, At
<1>2. /\ row'[s].status \in {row[s].status, "halted"}
      /\ \A t \in Strategies \ {s} : row'[t] = row[t]
  <2>1. CASE Commit(s, k)
    BY <2>1, CommitFacts
  <2>2. CASE row' = row
    BY <2>2
  <2> QED
    BY <2>1, <2>2, StepKinds
<1>3. Moved(s, k) \/ Ended(s, k)
  BY <1>0, StepShape
<1>4. ASSUME NEW t \in Strategies \ {s}
      PROVE  HaltOK(t, row'[t].status, risk'[t], loop'[t], notices')
  <2>1. risk'[t] = risk[t]
    BY <1>4, StepHardens DEF Hardened
  <2>2. \A j \in Slots : loop'[t][j] = loop[t][j]
    BY <1>0, <1>3 DEF Moved, Ended
  <2>3. HaltOK(t, row[t].status, risk[t], loop[t], notices)
    BY DEF HaltsHeld
  <2> QED
    BY <1>0, <1>2, <2>1, <2>2, <2>3 DEF HaltOK, Untouched, Carried, AllFree
<1>5. ASSUME row'[s].status \in Active
      PROVE  Carried(s, risk'[s], loop'[s], notices')
  <2>1. row[s].status = row'[s].status /\ row[s].status \in Active
    BY <1>2, <1>5 DEF Active
  <2>2. Carried(s, risk[s], loop[s], notices)
    BY <1>0, <2>1 DEF HaltOK
  <2>3. \A j \in Slots : ~loop'[s][j].cancelled
    <3>1. \A j \in Slots : ~loop[s][j].cancelled
      BY <2>2 DEF Carried
    <3>2. ~FreeTask.cancelled
      BY DEF FreeTask
    <3> QED
      BY <1>0, <1>3, <3>1, <3>2 DEF Moved, Ended
  <2>4. ~Halted(s)
    <3>1. SUFFICES ASSUME Halted(s) PROVE FALSE
      OBVIOUS
    <3>2. At(s, k, "settle") /\ loop[s][k].c.halted /\ ~loop[s][k].cancelled
      BY <2>2, <3>1, HaltIsSettled DEF Carried
    <3>3. ~CycleLost(s, k)
      BY <2>1 DEF CycleLost, Unusable, Orphan, Usable, NothingLost, Active
    <3>4. Commit(s, k)
      BY <3>2, <3>3 DEF Step, StartCycle, ReadAccount, ReadFails, NoAdapter, CloseFills, OpenFills,
         OpenRejected, OrderFails, ClosePending, OpenPending, Finish, Aborted, Runs, At
    <3>5. row'[s].status = "halted"
      <4> DEFINE errors == ErrorsAfter(row[s].errors, loop[s][k].c)
                 peak   == IF risk[s] = None THEN row[s].peak ELSE risk[s].peak
      <4>1. row' = [row EXCEPT ![s] = [status |-> "halted", errors |-> errors, peak |-> peak]]
        BY <3>2, <3>4 DEF Commit
      <4>2. PICK r : r = [status |-> "halted", errors |-> errors, peak |-> peak]
        OBVIOUS
      <4>3. r.status = "halted"
        BY <4>2
      <4> QED
        BY <4>1, <4>2, <4>3 DEF TypeOK
    <3> QED
      BY <1>5, <3>5 DEF Active
  <2>5. Halted(s)' => loop'[s][k].pc = "settle" /\ loop'[s][k].c.halted
    BY <2>4, HaltIsTaken
  <2> QED
    BY <1>0, <2>2, <2>3, <2>5 DEF Carried, Halted
<1>6. HaltOK(s, row'[s].status, risk'[s], loop'[s], notices')
  BY <1>1, <1>2, <1>5 DEF HaltOK
<1>7. \A i \in DOMAIN notices' : notices'[i].kind = "status"
  BY <1>0 DEF HaltsHeld
<1> QED
  BY <1>4, <1>6, <1>7 DEF HaltsHeld

\* A request changes a row, of a draft of which nothing else is known, of an active
\* strategy to another mode, or of one that does not become active.
LEMMA PatchHalts ==
  ASSUME HaltsCommitted, TypeOK, Table, HaltsHeld, NEW s \in Strategies, NEW status \in Statuses,
         PatchStatus(s, status)
  PROVE  HaltsHeld'
<1> DEFINE l == Len(notices)
<1>1. PICK n : n = Notice("status", s, status)
  OBVIOUS
<1>2. n.kind = "status" /\ n.sid = s /\ n.status = status
  BY <1>1 DEF Notice
<1>3. /\ notices \in Seq(Notices) /\ notices' = Append(notices, n) /\ UNCHANGED <<loop, risk>>
      /\ <<row[s].status, status>> \in Requests
  BY <1>1 DEF PatchStatus, TypeOK
<1>4. /\ l \in Nat /\ DOMAIN notices = 1..l /\ DOMAIN notices' = 1..(l + 1)
      /\ \A i \in 1..l : notices'[i] = notices[i]
      /\ notices'[l + 1] = n
      /\ \A i \in 1..(l + 1) : i \in 1..l \/ i = l + 1
  BY <1>3
<1>5. row'[s].status = status /\ \A t \in Strategies \ {s} : row'[t] = row[t]
  <2>1. row' = [row EXCEPT ![s] = [row[s] EXCEPT !.status = status]] /\ row[s] \in Rows
    BY DEF PatchStatus, TypeOK
  <2> QED
    BY <2>1 DEF TypeOK, Rows
<1>6. status # "draft" /\ (status \in Active => row[s].status \in {"draft"} \cup Active)
  BY <1>3 DEF HaltsCommitted
<1>7. ASSUME NEW t \in Strategies \ {s}
      PROVE  HaltOK(t, row'[t].status, risk'[t], loop'[t], notices')
  <2>1. HaltOK(t, row[t].status, risk[t], loop[t], notices)
    BY DEF HaltsHeld
  <2> QED
    BY <1>2, <1>3, <1>4, <1>5, <2>1 DEF HaltOK, Untouched, Carried
<1>8. ASSUME status \in Active
      PROVE  Carried(s, risk[s], loop[s], notices')
  <2>1. HaltOK(s, row[s].status, risk[s], loop[s], notices)
    BY DEF HaltsHeld
  <2>2. CASE row[s].status = "draft"
    <3>1. Untouched(s, risk[s], loop[s], notices)
      BY <2>1, <2>2 DEF HaltOK
    <3>2. \A k \in Slots : ~loop[s][k].cancelled
      BY <3>1 DEF Untouched, AllFree, Table, Vacant, At
    <3> QED
      BY <1>2, <1>4, <1>8, <3>1, <3>2 DEF Untouched, Carried, Starts
  <2>3. CASE row[s].status \in Active
    BY <1>2, <1>4, <1>8, <2>1, <2>3 DEF HaltOK, Carried, Starts
  <2> QED
    BY <1>6, <1>8, <2>2, <2>3
<1>9. HaltOK(s, row'[s].status, risk'[s], loop'[s], notices')
  BY <1>3, <1>5, <1>6, <1>8 DEF HaltOK
<1>10. \A i \in DOMAIN notices' : notices'[i].kind = "status"
  BY <1>2, <1>4 DEF HaltsHeld
<1> QED
  BY <1>7, <1>9, <1>10 DEF HaltsHeld

\* A notice stops only what is not active, and what it starts is not halted.
LEMMA NotifyHalts ==
  ASSUME TypeOK, HaltsHeld, Notify
  PROVE  HaltsHeld'
<1> USE ExecutorAssumption
<1> DEFINE l == Len(notices)
<1>1. /\ notices \in Seq(Notices) /\ notices # <<>> /\ notices' = Tail(notices) /\ row' = row
  BY DEF Notify, TypeOK
<1>2. /\ l \in Nat \ {0} /\ DOMAIN notices = 1..l /\ DOMAIN notices' = 1..(l - 1)
      /\ \A i \in 1..(l - 1) : i + 1 \in 1..l /\ notices'[i] = notices[i + 1]
      /\ Head(notices) = notices[1] /\ 1 \in 1..l
  BY <1>1
<1>3. PICK n \in Notices : n = notices[1]
  BY <1>1, <1>2
<1>4. n.kind = "status" /\ n.sid \in Strategies
  BY <1>2, <1>3 DEF HaltsHeld, Notices
<1>5. PICK s \in Strategies : s = n.sid
  BY <1>4
<1>6. NotifyStatus(s, n.status)
  BY <1>2, <1>3, <1>4, <1>5 DEF Notify
<1>7. /\ loop \in [Strategies -> [Slots -> Tasks]] /\ tasks \in [Strategies -> Slots \cup {None}]
      /\ risk \in [Strategies -> Risks \cup {None}]
      /\ HaltOK(s, row[s].status, risk[s], loop[s], notices)
  BY DEF TypeOK, HaltsHeld
<1>8. row[s].status # "draft"
  BY <1>2, <1>3, <1>5, <1>7 DEF HaltOK, Untouched
<1>9. \A t \in Strategies \ {s} : risk'[t] = risk[t] /\ loop'[t] = loop[t]
  <2>1. CASE Starts(n.status)
    BY <1>6, <1>7, <2>1 DEF NotifyStatus
  <2>2. CASE ~Starts(n.status)
    BY <1>6, <1>7, <2>2 DEF NotifyStatus, Cancelled
  <2> QED
    BY <2>1, <2>2
<1>10. ASSUME NEW t \in Strategies \ {s}
       PROVE  HaltOK(t, row'[t].status, risk'[t], loop'[t], notices')
  <2>1. HaltOK(t, row[t].status, risk[t], loop[t], notices)
    BY DEF HaltsHeld
  <2> QED
    BY <1>1, <1>2, <1>9, <2>1 DEF HaltOK, Untouched, Carried
<1>11. ASSUME row[s].status \in Active
       PROVE  Carried(s, risk'[s], loop'[s], notices')
  <2>1. Carried(s, risk[s], loop[s], notices)
    BY <1>7, <1>11 DEF HaltOK
  <2>2. Starts(n.status)
    BY <1>2, <1>3, <1>5, <2>1 DEF Carried
  <2>3. \A i \in DOMAIN notices' : notices'[i].sid = s => Starts(notices'[i].status)
    BY <1>2, <2>1 DEF Carried
  <2>4. CASE tasks[s] # None
    <3>1. UNCHANGED <<loop, risk>>
      BY <1>6, <2>2, <2>4 DEF NotifyStatus
    <3> QED
      BY <2>1, <2>3, <3>1 DEF Carried
  <2>5. CASE tasks[s] = None
    <3>1. PICK k \in Slots :
            /\ loop' = [loop EXCEPT ![s][k] = NewTask(n.status)]
            /\ risk' = IF risk[s] = None THEN risk ELSE [risk EXCEPT ![s] = Released(risk[s])]
      BY <1>6, <1>7, <2>2, <2>5 DEF NotifyStatus
    <3>2. PICK u : u = NewTask(n.status)
      OBVIOUS
    <3>3. ~u.cancelled /\ loop' = [loop EXCEPT ![s] = [loop[s] EXCEPT ![k] = u]]
      BY <3>1, <3>2 DEF NewTask, FreeTask
    <3>4. \A j \in Slots : ~loop'[s][j].cancelled
      BY <1>7, <2>1, <3>3 DEF Carried
    <3>5. ~(risk'[s] # None /\ risk'[s].halted)
      <4>1. CASE risk[s] = None
        BY <3>1, <4>1
      <4>2. CASE risk[s] # None
        <5>1. risk[s] \in Risks
          BY <1>7, <4>2
        <5>2. PICK st : st = Released(risk[s])
          OBVIOUS
        <5>3. ~st.halted
          BY <5>1, <5>2 DEF Released, Risks
        <5> QED
          BY <1>7, <3>1, <4>2, <5>2, <5>3
      <4> QED
        BY <4>1, <4>2
    <3> QED
      BY <2>3, <3>4, <3>5 DEF Carried
  <2> QED
    BY <2>4, <2>5
<1>12. HaltOK(s, row'[s].status, risk'[s], loop'[s], notices')
  BY <1>1, <1>8, <1>11 DEF HaltOK
<1>13. \A i \in DOMAIN notices' : notices'[i].kind = "status"
  BY <1>2 DEF HaltsHeld
<1> QED
  BY <1>10, <1>12, <1>13 DEF HaltsHeld

\* A boot knows no halt.
LEMMA RestartHalts ==
  ASSUME TypeOK, Restart
  PROVE  HaltsHeld'
<1> USE ExecutorAssumption
<1>1. row' = row /\ notices' = <<>> /\ DOMAIN notices' = {}
  BY DEF Restart
<1>2. PICK slot \in [Strategies -> Slots] :
        loop' = [s \in Strategies |-> [k \in Slots |->
                  IF Starts(row[s].status) /\ k = slot[s] THEN NewTask(row[s].status) ELSE FreeTask]]
  BY DEF Restart
<1>3. /\ FreeTask.pc = "free" /\ ~FreeTask.cancelled /\ \A st : ~NewTask(st).cancelled
      /\ \A s \in Strategies : risk'[s] # None => ~risk'[s].halted
      /\ \A s \in Strategies : row[s].status = "draft" => risk'[s] = None
  <2>1. FreeTask.pc = "free" /\ ~FreeTask.cancelled
    BY DEF FreeTask
  <2>2. \A st : ~NewTask(st).cancelled
    BY DEF NewTask, FreeTask
  <2>3. ASSUME NEW s \in Strategies
        PROVE  risk'[s] # None => ~risk'[s].halted
    BY DEF Restart, SeedState
  <2>4. ASSUME NEW s \in Strategies, row[s].status = "draft"
        PROVE  risk'[s] = None
    BY <2>4 DEF Restart
  <2> QED
    BY <2>1, <2>2, <2>3, <2>4
<1>4. ASSUME NEW s \in Strategies
      PROVE  HaltOK(s, row[s].status, risk'[s], loop'[s], notices')
  <2>1. ~(risk'[s] # None /\ risk'[s].halted) /\ \A k \in Slots : ~loop'[s][k].cancelled
    BY <1>2, <1>3
  <2>2. row[s].status = "draft" => risk'[s] = None /\ \A k \in Slots : loop'[s][k].pc = "free"
    BY <1>2, <1>3 DEF Starts, Active
  <2> QED
    BY <1>1, <2>1, <2>2 DEF HaltOK, Untouched, Carried, AllFree
<1> QED
  BY <1>1, <1>4 DEF HaltsHeld

\* Where a halt is, is inductive.
LEMMA HaltsInductive ==
  ASSUME HaltsCommitted, TypeOK, Armed, Table, Usable, HaltsHeld, [Next]_vars
  PROVE  HaltsHeld'
<1>1. CASE Midnight
  <2>1. UNCHANGED <<row, risk, notices>>
    BY <1>1 DEF Midnight
  <2>2. ASSUME NEW s \in Strategies, NEW k \in Slots
        PROVE  /\ loop'[s][k].pc = loop[s][k].pc
               /\ loop'[s][k].cancelled = loop[s][k].cancelled
               /\ loop'[s][k].c.halted = loop[s][k].c.halted
    <3>1. /\ loop'[s][k] = [loop[s][k] EXCEPT !.c = [loop[s][k].c EXCEPT !.real = 0]]
          /\ loop[s][k] \in Tasks /\ loop[s][k].c \in Cycles
      BY <1>1, CycleTyped DEF Midnight, TypeOK
    <3>2. PICK c : c = [loop[s][k].c EXCEPT !.real = 0]
      OBVIOUS
    <3>3. c.halted = loop[s][k].c.halted
      BY <3>1, <3>2 DEF Cycles
    <3>4. loop'[s][k] = [loop[s][k] EXCEPT !.c = c]
      BY <3>1, <3>2
    <3> QED
      BY <3>1, <3>3, <3>4 DEF Tasks
  <2> QED
    BY <2>1, <2>2 DEF HaltsHeld, HaltOK, Untouched, Carried, AllFree
<1>2. ASSUME NEW s \in Strategies, DeleteStrategy(s)
      PROVE  HaltsHeld'
  <2>1. PICK r : r = [status |-> "gone", errors |-> 0, peak |-> NoPeak]
    OBVIOUS
  <2>2. r.status = "gone"
    BY <2>1
  <2>3. row' = [row EXCEPT ![s] = r] /\ UNCHANGED <<loop, risk, notices>>
    BY <1>2, <2>1 DEF DeleteStrategy
  <2>4. row'[s].status = "gone" /\ \A t \in Strategies \ {s} : row'[t] = row[t]
    BY <2>2, <2>3 DEF TypeOK
  <2>5. \A rk, l, q : HaltOK(s, "gone", rk, l, q)
    BY DEF HaltOK, Active
  <2> QED
    BY <2>3, <2>4, <2>5 DEF HaltsHeld
<1>3. CASE UNCHANGED <<row, risk, loop, notices>>
  BY <1>3 DEF HaltsHeld
<1>4. \A s \in Strategies : ~PatchConfig(s)
  BY DEF HaltsCommitted, PatchConfig
<1>5. NothingLost
  BY DEF HaltsCommitted
<1> QED
  BY <1>1, <1>2, <1>3, <1>4, <1>5, StepHalts, PatchHalts, NotifyHalts, RestartHalts DEF Next, vars, NewBar

\* A drawdown halt is in the row or in the cycle about to commit it, so that no active
\* strategy polls on with every order vetoed: whatever is stopped, archived, deleted or
\* changes between paper and live trading meanwhile, and wherever the process crashes.
THEOREM HaltsReachTheRow ==
  ASSUME HaltsCommitted
  PROVE  Spec => []HaltReachesRow
<1>1. Init => Table /\ Usable /\ HaltsHeld
  <2>1. FreeTask.pc = "free" /\ ~FreeTask.cancelled /\ ~FreeTask.c.broken
    BY DEF FreeTask, NoCycle
  <2>2. ASSUME Init, NEW s \in Strategies
        PROVE  row[s].status = "draft" /\ Untouched(s, risk[s], loop[s], notices)
    <3>1. row[s].status = "draft" /\ risk[s] = None /\ DOMAIN notices = {}
      BY <2>2 DEF Init
    <3>2. AllFree(loop[s])
      BY <2>1, <2>2 DEF Init, AllFree
    <3> QED
      BY <3>1, <3>2 DEF Untouched
  <2>3. Init => HaltsHeld
    BY <2>2 DEF Init, HaltsHeld, HaltOK, Active
  <2> QED
    BY <2>1, <2>3, ExecutorAssumption DEF Init, Table, TaskTableExact, Vacant, Solo, Busy, At, Usable
<1>2. NothingLost
  BY DEF HaltsCommitted
<1>3. TypeOK /\ Usable /\ [Next]_vars => Usable'
  BY <1>2, UsableInductive
<1>4. TypeOK /\ Armed /\ Table /\ Usable /\ HaltsHeld /\ [Next]_vars => HaltsHeld'
  BY HaltsInductive
<1>5. HaltsHeld => HaltReachesRow
  <2> SUFFICES ASSUME HaltsHeld, NEW s \in Strategies, risk[s] # None, risk[s].halted,
                      \A k \in Slots : loop[s][k].pc \in {"free", "sleep"}
               PROVE  row[s].status \notin Active
    BY DEF HaltReachesRow
  <2> QED
    BY DEF HaltsHeld, HaltOK, Carried
<1> QED
  BY <1>1, <1>3, <1>4, <1>5, TableInductive, TypeCorrect, PTL DEF Spec

-----------------------------------------------------------------------------
(***************************************************************************)
(* The refinement.  The state function is the mapping of Executor (Log);   *)
(* only a commit, a change of the status, a deletion and a midnight are    *)
(* steps of it, and everything else stutters.                              *)
(***************************************************************************)


\* Where the plan at hand, or the session once it is carried out, would leave s.
Target(t) == IF t.pc = "trade" THEN t.c.plan.open ELSE t.c.pos

\* What a session's staged result says of the ledger: there is one only once the
\* session closed the position the ledger still holds, and it then leaves that
\* position.
ResultOK(s, t) ==
  t.pc \in {"trade", "settle"} /\ ~Orphan(s) /\ ~t.c.broken =>
    /\ t.c.real \in Pnls \cup {0}
    /\ t.pc = "trade" /\ t.c.plan.close =>
         t.c.real = 0 /\ book[s].pos # Flat /\ t.c.plan.open # book[s].pos
    /\ t.c.real # 0 => t.c.wrote /\ book[s].pos # Flat /\ Target(t) # book[s].pos

Results == \A s \in Strategies, k \in Slots : ResultOK(s, loop[s][k])

\* A plan that closes leaves the position held for another one.
LEMMA ClosesFromHeld ==
  ASSUME NEW intent, NEW p \in Positions, NEW short,
         PlanActions(intent, SideOf(p), short).close
  PROVE  p # Flat /\ PlanActions(intent, SideOf(p), short).open # p
<1> DEFINE plan == PlanActions(intent, SideOf(p), short)
           want == Wanted(intent)
           move == intent # "none" /\ want # SideOf(p)
           open == IF move /\ (want = Short => short) THEN want ELSE Flat
<1>1. plan.close = (move /\ SideOf(p) # Flat)
  BY DEF PlanActions
<1>2. plan.open = open
  BY DEF PlanActions
<1>3. SideOf(p) = p
  BY DEF SideOf, Positions, Long, Flat, Short
<1> HIDE DEF plan, want
<1> QED
  BY <1>1, <1>2, <1>3 DEF plan

\* A step that leaves the database alone and the staged result of one session
\* accounted for.
LEMMA ResultMoves ==
  ASSUME TypeOK, Results, UNCHANGED <<row, book>>,
         NEW s \in Strategies, NEW k \in Slots, NEW stage \in Stages, NEW c \in Cycles,
         Goto(s, k, stage, c),
         \A t : t.pc = stage /\ t.c = c => ResultOK(s, t)
  PROVE  Results'
<1>1. loop \in [Strategies -> [Slots -> Tasks]]
  BY DEF TypeOK
<1>2. /\ loop'[s][k].pc = stage /\ loop'[s][k].c = c
      /\ \A t \in Strategies, j \in Slots : t # s \/ j # k => loop'[t][j] = loop[t][j]
  BY <1>1, GotoFacts
<1>3. ASSUME NEW t \in Strategies, NEW j \in Slots
      PROVE  ResultOK(t, loop'[t][j])
  <2>1. CASE t = s /\ j = k
    BY <1>2, <2>1
  <2>2. CASE t # s \/ j # k
    BY <1>2, <2>2 DEF Results
  <2> QED
    BY <2>1, <2>2
<1> QED
  BY <1>3 DEF Results, ResultOK, Orphan, Target

\* Tasks that start, end or are cancelled stage nothing.
LEMMA QuietResults ==
  ASSUME Results, UNCHANGED <<row, book>>,
         \A t \in Strategies, j \in Slots :
           \/ loop'[t][j].pc = loop[t][j].pc /\ loop'[t][j].c = loop[t][j].c
           \/ loop'[t][j].pc \in {"free", "sleep"}
  PROVE  Results'
  BY DEF Results, ResultOK, Orphan, Target

\* The steps of a cycle up to its commit.
LEMMA CycleResults ==
  ASSUME TypeOK, Booking, Results, NEW s \in Strategies, NEW k \in Slots,
         \/ StartCycle(s, k) \/ ReadAccount(s, k) \/ ReadFails(s, k) \/ NoAdapter(s, k)
         \/ CloseFills(s, k) \/ OpenFills(s, k) \/ OpenRejected(s, k) \/ OrderFails(s, k)
         \/ CycleLost(s, k)
  PROVE  Results'
<1> USE ExecutorAssumption
<1> DEFINE c == loop[s][k].c
<1>0. /\ c \in Cycles /\ c.plan \in Plans /\ c.pos \in Int /\ c.filled \in Int /\ c.real \in Int
      /\ c.plan.open \in Int /\ book[s].pos \in Positions /\ book[s].pos \in Int
      /\ SessionOK(s, loop[s][k]) /\ ResultOK(s, loop[s][k])
      /\ [c.plan EXCEPT !.close = FALSE] \in Plans
      /\ [c.plan EXCEPT !.close = FALSE].open = c.plan.open
      /\ ~[c.plan EXCEPT !.close = FALSE].close
  <2>1. c \in Cycles /\ book[s] \in Books
    BY CycleTyped DEF TypeOK
  <2>2. /\ c.plan \in Plans /\ c.pos \in Int /\ c.filled \in Int /\ c.real \in Int
        /\ book[s].pos \in Int
    BY <2>1 DEF Cycles, Books
  <2>3. /\ c.plan.open \in Int
        /\ [c.plan EXCEPT !.close = FALSE] \in Plans
        /\ [c.plan EXCEPT !.close = FALSE].open = c.plan.open
        /\ ~[c.plan EXCEPT !.close = FALSE].close
    <3>1. PICK p \in Plans : p = c.plan
      BY <2>2
    <3>2. p.open \in Int
      BY DEF Plans, Positions, Long, Short, Flat
    <3>3. [p EXCEPT !.close = FALSE] \in Plans
      BY DEF Plans
    <3>4. [p EXCEPT !.close = FALSE].open = p.open /\ ~[p EXCEPT !.close = FALSE].close
      BY DEF Plans
    <3> QED
      BY <3>1, <3>2, <3>3, <3>4
  <2> QED
    BY <2>1, <2>2, <2>3 DEF Booking, Sessions, Ledger, Results
<1>1. CASE StartCycle(s, k)
  <2>1. PICK c2 \in Cycles : Goto(s, k, "read", c2)
    <3>1. CASE Goto(s, k, "read", NoCycle)
      BY <3>1, NoCycleTyped
    <3>2. ASSUME NEW i \in Intents \cup {"none"},
                 Goto(s, k, "read", [NoCycle EXCEPT !.intent = i])
          PROVE  \E c2 \in Cycles : Goto(s, k, "read", c2)
      <4>1. i \in Directions \cup {"none"} /\ (i # "none") \in BOOLEAN
        OBVIOUS
      <4>2. [NoCycle EXCEPT !.intent = i] \in Cycles
        BY <4>1, NoCycleTyped DEF Cycles
      <4> QED
        BY <3>2, <4>2
    <3> QED
      BY <1>1, <3>1, <3>2 DEF StartCycle
  <2>2. \A t : t.pc = "read" /\ t.c = c2 => ResultOK(s, t)
    BY DEF ResultOK
  <2>3. UNCHANGED <<row, book>>
    BY <1>1 DEF StartCycle
  <2> QED
    BY <2>1, <2>2, <2>3, ResultMoves DEF Stages
<1>2. CASE ReadAccount(s, k)
  <2>1. PICK eq \in Equities, exit \in BOOLEAN :
          LET plan == IF exit THEN ExitPlan ELSE PlanActions(c.intent, SideOf(book[s].pos), AllowShort)
          IN  /\ exit => book[s].pos # Flat
              /\ Goto(s, k, NextStage(plan),
                      [c EXCEPT !.plan = plan, !.equity = eq, !.pos = book[s].pos])
    BY <1>2 DEF ReadAccount
  <2>2. PICK plan \in Plans :
          plan = IF exit THEN ExitPlan ELSE PlanActions(c.intent, SideOf(book[s].pos), AllowShort)
    BY <1>0, NoPlanTyped, PlanTyped
  <2>3. PICK c2 \in Cycles : c2 = [c EXCEPT !.plan = plan, !.equity = eq, !.pos = book[s].pos]
    BY <1>0, <2>1, CycleSteps
  <2>4. c2.plan = plan /\ c2.real = c.real
    BY <1>0, <2>3 DEF Cycles
  <2>5. c.real = 0
    BY <1>0, <1>2 DEF SessionOK, ReadAccount, Runs, At
  <2>6. plan.close => book[s].pos # Flat /\ plan.open # book[s].pos
    BY <1>0, <2>1, <2>2, ClosesFromHeld DEF ExitPlan
  <2>7. \A t : t.pc = NextStage(plan) /\ t.c = c2 => ResultOK(s, t)
    BY <2>4, <2>5, <2>6 DEF ResultOK
  <2>8. Goto(s, k, NextStage(plan), c2) /\ UNCHANGED <<row, book>>
    BY <1>2, <2>1, <2>2, <2>3 DEF ReadAccount
  <2> QED
    BY <2>7, <2>8, StageTyped, ResultMoves
<1>3. CASE ReadFails(s, k) \/ NoAdapter(s, k)
  <2>1. PICK c2 \in Cycles : c2 = [c EXCEPT !.errored = TRUE]
    BY <1>0, CycleSteps
  <2>2. Goto(s, k, "settle", c2) /\ UNCHANGED <<row, book>> /\ At(s, k, "read")
    BY <1>3, <2>1 DEF ReadFails, NoAdapter, Runs
  <2>3. c2.real = c.real /\ c.real = 0
    BY <1>0, <2>1, <2>2 DEF Cycles, SessionOK, At
  <2>4. \A t : t.pc = "settle" /\ t.c = c2 => ResultOK(s, t)
    BY <2>3 DEF ResultOK
  <2> QED
    BY <2>2, <2>4, ResultMoves DEF Stages
<1>4. CASE CloseFills(s, k)
  <2>1. PICK pnl, plan :
          /\ pnl \in Pnls /\ plan = [c.plan EXCEPT !.close = FALSE]
          /\ Goto(s, k, NextStage(plan),
                  [c EXCEPT !.plan = plan, !.pos = Flat, !.filled = c.filled - c.pos,
                            !.real = c.real + pnl, !.wrote = TRUE])
    BY <1>0, <1>4 DEF CloseFills, Cycles
  <2>2. plan \in Plans /\ plan.open = c.plan.open /\ ~plan.close /\ pnl \in Int
    BY <1>0, <2>1
  <2>3. PICK c2 \in Cycles :
          c2 = [c EXCEPT !.plan = plan, !.pos = Flat, !.filled = c.filled - c.pos,
                         !.real = c.real + pnl, !.wrote = TRUE]
    <3>1. Flat \in Int /\ c.filled - c.pos \in Int /\ c.real + pnl \in Int
      BY <1>0, <2>2 DEF Flat
    <3> QED
      BY <1>0, <2>2, <3>1, CycleSteps
  <2>4. /\ c2.pos = Flat /\ c2.plan = plan /\ c2.real = c.real + pnl /\ c2.wrote
        /\ c2.broken = c.broken
    BY <1>0, <2>3 DEF Cycles
  <2>5. At(s, k, "trade") /\ c.plan.close /\ UNCHANGED <<row, book>>
    BY <1>4 DEF CloseFills, ClosePending, Runs
  <2>6. ~Orphan(s) /\ ~c.broken =>
          c.real = 0 /\ book[s].pos # Flat /\ c.plan.open # book[s].pos
    BY <1>0, <2>5 DEF ResultOK, At
  <2>7. ~Orphan(s) /\ ~c.broken => c2.real = pnl
    BY <2>2, <2>4, <2>6
  <2>8. ASSUME NEW t, t.pc = NextStage(plan), t.c = c2
        PROVE  ResultOK(s, t)
    <3>1. Target(t) \in {plan.open, Flat}
      BY <2>4, <2>8 DEF Target
    <3>2. t.pc = "settle" => Target(t) = Flat
      BY <2>4, <2>8 DEF Target
    <3>3. t.pc = "trade" => Target(t) = plan.open
      BY <2>4, <2>8 DEF Target
    <3> HIDE DEF c
    <3> QED
      BY <2>1, <2>2, <2>4, <2>6, <2>7, <2>8, <3>2, <3>3 DEF ResultOK
  <2> QED
    BY <2>1, <2>3, <2>5, <2>8, StageTyped, ResultMoves
<1>5. CASE OpenFills(s, k)
  <2>1. PICK c2 \in Cycles :
          c2 = [c EXCEPT !.plan = NoPlan, !.pos = c.pos + c.plan.open,
                         !.filled = c.filled + c.plan.open, !.wrote = TRUE]
    <3>1. c.pos + c.plan.open \in Int /\ c.filled + c.plan.open \in Int
      BY <1>0
    <3> QED
      BY <1>0, <3>1, NoPlanTyped, CycleSteps
  <2>2. Goto(s, k, "settle", c2) /\ UNCHANGED <<row, book>>
    BY <1>0, <1>5, <2>1 DEF OpenFills, Cycles
  <2>3. /\ c2.pos = c.pos + c.plan.open /\ c2.real = c.real /\ c2.wrote
        /\ c2.broken = c.broken
    BY <1>0, <2>1 DEF Cycles
  <2>4. At(s, k, "trade") /\ ~c.plan.close /\ ~c.broken
    BY <1>5 DEF OpenFills, OpenPending, Runs
  <2>5. c.pos = Flat
    BY <1>0, <2>4 DEF SessionOK, At
  <2>6. c2.pos = c.plan.open
    BY <1>0, <2>3, <2>5 DEF Flat
  <2>7. ~Orphan(s) => /\ c.real \in Pnls \cup {0}
                      /\ c.real # 0 => book[s].pos # Flat /\ c.plan.open # book[s].pos
    BY <1>0, <2>4 DEF ResultOK, Target, At
  <2>8. \A t : t.pc = "settle" /\ t.c = c2 => ResultOK(s, t)
    BY <2>3, <2>6, <2>7 DEF ResultOK, Target
  <2> QED
    BY <2>2, <2>8, ResultMoves DEF Stages
<1>6. CASE OpenRejected(s, k)
  <2>1. PICK b \in BOOLEAN : Goto(s, k, "settle", [c EXCEPT !.plan = NoPlan, !.halted = b])
    BY <1>6 DEF OpenRejected, Halts
  <2>2. PICK c2 \in Cycles : c2 = [c EXCEPT !.plan = NoPlan, !.halted = b]
    BY <1>0, NoPlanTyped, CycleSteps
  <2>3. c2.pos = c.pos /\ c2.real = c.real /\ c2.wrote = c.wrote /\ c2.broken = c.broken
    BY <1>0, <2>2 DEF Cycles
  <2>4. At(s, k, "trade") /\ ~c.plan.close /\ UNCHANGED <<row, book>>
    BY <1>6 DEF OpenRejected, OpenPending, Runs
  <2>5. ~c.broken => c.pos = Flat
    BY <1>0, <2>4 DEF SessionOK, At
  <2>6. ~Orphan(s) /\ ~c.broken =>
          c.real \in Pnls \cup {0} /\ (c.real # 0 => c.wrote /\ book[s].pos # Flat)
    BY <1>0, <2>4 DEF ResultOK, At
  <2>7. \A t : t.pc = "settle" /\ t.c = c2 => ResultOK(s, t)
    BY <2>3, <2>5, <2>6 DEF ResultOK, Target
  <2> QED
    BY <2>1, <2>2, <2>4, <2>7, ResultMoves DEF Stages
<1>7. CASE OrderFails(s, k)
  <2>1. PICK plan \in Plans :
          Goto(s, k, NextStage(plan), [c EXCEPT !.plan = plan, !.broken = TRUE, !.errored = TRUE])
    BY <1>0, <1>7, NoPlanTyped DEF OrderFails
  <2>2. PICK c2 \in Cycles : c2 = [c EXCEPT !.plan = plan, !.broken = TRUE, !.errored = TRUE]
    BY <1>0, CycleSteps
  <2>3. c2.broken
    BY <1>0, <2>2 DEF Cycles
  <2>4. \A t : t.pc = NextStage(plan) /\ t.c = c2 => ResultOK(s, t)
    BY <2>3 DEF ResultOK
  <2>5. UNCHANGED <<row, book>>
    BY <1>7 DEF OrderFails
  <2> QED
    BY <2>1, <2>2, <2>4, <2>5, StageTyped, ResultMoves
<1>8. CASE CycleLost(s, k)
  <2>1. Goto(s, k, "sleep", NoCycle) /\ UNCHANGED <<row, book>>
    BY <1>8 DEF CycleLost
  <2>2. \A t : t.pc = "sleep" /\ t.c = NoCycle => ResultOK(s, t)
    BY DEF ResultOK
  <2> QED
    BY <2>1, <2>2, NoCycleTyped, ResultMoves DEF Stages
<1> QED
  BY <1>1, <1>2, <1>3, <1>4, <1>5, <1>6, <1>7, <1>8

\* A commit leaves no other session of the strategy with a result, and the database
\* moves as a cycle of the abstract ledger.
LEMMA CommitResults ==
  ASSUME TypeOK, Solo, Results, NEW s \in Strategies, NEW k \in Slots, Commit(s, k)
  PROVE  Results'
<1> DEFINE c == loop[s][k].c
           halts == c.halted \/ ErrorsAfter(row[s].errors, c) = MaxErrors
           r == [status |-> IF halts THEN "halted" ELSE row[s].status,
                 errors |-> ErrorsAfter(row[s].errors, c),
                 peak   |-> IF risk[s] = None THEN row[s].peak ELSE risk[s].peak]
           b == Booked(book[s], c)
           c2 == [c EXCEPT !.keep = ~halts]
<1>1. /\ row' = [row EXCEPT ![s] = r] /\ book' = [book EXCEPT ![s] = b]
      /\ loop' = [loop EXCEPT ![s] = [loop[s] EXCEPT ![k] =
                     [loop[s][k] EXCEPT !.pc = "broadcast", !.c = c2]]]
  BY DEF Commit, Goto, TypeOK
<1> HIDE DEF c, r, b, c2
<1>2. /\ loop \in [Strategies -> [Slots -> Tasks]] /\ loop[s][k] \in Tasks
      /\ row \in [Strategies -> Rows] /\ book \in [Strategies -> Books]
      /\ loop[s][k].pc = "settle"
  BY DEF TypeOK, Commit, At
<1>3. loop'[s][k].pc = "broadcast"
  <2>1. [loop[s][k] EXCEPT !.pc = "broadcast", !.c = c2].pc = "broadcast"
    BY <1>2 DEF Tasks
  <2> QED
    BY <1>1, <1>2, <2>1
<1>4. /\ \A t \in Strategies, j \in Slots : t # s \/ j # k => loop'[t][j] = loop[t][j]
      /\ \A t \in Strategies \ {s} : row'[t] = row[t] /\ book'[t] = book[t]
  BY <1>1, <1>2
<1>5. ASSUME NEW t \in Strategies, NEW j \in Slots
      PROVE  ResultOK(t, loop[t][j])'
  <2>1. CASE t = s /\ j = k
    BY <1>3, <2>1 DEF ResultOK
  <2>2. CASE t = s /\ j # k
    <3>1. loop'[t][j] = loop[t][j] /\ loop[t][j].pc \notin Busy
      BY <1>2, <1>4, <2>2 DEF Solo, Busy
    <3> QED
      BY <3>1 DEF ResultOK, Busy
  <2>3. CASE t # s
    <3>1. loop'[t][j] = loop[t][j] /\ row'[t] = row[t] /\ book'[t] = book[t]
      BY <1>4, <2>3
    <3> QED
      BY <3>1 DEF Results, ResultOK, Orphan, Target
  <2> QED
    BY <2>1, <2>2, <2>3
<1> QED
  BY <1>5 DEF Results

\* The staged results are accounted for after every step.
LEMMA ResultsInductive ==
  TypeOK /\ Solo /\ Booking /\ Results /\ [Next]_vars => Results'
<1> SUFFICES ASSUME TypeOK, Solo, Booking, Results, [Next]_vars
             PROVE  Results'
  OBVIOUS
<1> USE ExecutorAssumption
<1>1. ASSUME NEW s \in Strategies, NEW k \in Slots, Step(s, k)
      PROVE  Results'
  <2>1. CASE \/ StartCycle(s, k) \/ ReadAccount(s, k) \/ ReadFails(s, k) \/ NoAdapter(s, k)
             \/ CloseFills(s, k) \/ OpenFills(s, k) \/ OpenRejected(s, k)
             \/ OrderFails(s, k) \/ CycleLost(s, k)
    BY <2>1, CycleResults
  <2>2. CASE Commit(s, k)
    BY <2>2, CommitResults
  <2>3. CASE Finish(s, k) \/ Aborted(s, k)
    <3>1. UNCHANGED <<row, book>>
      BY <2>3 DEF Finish, Aborted
    <3>2. \/ loop' = [loop EXCEPT ![s] = [loop[s] EXCEPT ![k] = FreeTask]]
          \/ Goto(s, k, "sleep", NoCycle)
      BY <2>3 DEF Finish, Aborted
    <3>3. /\ loop \in [Strategies -> [Slots -> Tasks]] /\ FreeTask.pc = "free"
          /\ "sleep" \in Stages
      BY DEF TypeOK, FreeTask, Stages
    <3>4. \A t \in Strategies, j \in Slots :
            \/ loop'[t][j] = loop[t][j]
            \/ loop'[t][j].pc \in {"free", "sleep"}
      <4>1. CASE loop' = [loop EXCEPT ![s] = [loop[s] EXCEPT ![k] = FreeTask]]
        BY <3>3, <4>1
      <4>2. CASE Goto(s, k, "sleep", NoCycle)
        BY <3>3, <4>2, NoCycleTyped, GotoFacts
      <4> QED
        BY <3>2, <4>1, <4>2
    <3> QED
      BY <3>1, <3>4, QuietResults
  <2> QED
    BY <1>1, <2>1, <2>2, <2>3 DEF Step
<1>2. ASSUME NEW s \in Strategies, NEW status \in Statuses, PatchStatus(s, status)
      PROVE  Results'
  <2>1. /\ row[s].status # "gone" /\ \A t \in Strategies \ {s} : row'[t] = row[t]
    BY <1>2 DEF PatchStatus, TypeOK, Rows
  <2>2. \A t \in Strategies : ~Orphan(t)' => ~Orphan(t)
    BY <2>1 DEF Orphan
  <2>3. UNCHANGED <<book, loop>>
    BY <1>2 DEF PatchStatus
  <2> QED
    BY <2>2, <2>3 DEF Results, ResultOK, Target
<1>3. ASSUME NEW s \in Strategies, DeleteStrategy(s)
      PROVE  Results'
  <2>1. /\ row'[s].status = "gone" /\ \A t \in Strategies \ {s} : row'[t] = row[t]
        /\ \A t \in Strategies \ {s} : book'[t] = book[t]
        /\ loop' = loop
    BY <1>3 DEF DeleteStrategy, TypeOK
  <2> QED
    BY <2>1 DEF Results, ResultOK, Orphan, Target
<1>4. CASE Notify
  <2>1. UNCHANGED <<row, book>>
    BY <1>4, NotifyShape
  <2>2. CASE UNCHANGED <<tasks, loop>>
    BY <2>1, <2>2, QuietResults
  <2>3. ASSUME NEW s \in Strategies, NEW k \in Slots, Launched(s, k)
        PROVE  Results'
    BY <2>1, <2>3, QuietResults DEF Launched, Dropped
  <2>4. ASSUME NEW s \in Strategies, Stopped(s)
        PROVE  Results'
    BY <2>1, <2>4, QuietResults DEF Stopped, Dropped
  <2> QED
    BY <1>4, <2>2, <2>3, <2>4, NotifyShape
<1>5. CASE Restart
  <2>1. UNCHANGED <<row, book>>
    BY <1>5 DEF Restart
  <2>2. ASSUME NEW t \in Strategies, NEW j \in Slots
        PROVE  loop'[t][j].pc \in {"free", "sleep"}
    BY <1>5, NewTaskFacts DEF Restart, FreeTask
  <2> QED
    BY <2>1, <2>2, QuietResults
<1>6. CASE Midnight
  <2>1. ASSUME NEW t \in Strategies
        PROVE  row'[t] = row[t] /\ book'[t].pos = book[t].pos
    <3>1. row' = row /\ book'[t] = [book[t] EXCEPT !.closed = 0] /\ book[t] \in Books
      BY <1>6 DEF Midnight, TypeOK
    <3> QED
      BY <3>1 DEF Books
  <2>2. ASSUME NEW t \in Strategies, NEW j \in Slots
        PROVE  /\ loop'[t][j].pc = loop[t][j].pc /\ loop'[t][j].c.broken = loop[t][j].c.broken
               /\ loop'[t][j].c.plan = loop[t][j].c.plan /\ loop'[t][j].c.real = 0
    <3>1. /\ loop'[t][j] = [loop[t][j] EXCEPT !.c = [loop[t][j].c EXCEPT !.real = 0]]
          /\ loop[t][j] \in Tasks /\ loop[t][j].c \in Cycles
      BY <1>6, CycleTyped DEF Midnight, TypeOK
    <3>2. /\ loop'[t][j].pc = loop[t][j].pc
          /\ loop'[t][j].c = [loop[t][j].c EXCEPT !.real = 0]
      BY <3>1 DEF Tasks
    <3> QED
      BY <3>1, <3>2 DEF Cycles
  <2>3. ASSUME NEW t \in Strategies, NEW j \in Slots
        PROVE  ResultOK(t, loop[t][j])'
    BY <2>1, <2>2 DEF Results, ResultOK, Orphan
  <2> QED
    BY <2>3 DEF Results
<1>7. CASE UNCHANGED <<row, book, loop>>
  BY <1>7, QuietResults
<1> QED
  BY <1>1, <1>2, <1>3, <1>4, <1>5, <1>6, <1>7 DEF Next, vars, PatchConfig, NewBar

-----------------------------------------------------------------------------
(***************************************************************************)
(* The simulation.                                                         *)
(***************************************************************************)

\* A step that leaves the database alone is none of the abstract ledger.
LEMMA Stutters ==
  ASSUME UNCHANGED <<row, book>>
  PROVE  UNCHANGED Log!logVars
  BY DEF Log!logVars

\* A commit is a cycle of the abstract ledger.
LEMMA CommitIsCycle ==
  ASSUME TypeOK, Booking, Results, NEW s \in Strategies, NEW k \in Slots, Commit(s, k)
  PROVE  Log!Cycle(s)
<1> USE ExecutorAssumption
<1> DEFINE c == loop[s][k].c
           halts == c.halted \/ ErrorsAfter(row[s].errors, c) = MaxErrors
           r == [status |-> IF halts THEN "halted" ELSE row[s].status,
                 errors |-> ErrorsAfter(row[s].errors, c),
                 peak   |-> IF risk[s] = None THEN row[s].peak ELSE risk[s].peak]
           b == Booked(book[s], c)
           old == book[s]
<1>0. /\ c \in Cycles /\ old \in Books /\ loop[s][k].pc = "settle"
      /\ ~c.broken /\ ~Orphan(s)
      /\ SessionOK(s, loop[s][k]) /\ ResultOK(s, loop[s][k]) /\ old.pos \in Positions
      /\ row \in [Strategies -> Rows] /\ book \in [Strategies -> Books]
  BY CycleTyped DEF TypeOK, Commit, At, Booking, Sessions, Ledger, Results
<1>1. /\ c.pos \in Int /\ c.filled \in Int /\ c.real \in Int
      /\ old.pos \in Int /\ old.net \in Int /\ old.closed \in Int
  BY <1>0 DEF Cycles, Books
<1>2. /\ c.pos \in Positions
      /\ IF c.wrote THEN c.pos = old.pos + c.filled ELSE c.filled = 0
  BY <1>0 DEF SessionOK
<1>3. /\ c.real \in Pnls \cup {0}
      /\ c.real # 0 => c.wrote /\ old.pos # Flat /\ c.pos # old.pos
  BY <1>0 DEF ResultOK, Target
<1>4. /\ b.pos = (IF c.wrote THEN c.pos ELSE old.pos)
      /\ b.net = old.net + c.filled /\ b.closed = old.closed + c.real
  BY DEF Booked
<1>5. row' = [row EXCEPT ![s] = r] /\ book' = [book EXCEPT ![s] = b]
  BY DEF Commit, TypeOK
<1>6. r.status \in {"halted", row[s].status}
  OBVIOUS
<1>7. row[s].status # "gone"
  BY <1>0 DEF Orphan
<1>8. /\ b.pos \in Positions /\ b.net = old.net + (b.pos - old.pos)
      /\ b.pos = old.pos \/ old.pos = 0 => c.real = 0
  BY <1>0, <1>1, <1>2, <1>3, <1>4 DEF Flat
<1> HIDE DEF c, r, b, halts
<1>9. /\ row'[s].status = r.status /\ book'[s] = b
      /\ \A t \in Strategies \ {s} : row'[t] = row[t] /\ book'[t] = book[t]
  BY <1>0, <1>5
<1>10. [t \in Strategies |-> book'[t].pos] =
         [[t \in Strategies |-> book[t].pos] EXCEPT ![s] = b.pos]
  BY <1>9
<1>11. [t \in Strategies |-> book'[t].net] =
         [[t \in Strategies |-> book[t].net] EXCEPT ![s] = old.net + (b.pos - old.pos)]
  BY <1>8, <1>9
<1>12. [t \in Strategies |-> book'[t].closed] =
         [[t \in Strategies |-> book[t].closed] EXCEPT ![s] = old.closed + c.real]
  BY <1>4, <1>9
<1>13. \/ [t \in Strategies |-> row'[t].status] = [t \in Strategies |-> row[t].status]
       \/ [t \in Strategies |-> row'[t].status] =
            [[t \in Strategies |-> row[t].status] EXCEPT ![s] = "halted"]
  BY <1>6, <1>9
<1>14. /\ [t \in Strategies |-> book[t].pos][s] = old.pos
       /\ [t \in Strategies |-> book[t].net][s] = old.net
       /\ [t \in Strategies |-> book[t].closed][s] = old.closed
       /\ [t \in Strategies |-> row[t].status][s] = row[s].status
  OBVIOUS
<1>15. \E p \in Positions, result \in Pnls \cup {0} :
         /\ p = [t \in Strategies |-> book[t].pos][s]
            \/ [t \in Strategies |-> book[t].pos][s] = 0
            => result = 0
         /\ [t \in Strategies |-> book[t].pos]' =
              [[t \in Strategies |-> book[t].pos] EXCEPT ![s] = p]
         /\ [t \in Strategies |-> book[t].net]' =
              [[t \in Strategies |-> book[t].net] EXCEPT
                 ![s] = [t \in Strategies |-> book[t].net][s] + p
                        - [t \in Strategies |-> book[t].pos][s]]
         /\ [t \in Strategies |-> book[t].closed]' =
              [[t \in Strategies |-> book[t].closed] EXCEPT
                 ![s] = [t \in Strategies |-> book[t].closed][s] + result]
  <2> c.real \in Pnls \cup {0} /\ b.pos \in Positions
    BY <1>3, <1>8
  <2>1. /\ b.pos = [t \in Strategies |-> book[t].pos][s]
           \/ [t \in Strategies |-> book[t].pos][s] = 0
           => c.real = 0
        /\ [t \in Strategies |-> book[t].net]' =
             [[t \in Strategies |-> book[t].net] EXCEPT
                ![s] = [t \in Strategies |-> book[t].net][s] + b.pos
                       - [t \in Strategies |-> book[t].pos][s]]
        /\ [t \in Strategies |-> book[t].closed]' =
             [[t \in Strategies |-> book[t].closed] EXCEPT
                ![s] = [t \in Strategies |-> book[t].closed][s] + c.real]
    <3>1. PICK n, d : n = old.net + (b.pos - old.pos) /\ d = old.closed + c.real
      OBVIOUS
    <3>2. /\ n = [t \in Strategies |-> book[t].net][s] + b.pos
                  - [t \in Strategies |-> book[t].pos][s]
          /\ d = [t \in Strategies |-> book[t].closed][s] + c.real
      BY <1>14, <3>1
    <3>3. /\ [t \in Strategies |-> book[t].net]' =
               [[t \in Strategies |-> book[t].net] EXCEPT ![s] = n]
          /\ [t \in Strategies |-> book[t].closed]' =
               [[t \in Strategies |-> book[t].closed] EXCEPT ![s] = d]
      BY <1>11, <1>12, <3>1
    <3>4. /\ b.pos = [t \in Strategies |-> book[t].pos][s]
             \/ [t \in Strategies |-> book[t].pos][s] = 0
             => c.real = 0
      BY <1>8, <1>14
    <3> QED
      BY <3>2, <3>3, <3>4
  <2> WITNESS b.pos \in Positions, c.real \in Pnls \cup {0}
  <2> QED
    BY <1>10, <2>1
<1>16. \/ [t \in Strategies |-> row[t].status]' = [t \in Strategies |-> row[t].status]
       \/ [t \in Strategies |-> row[t].status]' =
            [[t \in Strategies |-> row[t].status] EXCEPT ![s] = "halted"]
  BY <1>13
<1>17. [t \in Strategies |-> row[t].status][s] # "gone"
  BY <1>7, <1>14
<1> QED
  BY <1>15, <1>16, <1>17, Zenon DEF Log!Cycle

\* A change of the status is one of the abstract ledger.
LEMMA PatchIsSetStatus ==
  ASSUME TypeOK, NEW s \in Strategies, NEW new \in Statuses, PatchStatus(s, new)
  PROVE  Log!SetStatus(s)
<1> DEFINE status == [t \in Strategies |-> row[t].status]
<1>1. /\ new \in {"draft", "paper", "live", "paused", "archived"}
      /\ row[s].status # "gone"
  BY ExecutorAssumption DEF PatchStatus, Statuses, Active
<1>2. /\ row'[s].status = new /\ \A t \in Strategies \ {s} : row'[t] = row[t]
      /\ book' = book
  BY DEF PatchStatus, TypeOK, Rows
<1>3. status' = [status EXCEPT ![s] = new]
  BY <1>2
<1>4. status[s] # "gone"
  BY <1>1
<1> QED
  BY <1>1, <1>2, <1>3, <1>4 DEF Log!SetStatus

\* A deletion is one of the abstract ledger.
LEMMA DeletionIsDelete ==
  ASSUME TypeOK, NEW s \in Strategies, DeleteStrategy(s)
  PROVE  Log!Delete(s)
<1>1. /\ row'[s].status = "gone" /\ \A t \in Strategies \ {s} : row'[t] = row[t]
      /\ book'[s] = EmptyBook /\ \A t \in Strategies \ {s} : book'[t] = book[t]
  BY DEF DeleteStrategy, TypeOK
<1>2. EmptyBook.pos = 0 /\ EmptyBook.net = 0 /\ EmptyBook.closed = 0
  BY DEF EmptyBook, Flat
<1> QED
  BY <1>1, <1>2 DEF Log!Delete

\* A midnight begins a new day of the abstract ledger.
LEMMA MidnightIsNewDay ==
  ASSUME TypeOK, Midnight
  PROVE  Log!NewDay
<1>1. ASSUME NEW s \in Strategies
      PROVE  /\ book'[s].closed = 0 /\ book'[s].pos = book[s].pos /\ book'[s].net = book[s].net
             /\ row'[s] = row[s]
  <2>1. book'[s] = [book[s] EXCEPT !.closed = 0] /\ book[s] \in Books /\ row' = row
    BY DEF Midnight, TypeOK
  <2> QED
    BY <2>1 DEF Books
<1> QED
  BY <1>1 DEF Log!NewDay

\* Every step of the executor is one of the abstract ledger, or none.
LEMMA Simulates ==
  TypeOK /\ Booking /\ Results /\ [Next]_vars => [Log!Next]_Log!logVars
<1> SUFFICES ASSUME TypeOK, Booking, Results, [Next]_vars
             PROVE  [Log!Next]_Log!logVars
  OBVIOUS
<1>1. ASSUME NEW s \in Strategies, NEW k \in Slots, Step(s, k)
      PROVE  [Log!Next]_Log!logVars
  <2>1. CASE Commit(s, k)
    BY <2>1, CommitIsCycle DEF Log!Next
  <2>2. CASE UNCHANGED <<row, book>>
    BY <2>2, Stutters
  <2> QED
    BY <1>1, <2>1, <2>2
       DEF Step, StartCycle, ReadAccount, ReadFails, NoAdapter, CloseFills, OpenFills,
           OpenRejected, OrderFails, CycleLost, Finish, Aborted
<1>2. ASSUME NEW s \in Strategies, NEW new \in Statuses, PatchStatus(s, new)
      PROVE  [Log!Next]_Log!logVars
  BY <1>2, PatchIsSetStatus DEF Log!Next
<1>3. ASSUME NEW s \in Strategies, DeleteStrategy(s)
      PROVE  [Log!Next]_Log!logVars
  BY <1>3, DeletionIsDelete DEF Log!Next
<1>4. CASE Midnight
  BY <1>4, MidnightIsNewDay DEF Log!Next
<1>5. CASE UNCHANGED <<row, book>>
  BY <1>5, Stutters
<1> QED
  BY <1>1, <1>2, <1>3, <1>4, <1>5 DEF Next, vars, PatchConfig, NewBar, Notify, Restart

\* The executor implements the abstract ledger: with whatever interleaving, failure
\* and crash, the position of a strategy only moves in one step with the records
\* that explain it, along the plans of the engine, and never for a deleted one.
THEOREM ExecutorImplementsTradeLog == Spec => LogSpec
<1>1. Init => Log!Init
  <2> SUFFICES ASSUME Init PROVE Log!Init
    OBVIOUS
  <2>1. ASSUME NEW s \in Strategies
        PROVE  /\ row[s].status = "draft" /\ book[s].pos = 0 /\ book[s].net = 0
               /\ book[s].closed = 0
    BY DEF Init, EmptyBook, Flat
  <2> QED
    BY <2>1 DEF Log!Init
<1>2. Init => Results
  BY DEF Init, Results, ResultOK, FreeTask
<1> QED
  BY <1>1, <1>2, Simulates, ResultsInductive, BookingHolds, TypeCorrect, OneLoopPerStrategy,
     PTL DEF Spec, LogSpec, Log!Spec

=============================================================================
