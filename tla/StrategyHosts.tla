--------------------------- MODULE StrategyHosts ---------------------------
(***************************************************************************)
(* The three hosts of a strategy: the backtest, which asks it at every     *)
(* closed bar; the executor, which asks a fresh instance once per new bar, *)
(* on the last bars a provider has (services/strategy_executor.py); and    *)
(* the sandbox of the builder page, which runs code in a process of its    *)
(* own and replays what it answered (services/strategy_sandbox.py).        *)
(*                                                                         *)
(* A provider's last bar is the one still forming, or the one before it if *)
(* the provider is late; bars are numbered from the first of the history.  *)
(*                                                                         *)
(* Abstractions.  One strategy, and one sandbox request at a time; the     *)
(* executor and the sandbox share no state, so that a behaviour has one of *)
(* them.  Code is one of the kinds the sandbox tells apart; what a cycle   *)
(* does with the signal is left to Executor and OrderFlow.                 *)
(***************************************************************************)
EXTENDS SignalRules

CONSTANTS
  Rules,    \* the strategies explored
  Prices,
  Awkward,  \* a price some code cannot handle
  FirstBars, MaxBars, \* closed bars at the start, bound on them
  Warmup,   \* DEFAULT_WARMUP_BARS
  MinBars,  \* MIN_BACKTEST_BARS
  Limits,   \* how many bars the providers return: Yahoo the limit, Bybit a page
  Delays,   \* 1 if a provider may lack the forming bar
  Codes     \* kinds of code submitted

ASSUME StrategyHostsAssumption ==
  /\ Rules \subseteq RuleNames /\ Prices \subseteq Nat
  /\ FirstBars \in 1..MaxBars /\ {MaxBars, Warmup, MinBars} \subseteq Nat
  /\ Limits \subseteq Nat \ {0}
  /\ Delays \subseteq {0, 1}
  /\ Codes \subseteq {"sound", "raises", "odd", "loops", "broken", "classless", "chatty"}

VARIABLES
  host,    \* which of the two is at work
  rule,    \* the strategy
  closes,  \* closes of the bars that ended
  forming, \* the latest price of the bar that has not
  cursor,  \* _last_bar_ts: the bar last asked about, 0 for none
  look,    \* the executor's last question and its answer
  box,     \* the sandbox: the request, its process, what that wrote
  crashed  \* history: the server stopped

vars == <<host, rule, closes, forming, cursor, look, box, crashed>>

NoLook == [bar |-> 0, first |-> 0, price |-> 0, given |-> <<>>]
EmptyBox == [waiting |-> FALSE, proc |-> "none", code |-> "sound", bars |-> <<>>,
             out |-> <<>>, reply |-> 0]

Init ==
  /\ host \in {"executor", "sandbox"} /\ rule \in Rules
  /\ closes \in [1..FirstBars -> Prices] /\ forming \in Prices
  /\ cursor = 0 /\ look = NoLook
  /\ box = EmptyBox
  /\ crashed = FALSE

-----------------------------------------------------------------------------

\* MOneShort: the window ends a bar early at its old end.
MOneShort(bars, limit) == IF Len(bars) >= limit THEN Tails(bars, limit - 1) ELSE bars

\* What a provider keeps of the bars it has.
Limited(bars, limit) == IF Len(bars) > limit THEN Tails(bars, limit) ELSE bars

\* The bars a provider has.
Available(late) == IF late = 1 THEN closes ELSE Append(closes, forming)

\* The price moves; the bar ends.
Tick == /\ forming' \in Prices \ {forming}
        /\ UNCHANGED <<host, rule, closes, cursor, look, box, crashed>>

BarEnds ==
  /\ Len(closes) < MaxBars
  /\ closes' = Append(closes, forming)
  /\ UNCHANGED <<host, rule, forming, cursor, look, box, crashed>>

\* The backtest, at a bar.
BacktestSays(bars) == IF Len(bars) <= Warmup THEN <<>> ELSE Generated(rule, bars)

\* _execute_once up to the signals: the bar differs from the last one asked about,
\* later or earlier.
Poll ==
  /\ host = "executor"
  /\ \E late \in Delays, limit \in Limits :
       LET bar  == Len(Available(late))
           bars == Limited(Available(late), limit)
       IN  /\ cursor # bar
           /\ cursor' = bar
           /\ look' = [bar |-> bar, first |-> bar - Len(bars) + 1, price |-> Last(bars),
                       given |-> Generated(rule, bars)]
  /\ UNCHANGED <<host, rule, closes, forming, box, crashed>>

\* The strategy is stopped and started again.
Reload ==
  /\ cursor # 0
  /\ cursor' = 0
  /\ UNCHANGED <<host, rule, closes, forming, look, box, crashed>>

-----------------------------------------------------------------------------
(***************************************************************************)
(* The sandbox.                                                            *)
(***************************************************************************)

\* What the code answers at a bar.  Code that raises there answers nothing; a
\* direction may be no direction.
Answered(code, bars) ==
  CASE code = "raises" /\ Last(bars) = Awkward -> <<>>
    [] code = "odd" -> <<"sideways">> \o Generated(rule, bars)
    [] OTHER -> Generated(rule, bars)

\* The harness: bar by bar after the warm-up, every answer with its bar's index.
Written(code, bars) ==
  FlattenSeq([k \in 1..Len(bars) - Warmup |->
    LET answers == Answered(code, SubSeq(bars, 1, Warmup + k))
    IN  [j \in 1..Len(answers) |-> [index |-> Warmup + k - 1, direction |-> answers[j]]]])

\* MShifted: bars are counted from one on one side only.
MShifted(out, i) ==
  FlattenSeq([j \in 1..Len(out) |-> IF out[j].index = i + 1 THEN <<out[j].direction>> ELSE <<>>])

\* _by_bar: what was written for a bar, in the order written.
ByBar(out, i) ==
  FlattenSeq([j \in 1..Len(out) |-> IF out[j].index = i THEN <<out[j].direction>> ELSE <<>>])

\* The answers that are directions; the others are passed over.
Known(answers) ==
  FlattenSeq([j \in 1..Len(answers) |-> IF answers[j] \in Signals THEN <<answers[j]>> ELSE <<>>])

\* generate_signals of _SandboxStrategy, at the last of the bars it is shown.
Replayed(out, bars) == Known(ByBar(out, Len(bars) - 1))

\* A timeframe nobody knows, or a provider that raises.
Refused == \E reply \in {400, 502} : box' = [EmptyBox EXCEPT !.reply = reply]

\* Too few bars end a request as well; otherwise its process starts.
Submit ==
  /\ host = "sandbox" /\ ~crashed /\ ~box.waiting /\ box.proc # "running"
  /\ \/ \E code \in Codes, late \in Delays, limit \in Limits :
          LET bars == Limited(Available(late), limit)
          IN  box' = IF Len(bars) < MinBars
                     THEN [EmptyBox EXCEPT !.reply = 400]
                     ELSE [EmptyBox EXCEPT !.waiting = TRUE, !.proc = "running",
                                           !.code = code, !.bars = bars]
     \/ Refused
  /\ UNCHANGED <<host, rule, closes, forming, cursor, look, crashed>>

\* The process ends: code that loops never does.
ProcessEnds ==
  /\ box.proc = "running" /\ box.code # "loops"
  /\ box' = [box EXCEPT !.proc = "exited",
                        !.out = IF @ = <<>> /\ box.code \in {"sound", "raises", "odd"}
                                THEN Written(box.code, box.bars) ELSE @]
  /\ UNCHANGED <<host, rule, closes, forming, cursor, look, crashed>>

\* The request collects what it wrote: a crash, a report of no class and a print in
\* between are errors.
Collect ==
  /\ box.waiting /\ box.proc = "exited"
  /\ box' = [box EXCEPT !.waiting = FALSE,
                        !.reply = IF box.code \in {"broken", "classless", "chatty"}
                                  THEN 400 ELSE 200]
  /\ UNCHANGED <<host, rule, closes, forming, cursor, look, crashed>>

\* MLeavesRunning: the request gives up and the process is forgotten.
MLeavesRunning(b) == {[b EXCEPT !.waiting = FALSE, !.reply = 408]}

\* MWaitsOn: the process is killed and the request goes on waiting for it.
MWaitsOn(b) == {[b EXCEPT !.proc = "killed"]}

\* Thirty seconds: the process is killed, or found to have ended.
GivenUp(b) ==
  IF b.proc = "running" THEN {[b EXCEPT !.waiting = FALSE, !.proc = "killed", !.reply = 408]}
  ELSE {[b EXCEPT !.waiting = FALSE, !.reply = r] : r \in {408, 502}}

TimesOut ==
  /\ box.waiting
  /\ box' \in GivenUp(box)
  /\ UNCHANGED <<host, rule, closes, forming, cursor, look, crashed>>

\* The server stops and comes back: its memory is lost, the process goes on.
Restart ==
  /\ ~crashed
  /\ crashed' = TRUE
  /\ cursor' = 0
  /\ box' = [box EXCEPT !.waiting = FALSE]
  /\ UNCHANGED <<host, rule, closes, forming, look>>

Next ==
  \/ Tick \/ BarEnds
  \/ Poll \/ Reload
  \/ Submit \/ ProcessEnds \/ Collect \/ TimesOut
  \/ Restart

Spec == Init /\ [][Next]_vars

\* The timer of a waiting request fires.
FairSpec == Spec /\ WF_vars(TimesOut)

-----------------------------------------------------------------------------

\* The type invariant: in particular a request waits for a process it started, and an
\* answer of the executor is at most one signal.
TypeOK ==
  /\ host \in {"executor", "sandbox"} /\ rule \in Rules
  /\ closes \in Seq(Prices) /\ forming \in Prices
  /\ Len(closes) \in FirstBars..MaxBars
  /\ cursor \in 0..Len(closes) + 1 /\ look.bar \in 0..Len(closes) + 1
  /\ look.first \in 0..look.bar
  /\ look.given \in {<<>>} \cup {<<s>> : s \in Signals}
  /\ box.proc \in {"none", "running", "exited", "killed"} /\ box.code \in Codes \cup {"sound"}
  /\ box.reply \in {0, 200, 400, 408, 502}
  /\ box.waiting => box.proc \in {"running", "exited"} /\ Len(box.bars) >= MinBars
  /\ crashed \in BOOLEAN

\* A strategy answers alike live and in a backtest: where the executor's one look at a
\* bar saw the price it closed at, it got the signal the backtest gets at that bar, from
\* fewer bars and whatever provider had them.  The exponential averages of MACD start
\* with the first bar they see, so that it must have seen them all
\* (strategy_executor.py:262-296, sma_crossover.py).
HostsAgree ==
  LET bar == look.bar
  IN  /\ bar \in Warmup + 1..Len(closes)
      /\ look.price = closes[bar]
      /\ rule = "macd" => look.first = 1
      => look.given = BacktestSays(SubSeq(closes, 1, bar))

\* What the engine replays at a bar is what the code answered when it saw the bars up to
\* it, whatever came later and whatever the code did at other bars
\* (strategy_sandbox.py: _HARNESS_TEMPLATE, _SandboxStrategy).
ReplayIsCausal ==
  box.reply = 200 =>
    \A i \in Warmup + 1..Len(box.bars) :
      LET seen == SubSeq(box.bars, 1, i)
      IN  Replayed(box.out, seen) = Known(Answered(box.code, seen))

\* Code that never returns is stopped: the process of a request ends, unless the server
\* stopped while it ran (strategy_sandbox.py:243-245).
RunawaysEnd == box.proc = "running" ~> box.proc # "running" \/ crashed

=============================================================================
