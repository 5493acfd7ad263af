---------------------------- MODULE CandleCache ----------------------------
(***************************************************************************)
(* The candles of one series: the cache-aside of BacktestService           *)
(* (services/backtest_service.py) over the table of OhlcvRepository and    *)
(* the public providers (domain/backtest/data_provider.py), used by        *)
(* concurrent requests.                                                    *)
(*                                                                         *)
(* A request reads the cache, waits for a provider, stores what came and   *)
(* answers; between these steps other requests do the same and bars close. *)
(* The session of a request commits once, all of its chunks or none.       *)
(*                                                                         *)
(* Abstractions.  A bar is its number; `now` is the one that still forms.  *)
(* Its prices are left out, so that a bar stored while it was forming is   *)
(* like any other.  Yahoo is asked for whole days: DayOpen says which bar  *)
(* is the first of the date that a bar's time is formatted to.             *)
(* (domain/market_data/router.py has no caller: it is not modelled.)       *)
(***************************************************************************)
EXTENDS Integers, Sequences, SequencesExt, FiniteSets

CONSTANTS
  Requests,   \* connections of clients
  Asks,       \* <<start, end>> they may ask for; NoBound for none
  FirstNow,   \* bars the market has at first
  MaxNow,     \* bound on the bars
  Limit,      \* _FETCH_LIMIT, and the bars of a provider's page
  MaxPages,   \* the safety cap on pages
  DayOpen,    \* the first bar of the day of a bar
  Reach,      \* bars before an end that Yahoo is asked for without a start
  Tolerance,  \* _DATE_TOLERANCE, in bars
  OnBybit,    \* the symbol is one of _BYBIT_SYMBOLS
  Faults      \* "db": the database fails, "provider": a provider does

NoBound == 0
Times == 1..MaxNow

ASSUME CandleAssumption ==
  /\ FirstNow \in Times /\ MaxNow \in Nat /\ Limit \in Nat \ {0} /\ MaxPages \in Nat \ {0}
  /\ DayOpen \in [Times -> Times] /\ \A t \in Times : DayOpen[t] <= t
  /\ Reach \in Nat /\ Tolerance \in Nat /\ OnBybit \in BOOLEAN
  /\ Asks \subseteq (0..MaxNow) \X (0..MaxNow)
  /\ Faults \subseteq {"db", "provider"}

VARIABLES
  now,    \* the bar that is forming
  store,  \* the table: the bars it holds
  req,    \* the requests under way
  bounded \* history: some request had a start or an end

vars == <<now, store, req, bounded>>

Stages == {"idle", "read", "fetch", "store", "plain", "done", "failed"}

\* `asked` is the bar that was forming when the request came, `source` what its
\* answer was made from ("none" when no provider had anything), `raised` whether the
\* last call of a provider raised.
Request(start, end, asked) ==
  [pc |-> "read", start |-> start, end |-> end, asked |-> asked, cached |-> <<>>,
   fetched |-> <<>>, answer |-> <<>>, source |-> "none", raised |-> FALSE]

NoRequest == [Request(NoBound, NoBound, 0) EXCEPT !.pc = "idle"]

Init ==
  /\ now = FirstNow
  /\ store = {}
  /\ req = [r \in Requests |-> NoRequest]
  /\ bounded = FALSE

-----------------------------------------------------------------------------
(***************************************************************************)
(* The providers.                                                          *)
(***************************************************************************)

Within(start, end) == {t \in Times : t >= start /\ (end = NoBound \/ t <= end)}

\* The n last of a set of times.
LastOf(times, n) == {t \in times : Cardinality({u \in times : u > t}) < n}

\* Ascending and unique: dedupe_sort_bars, and the order of get_range.
InOrder(times) ==
  [i \in 1..Cardinality(times) |->
     CHOOSE t \in times : Cardinality({u \in times : u <= t}) = i]

\* MQuotesAhead: the whole range is answered, the future included.
MQuotesAhead(times) == InOrder(times)

\* What the market has of these times.
Quotes(times) == InOrder(times \cap 1..now)

\* A range as Yahoo reads its two dates: from the first bar of the start's day, up to
\* the end's day, which `ticker.history` leaves out.
WholeDays(start, end) ==
  {t \in Times : t >= DayOpen[start] /\ (end = NoBound \/ t < DayOpen[end])}

\* Without a start one is reckoned back from the end.
ReachBack(end) == IF end > Reach THEN end - Reach ELSE 1

\* Nothing Yahoo answers is trimmed to what was asked, but the bars of a period
\* (neither a start nor an end) to the last Limit.
Yahoo(start, end) ==
  Quotes(IF start = NoBound /\ end = NoBound THEN LastOf(1..now, Limit)
         ELSE WholeDays(IF start = NoBound THEN ReachBack(end) ELSE start, end))

\* Bybit is paged back from the end, at most MaxPages pages; without a start one
\* page is enough.
Bybit(start, end) ==
  LET pages == IF start = NoBound THEN 1 ELSE MaxPages
  IN  Quotes(LastOf(Within(start, end) \cap 1..now, Limit * pages))

\* The answers fetch_ohlcv can give: Yahoo's, if it has one; else Bybit's, nothing
\* when the symbol is not traded there.
Answers(start, end) ==
  {Yahoo(start, end)}
    \cup (IF "provider" \in Faults \/ Yahoo(start, end) = <<>>
          THEN IF OnBybit THEN {Bybit(start, end), <<>>} ELSE {<<>>} ELSE {})

\* Only the fallback raises: Yahoo's failures are swallowed.
CanRaise == OnBybit /\ "provider" \in Faults

-----------------------------------------------------------------------------
(***************************************************************************)
(* The requests, one after the other on each connection.                   *)
(***************************************************************************)

At(r, stage) == req[r].pc = stage

Become(r, q) == req' = [req EXCEPT ![r] = q]

\* Of a request what it asked for.
Asked(q) == Request(q.start, q.end, q.asked)

Answer(r, bars, source) ==
  Become(r, [Asked(req[r]) EXCEPT !.pc = "done", !.answer = bars, !.source = source])

Ask(r) ==
  /\ At(r, "idle")
  /\ \E ask \in Asks :
       /\ Become(r, Request(ask[1], ask[2], now))
       /\ bounded' = (bounded \/ ask # <<NoBound, NoBound>>)
  /\ UNCHANGED <<now, store>>

\* get_range: the stored bars of the range, in order.
Stored(start, end) == InOrder(store \cap Within(start, end))

\* The first and the last stored bar decide; no bound, nothing to cover.
CacheCovers(rows, start, end) ==
  /\ rows # <<>>
  /\ start = NoBound \/ Head(rows) <= start + Tolerance
  /\ end = NoBound \/ Last(rows) >= end - Tolerance

\* MServesCached: whatever the request.
MServesCached(q, rows) == CacheCovers(rows, q.start, q.end)

\* A ranged request the cache covers is answered from it; one without a start
\* always asks for the tail.
Hit(q, rows) == q.start # NoBound /\ CacheCovers(rows, q.start, q.end)

ReadCache(r) ==
  LET q == req[r]
      rows == Stored(q.start, q.end)
  IN  /\ At(r, "read")
      /\ IF Hit(q, rows)
         THEN Answer(r, rows, "cache")
         ELSE Become(r, [q EXCEPT !.pc = "fetch", !.cached = rows])
      /\ UNCHANGED <<now, store, bounded>>

\* What is asked of a provider: the tail from the last stored bar on, if there is
\* one, otherwise what the request asks for.
FetchStart(q) ==
  IF q.start = NoBound /\ q.cached # <<>> THEN Last(q.cached) ELSE q.start

\* MOverlaps: the last stored bar is taken for new.  MSkipsOne: the bar right
\* after it is skipped.
MOverlaps(q, bars) ==
  IF q.start # NoBound \/ q.cached = <<>> THEN bars
  ELSE InOrder({t \in Range(bars) : t >= Last(q.cached)})
MSkipsOne(q, bars) ==
  IF q.start # NoBound \/ q.cached = <<>> THEN bars
  ELSE InOrder({t \in Range(bars) : t > Last(q.cached) + 1})

\* Of what came, the bars beyond the last stored one, in the order they came.
News(q, bars) ==
  IF q.start # NoBound \/ q.cached = <<>> THEN bars
  ELSE InOrder({t \in Range(bars) : t > Last(q.cached)})

\* The provider answers.  Nothing new, nothing to store.
Fetch(r) ==
  LET q == req[r]
  IN  /\ At(r, "fetch")
      /\ \E bars \in Answers(FetchStart(q), q.end) :
           LET news == News(q, bars)
               whole == IF q.start = NoBound THEN q.cached \o news ELSE news
           IN  IF news = <<>>
               THEN Answer(r, whole, IF bars = <<>> THEN "none" ELSE "provider")
               ELSE Become(r, [q EXCEPT !.pc = "store", !.answer = whole, !.fetched = news])
      /\ UNCHANGED <<now, store, bounded>>

\* upsert_bars, chunk by chunk, and the commit.
Store(r) ==
  /\ At(r, "store")
  /\ store' = store \cup Range(req[r].fetched)
  /\ Answer(r, req[r].answer, "provider")
  /\ UNCHANGED <<now, bounded>>

\* MNoFallback: every request fails with the database.
MNoFallback(q) == "failed"

\* A failure - of the database, of the provider - ends a ranged request; without a
\* start it degrades to a plain fetch.
AfterFailure(q) == IF q.start = NoBound THEN "plain" ELSE "failed"

Fails(r) ==
  /\ \/ At(r, "read") /\ "db" \in Faults
     \/ At(r, "fetch") /\ CanRaise
     \/ At(r, "store") /\ "db" \in Faults
  /\ Become(r, [Asked(req[r]) EXCEPT !.pc = AfterFailure(req[r]), !.raised = At(r, "fetch")])
  /\ UNCHANGED <<now, store, bounded>>

PlainFetch(r) ==
  /\ At(r, "plain")
  /\ \/ \E bars \in Answers(NoBound, req[r].end) :
          Answer(r, bars, "plain")
     \/ CanRaise /\ Become(r, [Asked(req[r]) EXCEPT !.pc = "failed", !.raised = TRUE])
  /\ UNCHANGED <<now, store, bounded>>

\* The response is sent.
Leave(r) ==
  /\ At(r, "done") \/ At(r, "failed")
  /\ req' = [req EXCEPT ![r] = NoRequest]
  /\ UNCHANGED <<now, store, bounded>>

\* A bar closes and the next one starts to form.
NewBar ==
  /\ now < MaxNow
  /\ now' = now + 1
  /\ UNCHANGED <<store, req, bounded>>

-----------------------------------------------------------------------------

Step(r) == ReadCache(r) \/ Fetch(r) \/ Store(r) \/ Fails(r) \/ PlainFetch(r)

Next ==
  \/ \E r \in Requests : Ask(r) \/ Step(r) \/ Leave(r)
  \/ NewBar

Spec == Init /\ [][Next]_vars

-----------------------------------------------------------------------------

\* Every variable keeps its type, and nothing is stored or answered that the
\* market does not have yet.
TypeOK ==
  /\ now \in FirstNow..MaxNow /\ bounded \in BOOLEAN
  /\ store \subseteq 1..now
  /\ \A r \in Requests :
       /\ req[r].pc \in Stages
       /\ req[r].answer \in Seq(1..now) /\ req[r].cached \in Seq(1..now)

\* The strategies, the engine and the charts "assume strictly-ascending, unique
\* timestamps" (normalize.py:3-6): so is every answer, though it may be glued from
\* a cache read before the fetch and a tail fetched after others stored theirs.  It
\* never goes beyond its end, and starts no earlier than the day of its start.
AnswersAscend ==
  \A r \in Requests : At(r, "done") =>
    LET bars == req[r].answer
    IN  /\ \A i \in 1..(Len(bars) - 1) : bars[i] < bars[i + 1]
        /\ \A t \in Range(bars) :
             /\ req[r].end # NoBound => t <= req[r].end
             /\ req[r].start # NoBound => t >= DayOpen[req[r].start]

\* The last bar an incremental request is owed: the one that was forming when it
\* came, or the last one before the day of its end, whichever is earlier.
Due(q) ==
  IF q.end = NoBound \/ DayOpen[q.end] > q.asked THEN q.asked ELSE DayOpen[q.end] - 1

\* An incremental answer is not staler than a fetch: whatever others store meanwhile,
\* unless the providers have nothing to say, it holds all it is owed at its end
\* (backtest_service.py:112-113, "fetch only the missing recent tail").  The day of
\* the end itself it may lack: Yahoo never answers it.
TailIsFresh ==
  \A r \in Requests :
    At(r, "done") /\ req[r].source \in {"provider", "cache"} /\ req[r].start = NoBound =>
      Last(req[r].answer) >= Due(req[r])

\* "never fail a run over caching" (backtest_service.py:185): a request without a
\* start fails only if a provider did in the end.
CachingNeverFails ==
  \A r \in Requests : At(r, "failed") /\ req[r].start = NoBound => req[r].raised

\* As long as nobody asked for a range, concurrent seeds and tails leave no hole in
\* the store: what later answers are served from is one uninterrupted series.
UnboundedStaysWhole ==
  ~bounded =>
       \A t, u, v \in Times :
         t < u /\ u < v /\ t \in store /\ v \in store => u \in store

=============================================================================
