--------------------------- MODULE EodhdFetchers ---------------------------
(***************************************************************************)
(* What the fetchers of the EODHD provider (openbb_eodhd/models) make of   *)
(* the vendor's replies: which rows they hand on and which refusal they    *)
(* answer with.                                                            *)
(*                                                                         *)
(* A row keeps what the fetchers look at: its day (0 when it is missing or *)
(* cannot be read), whether it has the number it is about, and whether it  *)
(* has the code, name or title it is for.  A reply is an exception of the  *)
(* SDK ("denied" for HTTP 401, 402 and 403, else "failed"), a 200 answer   *)
(* whose body is an error object ("payload"), or rows; the /fundamentals   *)
(* reply also has the sections it came with.                               *)
(***************************************************************************)
EXTENDS Integers, Sequences, SequencesExt, FiniteSets, FiniteSetsExt

Refuse(tag) == [tag |-> tag, rows |-> << >>]
Give(rows) == [tag |-> "rows", rows |-> rows]

\* EmptyDataError, where a fetcher looks for it.
Some(rows) == IF rows = << >> THEN Refuse("empty") ELSE Give(rows)

\* What a fetcher makes of rows, once there are any.
Then(out, Use(_)) == IF out.tag = "rows" THEN Use(out.rows) ELSE out

Dated(r) == r.day # 0
Valued(r) == r.value
Keyed(r) == r.key
Keep(rows, Test(_)) == SelectSeq(rows, Test)
ByDay(rows) == SortSeq(rows, LAMBDA r, s : r.day < s.day)
NewestFirst(rows) == SortSeq(rows, LAMBDA r, s : r.day > s.day)
First(rows, limit) == SubSeq(rows, 1, IF limit = 0 THEN Len(rows) ELSE Min({limit, Len(rows)}))
LastOf(rows, limit) == SubSeq(rows, Max({1, Len(rows) - limit + 1}), Len(rows))

----------------------------------------------------------------------------
\* The ways to ask.

\* Mutant of SdkCall: an exception is an answer without rows.
SdkCallEmpty(reply) ==
    IF reply.kind \in {"denied", "failed"} THEN Give(<< >>)
    ELSE IF reply.kind = "payload" THEN Refuse("payload") ELSE Give(reply.rows)

\* get_client, raise_sdk_error, sdk_call: 401, 402 and 403 are the key's fault.
SdkCall(reply) ==
    IF reply.kind = "denied" THEN Refuse("unauthorized")
    ELSE IF reply.kind = "failed" THEN Refuse("failed")
    ELSE IF reply.kind = "payload" THEN Refuse("payload") ELSE Give(reply.rows)

\* The ways an error object is taken: for a refusal, for rows that are all filtered
\* out, or for rows, which then have no fields to read.
TakenAs(out, tag) == IF out.tag = "payload" THEN Refuse(tag) ELSE out

\* _unwrap, _fetch_list_sync, _fetch_news, _fetch_yields and their like.
Listed(reply) == Then(TakenAs(SdkCall(reply), "unauthorized"), Some)

\* A quote or a list of quotes: what has no close is dropped.
Quoted(reply) == Then(TakenAs(SdkCall(reply), "empty"), LAMBDA rows : Some(Keep(rows, Valued)))

Crashing(reply) == Then(TakenAs(SdkCall(reply), "crash"), Some)

Sections == {"General", "SharesStats", "Highlights", "Valuation", "ESGScores", "ETF_Data",
             "Earnings", "AnalystRatings", "Holders", "Financials"}

\* get_bundle: an error object is a bundle without sections.
Bundle(reply) ==
    LET out == SdkCall(reply)
        Answer(tag, sections) == [tag |-> tag, rows |-> out.rows, sections |-> sections]
    IN  CASE out.tag = "payload" -> Answer("rows", {})
          [] out.tag = "rows" -> Answer(IF reply.sections = {} THEN "empty" ELSE "rows", reply.sections)
          [] OTHER -> Answer(out.tag, {})

\* A fetcher that reads one section, as a snapshot or as rows.
Snapshot(reply, sections) ==
    LET b == Bundle(reply) IN
    IF b.tag # "rows" THEN Refuse(b.tag)
    ELSE IF b.sections \cap sections = {} THEN Refuse("empty") ELSE Give(<<"snapshot">>)

Section(reply, sections) ==
    LET b == Bundle(reply) IN
    IF b.tag # "rows" THEN Refuse(b.tag)
    ELSE Give(IF b.sections \cap sections = {} THEN << >> ELSE b.rows)

----------------------------------------------------------------------------
\* Calendars and lists.
CalendarEarnings(reply) == Then(Listed(reply), LAMBDA rows : Give(Keep(rows, LAMBDA r : Dated(r) /\ Keyed(r))))
CalendarIpo(reply, wanted, limit) ==
    Then(Listed(reply), LAMBDA rows : Give(First(Keep(rows, LAMBDA r : wanted => Keyed(r)), limit)))
CalendarSplits(reply) ==
    Then(Listed(reply), LAMBDA rows : Give(Keep(rows, LAMBDA r : Dated(r) /\ Keyed(r) /\ Valued(r))))
HistoricalDividends(reply) == Then(Listed(reply), LAMBDA rows : Give(ByDay(Keep(rows, Dated))))
HistoricalSplits(reply) ==
    Then(Listed(reply), LAMBDA rows : Give(ByDay(Keep(rows, LAMBDA r : Dated(r) /\ Valued(r)))))
InsiderTrading(reply) == Listed(reply)
GovernmentTrades(reply) == Then(Listed(reply), LAMBDA rows : Give(Keep(rows, Dated)))
WorldNews(reply) == Then(Listed(reply), LAMBDA rows : Give(Keep(rows, LAMBDA r : Dated(r) /\ Keyed(r))))
CompanyNews(reply, symbol) ==
    IF ~symbol THEN Refuse("failed")
    ELSE Then(WorldNews(reply), LAMBDA rows : Give(Keep(rows, Valued)))
EquityScreener(reply) == Then(Listed(reply), LAMBDA rows : Give(Keep(rows, Keyed)))

\* Search: a query of blanks is refused before anything is asked.
Search(reply, blank) == IF blank THEN Refuse("failed") ELSE Crashing(reply)
CurrencyPairs(reply, needle) ==
    Then(Crashing(reply), LAMBDA rows : Give(Keep(rows, LAMBDA r : Keyed(r) /\ (needle => Valued(r)))))
AvailableIndices(reply, needle) == CurrencyPairs(reply, needle)
EquityQuote(reply) == Quoted(reply)

\* The base is no counter of itself; without counters there is nothing to ask for.
CurrencySnapshots(reply, counters) == IF counters = 0 THEN Refuse("failed") ELSE Quoted(reply)
HistoricalMarketCap(reply) ==
    Then(TakenAs(SdkCall(reply), "empty"),
         LAMBDA rows : Then(Some(Keep(rows, LAMBDA r : Dated(r) /\ Valued(r))), LAMBDA kept : Give(ByDay(kept))))

----------------------------------------------------------------------------
\* Bars: one call a symbol, and one refusal is everybody's.
FetchBars(replies) ==
    LET answers == [i \in DOMAIN replies |-> TakenAs(SdkCall(replies[i]), "unauthorized")]
        refused == {i \in DOMAIN replies : answers[i].tag # "rows"}
        Tagged(i) == [k \in DOMAIN answers[i].rows |->
                         answers[i].rows[k] @@ [symbol |-> IF Len(replies) > 1 THEN i ELSE 0]]
    IN  IF refused # {} THEN answers[Min(refused)]
        ELSE Some(FlattenSeq([i \in DOMAIN replies |-> Tagged(i)]))

\* rows_from_bars: no close or no date, no bar; by symbol, then by date.
RowsFromBars(bars) ==
    SortSeq(Keep(bars, LAMBDA r : Dated(r) /\ Valued(r)),
            LAMBDA r, s : r.symbol < s.symbol \/ (r.symbol = s.symbol /\ r.day < s.day))

EquityHistorical(replies) == Then(FetchBars(replies), LAMBDA bars : Give(RowsFromBars(bars)))
CryptoHistorical(replies) == EquityHistorical(replies)
CurrencyHistorical(replies) == EquityHistorical(replies)
IndexHistorical(replies) == EquityHistorical(replies)

\* The yield of a day: dividends of the year that ends with it, over its close.
TrailingYield(prices, dividends, year, limit) ==
    LET asked == SdkCall(dividends)
        paid == IF asked.tag = "rows" THEN Keep(asked.rows, LAMBDA r : Dated(r) /\ Valued(r)) ELSE << >>
        Ttm(d) == Len(Keep(paid, LAMBDA r : d - year < r.day /\ r.day <= d))
        Yields(bars) ==
            Then(Some(Keep(bars, LAMBDA r : Dated(r) /\ Valued(r))),
                 LAMBDA kept : Give(LastOf([i \in DOMAIN kept |-> [day |-> kept[i].day, ttm |-> Ttm(kept[i].day)]], limit)))
    IN  IF asked.tag \in {"unauthorized", "failed"} THEN asked
        ELSE Then(Then(TakenAs(SdkCall(prices), "empty"), Some), Yields)

----------------------------------------------------------------------------
\* Macro series.
SeriesSync(reply) ==
    Then(TakenAs(SdkCall(reply), "unauthorized"), LAMBDA rows : Give(Keep(rows, LAMBDA r : Dated(r) /\ Valued(r))))
Windowed(rows, start, end) == ByDay(Keep(rows, LAMBDA r : start <= r.day /\ r.day <= end))
SingleSeries(reply, start, end) == Then(SeriesSync(reply), LAMBDA rows : Some(Windowed(rows, start, end)))
GdpReal(reply, start, end) == SingleSeries(reply, start, end)
GdpNominal(reply, start, end) == SingleSeries(reply, start, end)
Unemployment(reply, start, end) == SingleSeries(reply, start, end)
ConsumerPriceIndex(reply, start, end, transform) ==
    IF transform \notin {"yoy", "index"} THEN Refuse("failed") ELSE SingleSeries(reply, start, end)

\* One call a country and indicator, in order.
EconomicIndicators(replies, start, end) ==
    LET answers == [i \in DOMAIN replies |-> SeriesSync(replies[i])]
        refused == {i \in DOMAIN replies : answers[i].tag # "rows"}
    IN  IF refused # {} THEN answers[Min(refused)]
        ELSE Some(Windowed(FlattenSeq([i \in DOMAIN replies |-> answers[i].rows]), start, end))

\* One profile of several series; of what can go wrong with one only an error object
\* is more than a gap.
CountryProfile(replies) ==
    LET answers == [i \in DOMAIN replies |-> SeriesSync(replies[i])]
        Latest(rows) == Max({r.day : r \in ToSet(rows)})
        filled == {i \in DOMAIN replies : answers[i].rows # << >>}
    IN  IF \E i \in DOMAIN replies : replies[i].kind = "payload" THEN Refuse("unauthorized")
        ELSE IF filled = {} THEN Refuse("empty")
        ELSE Give(<<[i \in filled |-> Latest(answers[i].rows)]>>)

----------------------------------------------------------------------------
\* Treasury: a day has the tenors that are mapped and rated.
YieldDays(rows) == {r.day : r \in ToSet(Keep(rows, LAMBDA r : Dated(r) /\ Keyed(r) /\ Valued(r)))}
TreasuryRates(reply, start, end) ==
    Then(Listed(reply), LAMBDA rows :
         Some(SetToSortSeq({d \in YieldDays(rows) : start <= d /\ d <= end}, <)))

\* The curve of a day is the latest one at or before it (every tenor has a place in a curve:
\* of a day with nothing but a 4-month rate the code draws none).
YieldCurve(reply, wanted) ==
    Then(Listed(reply), LAMBDA rows :
         LET days == YieldDays(rows)
             asked == IF wanted = << >> /\ days # {} THEN <<Max(days)>> ELSE wanted
             known == SelectSeq(asked, LAMBDA w : \E d \in days : d <= w)
         IN  IF days = {} THEN Refuse("empty")
             ELSE Some([i \in DOMAIN known |-> Max({d \in days : d <= known[i]})]))

----------------------------------------------------------------------------
\* Fundamentals.
EquityInfo(reply) == Snapshot(reply, {"General"})
ShareStatistics(reply) == Snapshot(reply, {"SharesStats"})
KeyMetrics(reply) == Snapshot(reply, {"Highlights", "Valuation"})
FinancialRatios(reply) == Snapshot(reply, {"Highlights", "Valuation"})
EsgScore(reply) == Snapshot(reply, {"ESGScores"})
EtfInfo(reply) == Snapshot(reply, {"ETF_Data"})
EtfRows(reply, kept) == Then(EtfInfo(reply), LAMBDA snapshot : Then(Some(kept), Give))
EtfHoldings(reply) == EtfRows(reply, Section(reply, {"ETF_Data"}).rows)
EtfSectors(reply) == EtfRows(reply, Keep(Section(reply, {"ETF_Data"}).rows, Valued))
EtfCountries(reply) == EtfRows(reply, Keep(Section(reply, {"ETF_Data"}).rows, Valued))
KeyExecutives(reply) == Then(Section(reply, {"General"}), LAMBDA rows : Some(Keep(rows, Keyed)))

\* These do not look whether there is anything to answer.
HistoricalEps(reply) == Then(Section(reply, {"Earnings"}), LAMBDA rows : Give(ByDay(Keep(rows, Dated))))
AnalystEstimates(reply) == HistoricalEps(reply)
ForwardEpsEstimates(reply) == HistoricalEps(reply)
PriceTargetConsensus(reply) ==
    Then(Section(reply, {"AnalystRatings"}), LAMBDA rows : Give(First(Keep(rows, Valued), 1)))
InstitutionalOwnership(reply) == Then(Section(reply, {"Holders"}), LAMBDA rows : Give(Keep(rows, Dated)))
EquityOwnership(reply) ==
    Then(Section(reply, {"Holders"}), LAMBDA rows : Give(Keep(rows, LAMBDA r : Dated(r) /\ Keyed(r))))

\* Statements: the newest entries first, cut, then those without a date left out.
Statement(reply, limit) ==
    Then(Section(reply, {"Financials"}),
         LAMBDA rows : Some(Keep(First(NewestFirst(rows), limit), Dated)))
IncomeStatement(reply, limit) == Statement(reply, limit)
BalanceSheet(reply, limit) == Statement(reply, limit)
CashFlowStatement(reply, limit) == Statement(reply, limit)

----------------------------------------------------------------------------
\* Every fetcher, of a reply to what it asks first; those that ask more than once (a second
\* symbol, another series, the prices after the dividends) get `other` then.
Answers(reply, other) ==
    [earnings |-> CalendarEarnings(reply), ipo |-> CalendarIpo(reply, TRUE, 1),
     splitcal |-> CalendarSplits(reply), dividends |-> HistoricalDividends(reply),
     splits |-> HistoricalSplits(reply), insider |-> InsiderTrading(reply),
     trades |-> GovernmentTrades(reply), news |-> CompanyNews(reply, TRUE),
     screener |-> EquityScreener(reply), search |-> Search(reply, FALSE),
     pairs |-> CurrencyPairs(reply, TRUE), indices |-> AvailableIndices(reply, FALSE),
     quote |-> EquityQuote(reply), snapshots |-> CurrencySnapshots(reply, 2),
     cap |-> HistoricalMarketCap(reply), bars |-> EquityHistorical(<<reply>>),
     crypto |-> CryptoHistorical(<<reply, other>>), forex |-> CurrencyHistorical(<<reply>>),
     index |-> IndexHistorical(<<reply>>), yield |-> TrailingYield(other, reply, 1, 1),
     growth |-> GdpReal(reply, 1, 2), gdp |-> GdpNominal(reply, 1, 2), jobless |-> Unemployment(reply, 1, 2),
     cpi |-> ConsumerPriceIndex(reply, 1, 2, "yoy"), macro |-> EconomicIndicators(<<reply, other>>, 1, 2),
     profile |-> CountryProfile(<<reply, other>>),
     treasury |-> TreasuryRates(reply, 1, 2), curve |-> YieldCurve(reply, <<1, 2>>),
     info |-> EquityInfo(reply), stats |-> ShareStatistics(reply), metrics |-> KeyMetrics(reply),
     ratios |-> FinancialRatios(reply), esg |-> EsgScore(reply), etf |-> EtfInfo(reply),
     holdings |-> EtfHoldings(reply), sectors |-> EtfSectors(reply), regions |-> EtfCountries(reply),
     officers |-> KeyExecutives(reply), eps |-> HistoricalEps(reply), trend |-> AnalystEstimates(reply),
     forward |-> ForwardEpsEstimates(reply), target |-> PriceTargetConsensus(reply),
     holders |-> InstitutionalOwnership(reply), owners |-> EquityOwnership(reply),
     income |-> IncomeStatement(reply, 1), balance |-> BalanceSheet(reply, 2), cash |-> CashFlowStatement(reply, 0)]

\* Those that ask once more, and those that read the bundle of fundamentals.
Twice == {"crypto", "macro", "yield", "profile"}
OfBundle == {"info", "stats", "metrics", "ratios", "esg", "etf", "holdings", "sectors", "regions",
             "officers", "eps", "trend", "forward", "target", "holders", "owners", "income",
             "balance", "cash"}
Rejected(reply) == reply.kind \in {"denied", "failed"}
ToldAs(reply) == IF reply.kind = "denied" THEN "unauthorized" ELSE "failed"
Usable(reply) == \E r \in ToSet(reply.rows) : Dated(r) /\ Valued(r) /\ Keyed(r)

\* Who tells a refusal from an answer without rows (_client.py 76-105):
\*  - of a rejected key or an outage every fetcher does, of its second call as of its first,
\*    except a country profile, to which a series it cannot have is one it has not: with no
\*    other series it says there is none (macro.py 430-443);
\*  - of an error object under HTTP 200 every fetcher does but a quote, a snapshot, a market
\*    cap and those of the bundle, which say there is nothing (quote.py 64-68, market_cap.py
\*    59-61, _fundamentals.py 77), and a yield, to which it means no dividends
\*    (dividend_yield.py 73);
\*  - and none says there is nothing when the vendor sent a row it can use.
RefusalsAreTold(reply, other) ==
    LET answers == Answers(reply, other)
        Fetchers == DOMAIN answers
        Of(tags) == {f \in Fetchers : answers[f].tag \in tags}
    IN  /\ Rejected(reply) =>
              /\ Of({ToldAs(reply)}) \cup {"profile"} = Fetchers
              /\ answers.profile = CountryProfile(<<[reply EXCEPT !.kind = "rows"], other>>)
        /\ ~Rejected(reply) /\ Rejected(other) =>
              /\ reply.kind # "payload" => {"crypto", "macro", "yield"} \subseteq Of({ToldAs(other)})
              /\ answers.profile = CountryProfile(<<reply, [other EXCEPT !.kind = "rows"]>>)
        /\ reply.kind = "payload" =>
              /\ Of({"rows", "empty"}) \ {"yield"} = {"quote", "snapshots", "cap"} \cup OfBundle
              /\ answers.yield = TrailingYield(other, [reply EXCEPT !.kind = "rows"], 1, 1)
        /\ Usable(reply) /\ reply.sections = Sections =>
              /\ Fetchers \ Twice \subseteq Of({"rows"})
              /\ Usable(other) => Twice \subseteq Of({"rows"})
============================================================================
