------------------------------- MODULE Ledger -------------------------------
(***************************************************************************)
(* The commissions of one provider: how a payment is split, what the       *)
(* overview adds up from four separate reads, and the chart that groups    *)
(* the rows of the last days.  Amounts are in cents, rates in hundredths of *)
(* a percent.                                                              *)
(***************************************************************************)
EXTENDS Money, FiniteSets

CONSTANTS
    Commission,  \* rows of commissions, one per payment
    Amount,      \* what is paid
    Rate,        \* Provider.commissionRate
    Days,        \* length of the chart
    LastDay      \* bound of the model on the calendar

ASSUME LedgerAssumption ==
    /\ IsFiniteSet(Commission) /\ Amount \subseteq Nat /\ Rate \subseteq 0..10000
    /\ Days \in Nat \ {0} /\ LastDay \in Nat

VARIABLES
    ledger,      \* the rows
    day,         \* the date
    query        \* an overview or chart being put together

ledgerVars == <<ledger, day, query>>

NoRow == [gross |-> 0, platform |-> 0, provider |-> 0, on |-> -1, paid |-> FALSE]
NoQuery == [kind |-> "NONE"]
Unread == -1

LedgerInit ==
    /\ ledger = [c \in Commission |-> NoRow]
    /\ day = 0
    /\ query = NoQuery

Recorded == {c \in Commission : ledger[c] # NoRow}
PlatformPart(c) == ledger[c].platform
ProviderPart(c) == ledger[c].provider

\* What the rows of S add up to, cent by cent.
PlatformCents(S) == UNION {{c} \X (1..PlatformPart(c)) : c \in S}
ProviderCents(S) == UNION {{c} \X (1..ProviderPart(c)) : c \in S}

\* A statement that changes a row while an overview or a chart is read is noted there.
Meanwhile == IF query.kind = "NONE" THEN query ELSE [query EXCEPT !.torn = TRUE]

\* What the platform keeps of a payment, exactly.
Share(gross, rate) == gross * rate

\* recordForPayment: both parts are exact when computed, and rounded when stored.
RecordForPayment(c, gross, rate) ==
    /\ ledger[c] = NoRow
    /\ ledger' = [ledger EXCEPT ![c] =
          [gross |-> gross, platform |-> Cents(Share(gross, rate)),
           provider |-> Cents(Exact(gross) - Share(gross, rate)), on |-> day, paid |-> FALSE]]
    /\ query' = Meanwhile
    /\ UNCHANGED day

\* markPaidOut.
MarkPaidOut(c) ==
    /\ c \in Recorded
    /\ ledger' = [ledger EXCEPT ![c].paid = TRUE]
    /\ query' = Meanwhile
    /\ UNCHANGED day

NextDay ==
    /\ day < LastDay
    /\ day' = day + 1
    /\ query' = IF query.kind = "CHART" THEN [query EXCEPT !.midnight = TRUE] ELSE query
    /\ UNCHANGED ledger

-----------------------------------------------------------------------------
(* The overview: getSummary.                                               *)

AskSummary ==
    /\ query' = [kind |-> "SUMMARY", torn |-> FALSE,
                 count |-> Unread, total |-> Unread, paid |-> Unread, pending |-> Unread]
    /\ UNCHANGED <<ledger, day>>

Pending == {c \in Recorded : ~ledger[c].paid}
Paid == {c \in Recorded : ledger[c].paid}

Reading ==
    [count |-> Cardinality(Recorded),
     total |-> Cardinality(ProviderCents(Recorded)),
     paid |-> Cardinality(ProviderCents(Paid)),
     pending |-> Cardinality(ProviderCents(Pending))]

\* Four statements in flight at once.
ReadSummary(f) ==
    /\ query.kind = "SUMMARY" /\ query[f] = Unread
    /\ query' = [query EXCEPT ![f] = Reading[f]]
    /\ UNCHANGED <<ledger, day>>

-----------------------------------------------------------------------------
(* The chart: getMyAnalytics for the provider, analytics for the platform. *)

AskChart(side) ==
    /\ query' = [kind |-> "CHART", side |-> side, since |-> day - (Days - 1),
                 torn |-> FALSE, midnight |-> FALSE, stage |-> "ASKED", found |-> {},
                 shown |-> Unread, total |-> Unread]
    /\ UNCHANGED <<ledger, day>>

\* findByProviderIdSince, findAllCommissionsSince.
FindSince ==
    /\ query.kind = "CHART" /\ query.stage = "ASKED"
    /\ query' = [query EXCEPT !.stage = "FOUND", !.found = {c \in Recorded : ledger[c].on >= query.since}]
    /\ UNCHANGED <<ledger, day>>

\* getPlatformCommissionSummary, in flight with the statement above.
GetPlatformCommissionSummary ==
    /\ query.kind = "CHART" /\ query.side = "PLATFORM" /\ query.total = Unread
    /\ query' = [query EXCEPT !.total = Cardinality(PlatformCents(Recorded))]
    /\ UNCHANGED <<ledger, day>>

(* Mutant: the loop over the days stops before today.                      *)
DaysUpToYesterday == (day - (Days - 1))..(day - 1)

\* The days of the chart, counted back from a second look at the date.
DaysShown == (day - (Days - 1))..day

OfDaysShown(S) == {c \in S : ledger[c].on \in DaysShown}
GroupCommissionsByDay(S) == Cardinality(ProviderCents(OfDaysShown(S)))
GroupPlatformCommissionsByDay(S) == Cardinality(PlatformCents(OfDaysShown(S)))

\* The bars, added up.
Group ==
    /\ query.kind = "CHART" /\ query.stage = "FOUND"
    /\ query' = [query EXCEPT !.stage = "SHOWN", !.shown =
          IF query.side = "PROVIDER" THEN GroupCommissionsByDay(query.found)
          ELSE GroupPlatformCommissionsByDay(query.found)]
    /\ UNCHANGED <<ledger, day>>

LedgerNext ==
    \/ \E c \in Commission :
         MarkPaidOut(c) \/ \E gross \in Amount, rate \in Rate : RecordForPayment(c, gross, rate)
    \/ NextDay
    \/ AskSummary \/ \E f \in {"count", "total", "paid", "pending"} : ReadSummary(f)
    \/ \E side \in {"PROVIDER", "PLATFORM"} : AskChart(side)
    \/ FindSince \/ GetPlatformCommissionSummary \/ Group

LedgerSpec == LedgerInit /\ [][LedgerNext]_ledgerVars

-----------------------------------------------------------------------------
(* Properties.                                                             *)

\* Rows and dates are of their kinds.
LedgerTypeOK ==
    /\ day \in 0..LastDay
    /\ \A c \in Recorded : ledger[c].gross \in Amount /\ ledger[c].on \in 0..day

\* The two parts of a payment differ from it by a cent at most, and never fall short.
SplitWithinCent ==
    \A c \in Recorded :
      PlatformPart(c) + ProviderPart(c) - ledger[c].gross \in {0, 1}

\* An overview no commission changed under: paid and pending are all there is.
SummaryAddsUp ==
    query.kind = "SUMMARY" /\ ~query.torn
      /\ Unread \notin {query.count, query.total, query.paid, query.pending} =>
        query.total = query.paid + query.pending /\ (query.count = 0 => query.total = 0)

\* The bars of a chart hold every commission that was read for it, today's and that of
\* the first day included, unless it was put together across midnight.
ChartAddsUp ==
    query.kind = "CHART" /\ ~query.midnight /\ query.stage = "SHOWN" =>
      query.shown = Cardinality(IF query.side = "PROVIDER" THEN ProviderCents(query.found)
                                ELSE PlatformCents(query.found))

\* The platform's chart never shows more than the revenue beside it, whatever the dates,
\* if no commission changed while the two were read.
ChartWithinRevenue ==
    query.kind = "CHART" /\ ~query.torn /\ query.stage = "SHOWN" /\ query.total # Unread =>
      query.shown <= query.total

LedgerAddsUp == SplitWithinCent /\ SummaryAddsUp /\ ChartAddsUp /\ ChartWithinRevenue
=============================================================================
