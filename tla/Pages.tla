------------------------------- MODULE Pages --------------------------------
(***************************************************************************)
(* The lists of the platform, and a reader who walks through one page by   *)
(* page while its table changes.  A page is "skip so many, take so many"   *)
(* of the rows as they are at that moment, with the number of pages there  *)
(* are; nothing ties one page to the next.                                 *)
(*                                                                         *)
(* A list is which rows it shows and in which order, so two lists of the   *)
(* code that agree on both are one value here.  What the reader asks for    *)
(* stays the same during a walk; what the rows say does not: an edit may   *)
(* give a row another name or code, and so another place, and may make it  *)
(* match the reader's search words or no longer.  What a page adds to its  *)
(* rows from other tables, and leaves out of them, is left out here too.   *)
(***************************************************************************)
EXTENDS Integers, FiniteSets

CONSTANTS
    Entry,        \* rows of the table, in the order of their insertion
    DefaultLimit, \* rows on a page when the reader does not say
    MaxLimit,     \* most rows on a page
    LastRank,     \* bound of the model: values of the column a list is ordered by
    MaxWrites     \* bound of the model: changes of the table during a walk

ASSUME PagesAssumption ==
    /\ Entry \subseteq Nat /\ LastRank \in Nat /\ MaxWrites \in Nat
    /\ MaxLimit \in Nat \ {0} /\ DefaultLimit \in 1..MaxLimit

VARIABLES
    list,         \* the list that is read
    asked,        \* status the reader asks for, or "ANY"
    limit,        \* rows on a page
    entry,        \* the rows inserted so far
    page,         \* pages read so far
    more,         \* the last page said that there is another one
    writes,       \* changes of the table since the first page
    seen,         \* how often a row was on a page
    slipped,      \* history: rows that came into the list during the walk, or moved up in
                  \* it, when they had not been seen yet
    pushed,       \* history: how often a row that had been seen was moved back
    tied          \* history: rows that were level with another one when a page was read

pageVars == <<list, asked, limit, entry, page, more, writes, seen, slipped, pushed, tied>>

----------------------------------------------------------------------------
(* "LIVE" shows what is not deleted, "APPROVED" of that what has this      *)
(* status, "ALL" the rows of a table nothing is deleted from.  "OWN" and   *)
(* "OWN LIVE" keep to the rows of the one who asks: a user, an             *)
(* organization, a conversation, a post.  A list that narrows takes a      *)
(* status from the reader.                                                 *)

AsList(shows, narrows, orders) ==
    [shows : {shows}, narrows : {narrows}, order : orders]

ListProperties == AsList("APPROVED", FALSE, {"NEWEST", "NAME"})
ListMyProperties == AsList("OWN LIVE", TRUE, {"NEWEST"})
ListPropertiesForModeration == AsList("LIVE", TRUE, {"NEWEST"})
ListTours == AsList("APPROVED", FALSE, {"NEWEST", "NAME"})
ListMyTours == AsList("OWN LIVE", TRUE, {"NEWEST"})
ListToursForModeration == AsList("LIVE", TRUE, {"NEWEST"})
ListExperiences == AsList("APPROVED", FALSE, {"NEWEST", "NAME"})
ListMyExperiences == AsList("OWN LIVE", TRUE, {"NEWEST"})
ListExperiencesForModeration == AsList("LIVE", TRUE, {"NEWEST"})
ListFlights == AsList("APPROVED", FALSE, {"NEWEST"})
ListMyFlights == AsList("OWN LIVE", TRUE, {"NEWEST"})
ListFlightsForModeration == AsList("LIVE", TRUE, {"NEWEST"})
ListRoutes == AsList("APPROVED", FALSE, {"NEWEST"})
ListMyRoutes == AsList("OWN LIVE", TRUE, {"NEWEST"})
ListRoutesForModeration == AsList("LIVE", TRUE, {"NEWEST"})
ListVehicles == AsList("APPROVED", FALSE, {"NEWEST"})
ListMyVehicles == AsList("OWN LIVE", TRUE, {"NEWEST"})
ListVehiclesForModeration == AsList("LIVE", TRUE, {"NEWEST"})
ListMyAircraft == AsList("OWN LIVE", TRUE, {"NEWEST"})
ListAircraftForModeration == AsList("LIVE", TRUE, {"NEWEST"})
ListAirports == AsList("LIVE", FALSE, {"CODE"})
ListDestinations == AsList("LIVE", FALSE, {"NEWEST"})
ListTravelGuides == AsList("LIVE", FALSE, {"NEWEST"})
ListBlogPosts == AsList("LIVE", FALSE, {"NEWEST"})
ListPosts == AsList("LIVE", FALSE, {"NEWEST"})
ListMyPosts == AsList("OWN LIVE", FALSE, {"NEWEST"})
ListComments == AsList("OWN LIVE", FALSE, {"OLDEST"})
ListCommentsForModeration == AsList("LIVE", FALSE, {"NEWEST"})
ListReviews == AsList("LIVE", FALSE, {"NEWEST"})
ListReviewsAsProvider == AsList("OWN LIVE", FALSE, {"NEWEST"})
ListTrips == AsList("OWN LIVE", FALSE, {"NEWEST"})
ListMessages == AsList("OWN", FALSE, {"NEWEST"})
ListNotifications == AsList("OWN", FALSE, {"NEWEST"})
ListUsers == AsList("LIVE", FALSE, {"NEWEST"})
ListProviders == AsList("ALL", TRUE, {"NEWEST"})
ListHotelBookings == AsList("ALL", TRUE, {"NEWEST"})
ListTourBookings == AsList("ALL", TRUE, {"NEWEST"})
ListExperienceBookings == AsList("ALL", TRUE, {"NEWEST"})
ListTransportBookings == AsList("ALL", TRUE, {"NEWEST"})
ListFlightBookings == AsList("ALL", TRUE, {"NEWEST"})
ListPayments == AsList("ALL", TRUE, {"NEWEST"})
ListMyPayments == AsList("OWN", FALSE, {"NEWEST"})
ListCommissions == AsList("ALL", FALSE, {"NEWEST"})
ListMyCommissions == AsList("OWN", FALSE, {"NEWEST"})
ListCoupons == AsList("LIVE", FALSE, {"NEWEST"})
ListPromotions == AsList("LIVE", FALSE, {"NEWEST"})
ListMyPromotions == AsList("OWN LIVE", FALSE, {"NEWEST"})
ListReports == AsList("ALL", TRUE, {"NEWEST"})
ListActivityLogs == AsList("ALL", FALSE, {"NEWEST"})

Lists ==
    ListProperties \cup ListMyProperties \cup ListPropertiesForModeration
    \cup ListTours \cup ListMyTours \cup ListToursForModeration \cup ListExperiences
    \cup ListMyExperiences \cup ListExperiencesForModeration \cup ListFlights
    \cup ListMyFlights \cup ListFlightsForModeration \cup ListRoutes
    \cup ListMyRoutes \cup ListRoutesForModeration \cup ListVehicles
    \cup ListMyVehicles \cup ListVehiclesForModeration \cup ListMyAircraft
    \cup ListAircraftForModeration \cup ListAirports \cup ListDestinations
    \cup ListTravelGuides \cup ListBlogPosts \cup ListPosts \cup ListMyPosts
    \cup ListComments \cup ListCommentsForModeration \cup ListReviews
    \cup ListReviewsAsProvider \cup ListTrips \cup ListMessages
    \cup ListNotifications \cup ListUsers \cup ListProviders \cup ListHotelBookings
    \cup ListTourBookings \cup ListExperienceBookings \cup ListTransportBookings
    \cup ListFlightBookings \cup ListPayments \cup ListMyPayments
    \cup ListCommissions \cup ListMyCommissions \cup ListCoupons \cup ListPromotions
    \cup ListMyPromotions \cup ListReports \cup ListActivityLogs

----------------------------------------------------------------------------
Status == {"PENDING", "APPROVED"}     \* one that is asked for, and the others

HasStatus == list.narrows \/ list.shows = "APPROVED"
Owned == list.shows \in {"OWN", "OWN LIVE"}

\* Lists with search words or filters on columns an edit may change.
Searched ==
    list \in ListProperties \cup ListTours \cup ListExperiences \cup ListFlights \cup ListRoutes
               \cup ListVehicles \cup ListAirports \cup ListDestinations \cup ListTravelGuides
               \cup ListBlogPosts \cup ListUsers \cup ListCoupons
Deletable == list.shows \notin {"ALL", "OWN"}

\* The where of the query.  A row fits when it is the reader's, where the list is, and his
\* search words and filters find it.
Shows(e) ==
    /\ e.fits /\ e.live
    /\ list.shows = "APPROVED" => e.status = "APPROVED"
    /\ asked \in {"ANY", e.status}

\* The orderBy: x comes before y.  Equal ranks come in any order, on every page anew.
Precedes(x, y) == IF list.order = "NEWEST" THEN x.rank > y.rank ELSE x.rank < y.rank

Before(a, b) == Precedes(entry[a], entry[b])

\* What a table shows, and what of that comes before row r of it.
ShownIn(rows) == {e \in DOMAIN rows : Shows(rows[e])}
AheadIn(rows, r) == {o \in ShownIn(rows) : Precedes(rows[o], rows[r])}

Shown == ShownIn(entry)
Tied == {r \in Shown : \E o \in Shown \ {r} : entry[o].rank = entry[r].rank}

(* resolvePagination; 0 stands for a limit that is not given.              *)
Limit(given) ==
    IF given = 0 THEN DefaultLimit
    ELSE CHOOSE n \in 1..MaxLimit : n = given \/ (given > MaxLimit /\ n = MaxLimit)

(* Mutant: pages are counted from 0.                                       *)
SkipFromZero(p) == p * limit

Skip(p) == (p - 1) * limit

\* buildPaginated: how many pages there are for so many rows.
TotalPages(n) == IF n = 0 THEN 1 ELSE (n + limit - 1) \div limit

(* What page p may hold: of the rows left after those it skips, as many as *)
(* it takes, with no row behind one that comes after it.                   *)
InOrder(S, T) == \A a \in S, b \in T : ~Before(b, a)

PageOf(p) ==
    LET left == Cardinality(Shown) - Skip(p)
    IN IF left <= 0 THEN {{}}
       ELSE {on \in SUBSET Shown :
                /\ Cardinality(on) = IF left < limit THEN left ELSE limit
                /\ \E skipped \in SUBSET (Shown \ on) :
                      /\ Cardinality(skipped) = Skip(p)
                      /\ InOrder(skipped, Shown \ skipped)
                      /\ InOrder(on, Shown \ (skipped \cup on))}

PagesInit ==
    /\ list \in Lists
    /\ asked \in IF list.narrows THEN Status \cup {"ANY"} ELSE {"ANY"}
    /\ \E given \in 0..(MaxLimit + 1) : limit = Limit(given)
    /\ entry = <<>> /\ page = 0 /\ more = TRUE /\ writes = 0
    /\ seen = [e \in Entry |-> 0]
    /\ slipped = {} /\ pushed = [e \in Entry |-> 0] /\ tied = {}

\* The rows that have not been seen yet and come in, or move up, and those that have been
\* seen and move back, when the table becomes rows.
Slips(rows) ==
    {r \in ShownIn(rows) :
        /\ seen[r] = 0
        /\ r \in Shown => ~(AheadIn(entry, r) \subseteq AheadIn(rows, r))}
Pushes(rows) ==
    {r \in DOMAIN entry : seen[r] > 0 /\ ~(AheadIn(rows, r) \subseteq AheadIn(entry, r))}

\* The rows, with a note of who moved if the walk has begun.
Write(rows) ==
    /\ entry' = rows
    /\ IF page = 0 THEN UNCHANGED <<writes, slipped, pushed>>
       ELSE /\ writes < MaxWrites /\ writes' = writes + 1
            /\ slipped' = slipped \cup Slips(rows)
            /\ pushed' = [r \in Entry |-> IF r \in Pushes(rows) THEN pushed[r] + 1 ELSE pushed[r]]
    /\ UNCHANGED <<list, asked, limit, page, more, seen, tied>>

\* The places a row may be given: by name any, by code one that is free, or else, to a new
\* row, the latest of all or of one instant with it.  Before the walk begins rows are taken
\* to be numbered by their names: which of them is which makes no difference.
Ranks ==
    LET taken == {entry[e].rank : e \in DOMAIN entry}
        latest == {k \in taken \cup {0} : \A t \in taken : t <= k}
    IN CASE list.order = "CODE" -> (1..LastRank) \ taken
         [] list.order = "NAME" -> {k \in 1..LastRank : page > 0 \/ \A t \in taken : t <= k}
         [] OTHER -> {k \in 1..LastRank : k \in latest \/ k - 1 \in latest}

\* Before the walk begins a row may have got its status already.
AddEntry ==
    \E e \in Entry \ DOMAIN entry, k \in Ranks,
       f \in IF Owned \/ Searched THEN BOOLEAN ELSE {TRUE},
       s \in IF page = 0 /\ HasStatus THEN Status ELSE {"PENDING"} :
        /\ \A o \in Entry : o < e => o \in DOMAIN entry
        /\ Write([o \in DOMAIN entry \cup {e} |->
                    IF o = e THEN [rank |-> k, fits |-> f, live |-> TRUE, status |-> s]
                             ELSE entry[o]])

\* Its status changes: moderation, an edit, a cancellation, a job.
SetStatus(e, s) ==
    /\ HasStatus /\ entry[e].status # s
    /\ Write([entry EXCEPT ![e].status = s])

\* update: a row that is there gets another name, title or code, and with that or with its
\* other columns starts or stops being what the reader searches for.
EditEntry(e, k, f) ==
    /\ entry[e].live
    /\ k # entry[e].rank => list.order \in {"NAME", "CODE"} /\ k \in Ranks
    /\ f # entry[e].fits => Searched
    /\ k # entry[e].rank \/ f # entry[e].fits
    /\ Write([entry EXCEPT ![e].rank = k, ![e].fits = f])

\* A provider removes what the reviews in S are of: they are no longer among his.
RemoveSubject(S) ==
    /\ list \in ListReviewsAsProvider
    /\ \E e \in S : entry[e].fits
    /\ Write([e \in DOMAIN entry |-> IF e \in S THEN [entry[e] EXCEPT !.fits = FALSE] ELSE entry[e]])

\* softDelete or delete; a review that is deleted comes back when it is written again.
DeleteEntry(e) ==
    /\ Deletable /\ entry[e].live
    /\ Write([entry EXCEPT ![e].live = FALSE])

RestoreEntry(e) ==
    /\ list \in ListReviews \cup ListReviewsAsProvider
    /\ ~entry[e].live
    /\ Write([entry EXCEPT ![e].live = TRUE])

\* The reader asks for the next page, as long as there is one.
ReadPage ==
    /\ more
    /\ page' = page + 1
    /\ more' = (page' < TotalPages(Cardinality(Shown)))
    /\ \E on \in PageOf(page') : seen' = [e \in Entry |-> IF e \in on THEN seen[e] + 1 ELSE seen[e]]
    /\ tied' = tied \cup Tied
    /\ UNCHANGED <<list, asked, limit, entry, writes, slipped, pushed>>

PagesNext ==
    \/ ReadPage
    \/ more /\ AddEntry
    \/ /\ more /\ page > 0
       /\ \/ \E e \in DOMAIN entry :
               \/ \E s \in Status : SetStatus(e, s)
               \/ \E k \in 1..LastRank, f \in BOOLEAN : EditEntry(e, k, f)
               \/ DeleteEntry(e) \/ RestoreEntry(e)
          \/ \E S \in SUBSET DOMAIN entry : RemoveSubject(S)

PagesSpec == PagesInit /\ [][PagesNext]_pageVars

----------------------------------------------------------------------------
(* Properties.                                                             *)

\* What the walk keeps is of its kind, and no two rows have the same code.
PagesTypeOK ==
    /\ list \in Lists /\ limit \in 1..MaxLimit
    /\ DOMAIN entry \subseteq Entry /\ seen \in [Entry -> Nat]
    /\ list.order = "CODE" => \A a, b \in DOMAIN entry : a # b => entry[a].rank # entry[b].rank

(***************************************************************************)
(* What a reader who walks from page to page can count on.  He sees a row  *)
(* again at most as often as it was moved back after he had seen it, by a   *)
(* row that came before it or by a change of its own name; comments, the   *)
(* oldest first, are never moved back.  And a row he has not seen when he  *)
(* is through came into the list during the walk, or moved up in it before *)
(* he got there.  Nothing is promised of rows that were level with another *)
(* one on a page he read: the order leaves open which of them comes first. *)
(***************************************************************************)
WalkIsWhole ==
    /\ \A r \in DOMAIN entry \ tied :
         /\ seen[r] <= 1 + pushed[r]
         /\ list.order = "OLDEST" => seen[r] <= 1
    /\ ~more => \A r \in Shown \ tied : seen[r] = 0 => r \in slipped
=============================================================================
