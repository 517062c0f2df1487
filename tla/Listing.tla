------------------------------ MODULE Listing -------------------------------
(***************************************************************************)
(* What the tables of the catalogue have in common: a row is created under *)
(* a key that was looked up before, edited, judged by a moderator and      *)
(* withdrawn by a deletedAt; the most booked public rows are served from a *)
(* cache that nobody invalidates.                                          *)
(***************************************************************************)
EXTENDS Naturals, FiniteSets

CONSTANTS
    Listing,     \* rows of the table
    Key,         \* a number: suffixes of one slug, or codes and plates
    PopularLimit \* clampLimit of the popular list

ASSUME ListingAssumption == Key \subseteq Nat \ {0} /\ PopularLimit \in Nat

VARIABLES
    verdict,     \* status of the row, "ABSENT" before its INSERT
    withdrawn,   \* rows with a deletedAt
    keyOf,       \* slug, code or plate of the row; 0: none
    drafted,     \* the key a create or an update has found free and not written yet
    content,     \* which version of its title, price, images, ... a row holds
    popular,     \* the cached list, as versions of rows, or MISS
    fetched      \* the list a request has read from the tables, or MISS

listingVars == <<verdict, withdrawn, keyOf, drafted, content, popular, fetched>>

Miss == {<<"MISS">>}
Version == Listing \X {0, 1}

ListingInit ==
    /\ verdict = [l \in Listing |-> "ABSENT"]
    /\ withdrawn = {}
    /\ keyOf = [l \in Listing |-> 0] /\ drafted = [l \in Listing |-> 0]
    /\ content = [l \in Listing |-> 0]
    /\ popular = Miss /\ fetched = Miss

Created == {l \in Listing : verdict[l] # "ABSENT"}
Kept == Created \ withdrawn                            \* WHERE deletedAt IS NULL
Approved == {l \in Kept : verdict[l] = "APPROVED"}

\* findBySlugExact, findByCode: deleted rows count.
Free(k) == \A l \in Created : keyOf[l] # k

\* generateUniqueSlug: the first suffix nobody has.
FreeSlug(k) == Free(k) /\ \A j \in Key : j < k => ~Free(j)

\* The lookups before an INSERT.
Draft(l, k) ==
    /\ verdict[l] = "ABSENT" /\ drafted[l] = 0
    /\ drafted' = [drafted EXCEPT ![l] = k]
    /\ UNCHANGED <<verdict, withdrawn, keyOf, content, popular, fetched>>

(* Mutant: the column of the key is not unique.                            *)
InsertAnyway(l, status) ==
    /\ drafted[l] # 0 /\ verdict[l] = "ABSENT"
    /\ drafted' = [drafted EXCEPT ![l] = 0]
    /\ verdict' = [verdict EXCEPT ![l] = status]
    /\ keyOf' = [keyOf EXCEPT ![l] = drafted[l]]
    /\ UNCHANGED <<withdrawn, content, popular, fetched>>

\* The INSERT; the unique key refuses it when somebody was faster.
Insert(l, status) ==
    /\ drafted[l] # 0 /\ verdict[l] = "ABSENT"
    /\ drafted' = [drafted EXCEPT ![l] = 0]
    /\ \/ /\ Free(drafted[l])
          /\ verdict' = [verdict EXCEPT ![l] = status]
          /\ keyOf' = [keyOf EXCEPT ![l] = drafted[l]]
       \/ ~Free(drafted[l]) /\ UNCHANGED <<verdict, keyOf>>
    /\ UNCHANGED <<withdrawn, content, popular, fetched>>

\* A table without a key: the INSERT is all there is.
InsertKeyless(l, status) ==
    /\ verdict[l] = "ABSENT"
    /\ verdict' = [verdict EXCEPT ![l] = status]
    /\ UNCHANGED <<withdrawn, keyOf, drafted, content, popular, fetched>>

\* An UPDATE of what the row says.  No edit changes its status.
Edit(l) ==
    /\ content' = [content EXCEPT ![l] = 1 - @]
    /\ UNCHANGED <<verdict, withdrawn, keyOf, drafted, popular, fetched>>

\* An update that changes the key looks the new one up first ...
DraftKey(l, k) ==
    /\ drafted[l] = 0 /\ keyOf[l] # k /\ Free(k)
    /\ drafted' = [drafted EXCEPT ![l] = k]
    /\ UNCHANGED <<verdict, withdrawn, keyOf, content, popular, fetched>>

\* ... and writes it by id, be the row deleted by then or not.
WriteKey(l) ==
    /\ drafted[l] # 0 /\ verdict[l] # "ABSENT"
    /\ drafted' = [drafted EXCEPT ![l] = 0]
    /\ keyOf' = IF Free(drafted[l]) THEN [keyOf EXCEPT ![l] = drafted[l]] ELSE keyOf
    /\ UNCHANGED <<verdict, withdrawn, content, popular, fetched>>

\* review: any status may follow any other.
Judge(l, status) ==
    /\ verdict' = [verdict EXCEPT ![l] = status]
    /\ UNCHANGED <<withdrawn, keyOf, drafted, content, popular, fetched>>

\* softDelete.
Withdraw(l) ==
    /\ withdrawn' = withdrawn \cup {l}
    /\ UNCHANGED <<verdict, keyOf, drafted, content, popular, fetched>>

-----------------------------------------------------------------------------
(* The popular list: cache-aside with a time to live.                      *)

\* A miss, or the cache does not answer: some of the public rows are the most booked
\* ones.  One such request at a time: a bound of the model.
FindPopular(public) ==
    /\ fetched = Miss
    /\ \E P \in SUBSET public :
         /\ Cardinality(P) <= PopularLimit
         /\ fetched' = {<<l, content[l]>> : l \in P}
    /\ UNCHANGED <<verdict, withdrawn, keyOf, drafted, content, popular>>

\* CacheService.set, with what was read some time ago; an error is only logged.
CachePopular ==
    /\ fetched # Miss
    /\ popular' \in {fetched, popular} /\ fetched' = Miss
    /\ UNCHANGED <<verdict, withdrawn, keyOf, drafted, content>>

(* Mutant: the list is cached without a time to live.                      *)
NeverLapses == FALSE /\ UNCHANGED listingVars

\* POPULAR_CACHE_TTL_SECONDS have passed.
Lapse ==
    /\ popular # Miss
    /\ popular' = Miss
    /\ UNCHANGED <<verdict, withdrawn, keyOf, drafted, content, fetched>>

-----------------------------------------------------------------------------
(* Properties.                                                             *)

\* Rows, drafts and cache are of their kinds, and no two rows share a key,
\* deleted ones included.
ListingTypeOK ==
    /\ verdict \in [Listing -> {"ABSENT", "PENDING", "APPROVED", "REJECTED"}]
    /\ withdrawn \subseteq Created
    /\ keyOf \in [Listing -> Key \cup {0}] /\ drafted \in [Listing -> Key \cup {0}]
    /\ content \in [Listing -> {0, 1}]
    /\ popular \in (SUBSET Version) \cup {Miss} /\ fetched \in (SUBSET Version) \cup {Miss}
    /\ \A l, m \in Created : keyOf[l] = keyOf[m] /\ keyOf[l] # 0 => l = m
=============================================================================
