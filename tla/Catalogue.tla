------------------------------ MODULE Catalogue -----------------------------
(***************************************************************************)
(* The tables of the catalogue and of the community, each a Listing with   *)
(* operations of its own.  They share no statement, so a behaviour is about *)
(* one of them.  A request looks its row up and then writes it by id, and  *)
(* the row may be withdrawn in between: whoever has checked a row once may *)
(* still write it now, so the writes ask for no more than that it exists.  *)
(* Ownership never changes and is left out; rows are never taken out of a  *)
(* table, so neither is the destination or post a row refers to.           *)
(***************************************************************************)
EXTENDS Listing

VARIABLE kind        \* the table

catalogueVars == <<kind, listingVars>>

Moderated == {"PROPERTY", "TOUR", "EXPERIENCE", "AIRCRAFT", "VEHICLE", "ROUTE"}
Slugged == {"PROPERTY", "TOUR", "EXPERIENCE", "DESTINATION", "GUIDE", "BLOG"}
Coded == {"AIRCRAFT", "VEHICLE", "AIRPORT"}
Keyless == {"ROUTE", "ROOM", "POST", "COMMENT"}
Ranked == {"PROPERTY", "TOUR", "EXPERIENCE", "DESTINATION"}

CatalogueInit ==
    /\ ListingInit
    /\ kind \in Slugged \cup Coded \cup Keyless

\* The status a new row has: moderated ones wait, the others are public at once.
NewStatus == IF kind \in Moderated THEN "PENDING" ELSE "APPROVED"

-----------------------------------------------------------------------------
(* Slugs: a new row looks for a free one; an edit never changes it.        *)

CreateProperty(l, k) == kind = "PROPERTY" /\ FreeSlug(k) /\ Draft(l, k)
CreateTour(l, k) == kind = "TOUR" /\ FreeSlug(k) /\ Draft(l, k)
CreateExperience(l, k) == kind = "EXPERIENCE" /\ FreeSlug(k) /\ Draft(l, k)
CreateDestination(l, k) == kind = "DESTINATION" /\ FreeSlug(k) /\ Draft(l, k)
CreateTravelGuide(l, k) == kind = "GUIDE" /\ FreeSlug(k) /\ Draft(l, k)
CreateBlog(l, k) == kind = "BLOG" /\ FreeSlug(k) /\ Draft(l, k)

\* Codes and plates: a new row and an edit ask for one.
CreateAircraft(l, k) == kind = "AIRCRAFT" /\ Free(k) /\ Draft(l, k)
CreateVehicle(l, k) == kind = "VEHICLE" /\ Free(k) /\ Draft(l, k)
CreateAirport(l, k) == kind = "AIRPORT" /\ Free(k) /\ Draft(l, k)

RecodeAircraft(l, k) == kind = "AIRCRAFT" /\ l \in Kept /\ DraftKey(l, k)
RecodeVehicle(l, k) == kind = "VEHICLE" /\ l \in Kept /\ DraftKey(l, k)
RecodeAirport(l, k) == kind = "AIRPORT" /\ l \in Kept /\ DraftKey(l, k)

\* The INSERT of the row a create has prepared.
InsertRow(l) == kind \in Slugged \cup Coded /\ Insert(l, NewStatus)

\* Tables without a key.
CreateRoute(l) == kind = "ROUTE" /\ InsertKeyless(l, "PENDING")
CreateRoom(l) == kind = "ROOM" /\ InsertKeyless(l, "APPROVED")
CreatePost(l) == kind = "POST" /\ InsertKeyless(l, "APPROVED")
CreateComment(l) == kind = "COMMENT" /\ InsertKeyless(l, "APPROVED")

Create(l) ==
    \/ \E k \in Key :
         \/ CreateProperty(l, k) \/ CreateTour(l, k) \/ CreateExperience(l, k)
         \/ CreateDestination(l, k) \/ CreateTravelGuide(l, k) \/ CreateBlog(l, k)
         \/ CreateAircraft(l, k) \/ CreateVehicle(l, k) \/ CreateAirport(l, k)
    \/ InsertRow(l)
    \/ CreateRoute(l) \/ CreateRoom(l) \/ CreatePost(l) \/ CreateComment(l)

-----------------------------------------------------------------------------
(* Edits.                                                                  *)

UpdateProperty(l) == kind = "PROPERTY" /\ Edit(l)
UpdateTour(l) == kind = "TOUR" /\ Edit(l)
UpdateExperience(l) == kind = "EXPERIENCE" /\ Edit(l)
UpdateDestination(l) == kind = "DESTINATION" /\ Edit(l)
UpdateTravelGuide(l) == kind = "GUIDE" /\ Edit(l)
UpdateBlog(l) == kind = "BLOG" /\ Edit(l)
UpdateRoute(l) == kind = "ROUTE" /\ Edit(l)
UpdatePost(l) == kind = "POST" /\ Edit(l)
UpdateComment(l) == kind = "COMMENT" /\ Edit(l)

\* A room is put in and out of service by its own edit.
UpdateRoom(l) ==
    /\ kind = "ROOM"
    /\ Edit(l) \/ \E active \in {"APPROVED", "REJECTED"} : Judge(l, active)

\* With a code that was looked up, or without one.
UpdateAircraft(l) == kind = "AIRCRAFT" /\ (WriteKey(l) \/ Edit(l))
UpdateVehicle(l) == kind = "VEHICLE" /\ (WriteKey(l) \/ Edit(l))
UpdateAirport(l) == kind = "AIRPORT" /\ (WriteKey(l) \/ Edit(l))

Update(l) ==
    /\ l \in Created
    /\ \/ UpdateProperty(l) \/ UpdateTour(l) \/ UpdateExperience(l)
       \/ UpdateDestination(l) \/ UpdateTravelGuide(l) \/ UpdateBlog(l)
       \/ UpdateRoute(l) \/ UpdatePost(l) \/ UpdateComment(l) \/ UpdateRoom(l)
       \/ UpdateAircraft(l) \/ UpdateVehicle(l) \/ UpdateAirport(l)
       \/ \E k \in Key : RecodeAircraft(l, k) \/ RecodeVehicle(l, k) \/ RecodeAirport(l, k)

-----------------------------------------------------------------------------
(* Moderation and removal.                                                 *)

ReviewProperty(l, s) == kind = "PROPERTY" /\ Judge(l, s)
ReviewTour(l, s) == kind = "TOUR" /\ Judge(l, s)
ReviewExperience(l, s) == kind = "EXPERIENCE" /\ Judge(l, s)
ReviewAircraft(l, s) == kind = "AIRCRAFT" /\ Judge(l, s)
ReviewVehicle(l, s) == kind = "VEHICLE" /\ Judge(l, s)
ReviewRoute(l, s) == kind = "ROUTE" /\ Judge(l, s)

Moderation(l) ==
    /\ l \in Created
    /\ \E s \in {"APPROVED", "REJECTED"} :
         \/ ReviewProperty(l, s) \/ ReviewTour(l, s) \/ ReviewExperience(l, s)
         \/ ReviewAircraft(l, s) \/ ReviewVehicle(l, s) \/ ReviewRoute(l, s)

RemoveProperty(l) == kind = "PROPERTY" /\ Withdraw(l)
RemoveTour(l) == kind = "TOUR" /\ Withdraw(l)
RemoveExperience(l) == kind = "EXPERIENCE" /\ Withdraw(l)
RemoveDestination(l) == kind = "DESTINATION" /\ Withdraw(l)
RemoveTravelGuide(l) == kind = "GUIDE" /\ Withdraw(l)
RemoveBlog(l) == kind = "BLOG" /\ Withdraw(l)
RemoveAircraft(l) == kind = "AIRCRAFT" /\ Withdraw(l)
RemoveVehicle(l) == kind = "VEHICLE" /\ Withdraw(l)
RemoveAirport(l) == kind = "AIRPORT" /\ Withdraw(l)
RemoveRoute(l) == kind = "ROUTE" /\ Withdraw(l)
RemoveRoom(l) == kind = "ROOM" /\ Withdraw(l)
RemovePost(l) == kind = "POST" /\ Withdraw(l)           \* by its author or an administrator
RemoveComment(l) == kind = "COMMENT" /\ Withdraw(l)

Remove(l) ==
    /\ l \in Created
    /\ \/ RemoveProperty(l) \/ RemoveTour(l) \/ RemoveExperience(l)
       \/ RemoveDestination(l) \/ RemoveTravelGuide(l) \/ RemoveBlog(l)
       \/ RemoveAircraft(l) \/ RemoveVehicle(l) \/ RemoveAirport(l)
       \/ RemoveRoute(l) \/ RemoveRoom(l) \/ RemovePost(l) \/ RemoveComment(l)

-----------------------------------------------------------------------------
(* The popular lists.                                                      *)

PopularProperties == kind = "PROPERTY" /\ FindPopular(Approved)
PopularTours == kind = "TOUR" /\ FindPopular(Approved)
PopularExperiences == kind = "EXPERIENCE" /\ FindPopular(Approved)
PopularDestinations == kind = "DESTINATION" /\ FindPopular(Kept)

Popular ==
    \/ PopularProperties \/ PopularTours \/ PopularExperiences \/ PopularDestinations
    \/ CachePopular \/ Lapse

-----------------------------------------------------------------------------
CatalogueNext ==
    /\ UNCHANGED kind
    /\ Popular \/ \E l \in Listing : Create(l) \/ Update(l) \/ Moderation(l) \/ Remove(l)

CatalogueSpec == CatalogueInit /\ [][CatalogueNext]_catalogueVars /\ WF_listingVars(Lapse)

-----------------------------------------------------------------------------
(* Properties.                                                             *)

\* The cached lists are never invalidated, and yet a version of a row that has
\* left the public pages (edited, rejected or removed for good) leaves the popular
\* list for good, even when a slow request caches what it read long before.
PopularCatchesUp ==
    \A l \in Listing, v \in {0, 1} :
      <>[](l \notin Approved \/ content[l] # v) => <>[](<<l, v>> \notin popular)
=============================================================================
