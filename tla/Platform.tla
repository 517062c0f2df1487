------------------------------ MODULE Platform ------------------------------
(***************************************************************************)
(* The parts of the backend around the bookings.  No two of them write the *)
(* same table, so what one does is no concern of the others, and a         *)
(* behaviour of the platform is taken to be one of a single part while the *)
(* others rest in an initial state.  The parts are put together so that    *)
(* one run goes through all of them.                                       *)
(***************************************************************************)
EXTENDS Staffing, Trip, Catalogue, Fleet, Reviews, Conversations, Jobs, Ledger, Sessions, Pages,
        Pricing, Figures

VARIABLE part        \* the part the behaviour is about

platformVars == <<part, staffVars, planVars, catalogueVars, fleetVars, reviewVars,
                  conversationVars, jobVars, ledgerVars, sessionVars, pageVars, pricingVars, figuresVars>>

Part == {"staff", "plan", "catalogue", "fleet", "review", "conversation", "jobs",
         "ledger", "session", "pages", "pricing",
         "figures"}

PlatformInit ==
    /\ part \in Part
    /\ StaffInit /\ PlanInit /\ CatalogueInit /\ FleetInit /\ ReviewInit
    /\ ConversationInit /\ JobsInit /\ LedgerInit /\ SessionInit /\ PagesInit /\ PricingInit
    /\ FiguresInit
    /\ part # "plan" => plan = "TRIP"
    /\ part # "catalogue" => kind = "PROPERTY"
    /\ part # "review" => subject = "TOUR"
    /\ part # "pages" => list \in ListMessages /\ limit = MaxLimit

PlatformNext ==
    /\ UNCHANGED part
    /\ \/ part = "staff" /\ StaffNext
          /\ UNCHANGED <<planVars, catalogueVars, fleetVars, reviewVars, conversationVars,
                         jobVars, ledgerVars, sessionVars, pageVars, pricingVars, figuresVars>>
       \/ part = "plan" /\ PlanNext
          /\ UNCHANGED <<staffVars, catalogueVars, fleetVars, reviewVars, conversationVars,
                         jobVars, ledgerVars, sessionVars, pageVars, pricingVars, figuresVars>>
       \/ part = "catalogue" /\ CatalogueNext
          /\ UNCHANGED <<staffVars, planVars, fleetVars, reviewVars, conversationVars,
                         jobVars, ledgerVars, sessionVars, pageVars, pricingVars, figuresVars>>
       \/ part = "fleet" /\ FleetNext
          /\ UNCHANGED <<staffVars, planVars, catalogueVars, reviewVars, conversationVars,
                         jobVars, ledgerVars, sessionVars, pageVars, pricingVars, figuresVars>>
       \/ part = "review" /\ ReviewNext
          /\ UNCHANGED <<staffVars, planVars, catalogueVars, fleetVars, conversationVars,
                         jobVars, ledgerVars, sessionVars, pageVars, pricingVars, figuresVars>>
       \/ part = "conversation" /\ ConversationNext
          /\ UNCHANGED <<staffVars, planVars, catalogueVars, fleetVars, reviewVars,
                         jobVars, ledgerVars, sessionVars, pageVars, pricingVars, figuresVars>>
       \/ part = "jobs" /\ JobsNext
          /\ UNCHANGED <<staffVars, planVars, catalogueVars, fleetVars, reviewVars,
                         conversationVars, ledgerVars, sessionVars, pageVars, pricingVars, figuresVars>>
       \/ part = "ledger" /\ LedgerNext
          /\ UNCHANGED <<staffVars, planVars, catalogueVars, fleetVars, reviewVars,
                         conversationVars, jobVars, sessionVars, pageVars, pricingVars, figuresVars>>
       \/ part = "session" /\ SessionNext
          /\ UNCHANGED <<staffVars, planVars, catalogueVars, fleetVars, reviewVars,
                         conversationVars, jobVars, ledgerVars, pageVars, pricingVars, figuresVars>>
       \/ part = "pages" /\ PagesNext
          /\ UNCHANGED <<staffVars, planVars, catalogueVars, fleetVars, reviewVars,
                         conversationVars, jobVars, ledgerVars, sessionVars, pricingVars, figuresVars>>
       \/ part = "pricing" /\ PricingNext
          /\ UNCHANGED <<staffVars, planVars, catalogueVars, fleetVars, reviewVars, conversationVars,
                         jobVars, ledgerVars, sessionVars, pageVars, figuresVars>>
       \/ part = "figures" /\ FiguresNext
          /\ UNCHANGED <<staffVars, planVars, catalogueVars, fleetVars, reviewVars, conversationVars,
                         jobVars, ledgerVars, sessionVars, pageVars, pricingVars>>

PlatformSpec ==
    /\ PlatformInit /\ [][PlatformNext]_platformVars
    /\ WF_listingVars(Lapse) /\ WorkersRun

\* Each part is of its kind; keys are unique, references are to rows that are there.
PlatformTypeOK ==
    /\ StaffTypeOK /\ PlanTypeOK /\ ListingTypeOK /\ FleetTypeOK /\ ReviewTypeOK
    /\ ConversationTypeOK /\ JobsTypeOK /\ LedgerTypeOK /\ SessionTypeOK /\ PagesTypeOK
    /\ PricingTypeOK /\ FiguresTypeOK

\* What the provider's and the administrator's pages show adds up.
TotalsAddUp == LedgerAddsUp /\ FiguresAddUp
=============================================================================
