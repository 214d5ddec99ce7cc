-------------------------------- MODULE Desk --------------------------------
(***************************************************************************)
(* The smaller services side by side.  They share no rows, so what happens *)
(* to one does not depend on the steps of another, and every behaviour of  *)
(* a service is one in which the others stand still: "part" is the service *)
(* that a behaviour is about.                                              *)
(***************************************************************************)
CONSTANTS
    Procs,         \* requests handled at the same time
    Things,        \* bookings, tags or users, as the service has it
    Pair,          \* a smaller set of them: invites, provider types, items
    Nothing,
    Terms, Orders, \* what a coupon may say, and what is booked with it
    MaxRooms, LastDay, MaxPrice, MaxTags, MaxStars, MaxQuantity, MaxPlace, MaxMails

VARIABLES
    part,          \* the service a behaviour is about
    total, row, roomTask,                                   \* OfflineRooms
    open, room, held, listTask, retired, revived, listCalm, \* Listings
    tagged, tagTask,                                        \* Labels
    stars, stored, starTask, torn,                          \* Ratings
    permit, docs, approved, paper, permitTask, sweeping,    \* Permits
    invite, provider, roles, inviteTask, removed, inviteCalm, \* Partners
    default, admins, cached, adminTask, adminCalm,          \* Admins
    list, quantity, itemTask, itemCalm,                     \* BucketLists
    offer, offered, assigned, booking, ledger, saleTask, saleCalm, \* Offers
    day, points, poi, place, dayTask, arranged,             \* Itineraries
    production, entry, mails, runTask, runCalm,             \* Waitlist
    token, ahead, mailed, resetTask, newest, spent, resetCalm \* Resets

roomVars   == <<total, row, roomTask>>
listVars   == <<open, room, held, listTask, retired, revived, listCalm>>
tagVars    == <<tagged, tagTask>>
starVars   == <<stars, stored, starTask, torn>>
permitVars == <<permit, docs, approved, paper, permitTask, sweeping>>
inviteVars == <<invite, provider, roles, inviteTask, removed, inviteCalm>>
adminVars  == <<default, admins, cached, adminTask, adminCalm>>
itemVars   == <<list, quantity, itemTask, itemCalm>>
offerVars  == <<offer, offered, assigned, booking, ledger, saleTask, saleCalm>>
dayVars    == <<day, points, poi, place, dayTask, arranged>>
waitVars   == <<production, entry, mails, runTask, runCalm>>
resetVars  == <<token, ahead, mailed, resetTask, newest, spent, resetCalm>>
vars == <<part, roomVars, listVars, tagVars, starVars, permitVars, inviteVars, adminVars,
          itemVars, offerVars, dayVars, waitVars, resetVars>>

Offline == INSTANCE OfflineRooms WITH
    Bookings <- Things, NoBooking <- Nothing, task <- roomTask
Listing == INSTANCE Listings WITH
    Bookings <- Pair, status <- held, task <- listTask, orderly <- listCalm
Label   == INSTANCE Labels WITH
    Tags <- Things \union Pair, task <- tagTask
Rating  == INSTANCE Ratings WITH
    Users <- Things, NoUser <- Nothing, task <- starTask
Permit  == INSTANCE Permits WITH
    status <- permit, task <- permitTask
Partner == INSTANCE Partners WITH
    Invites <- Pair, Types <- Pair, NoInvite <- Nothing, task <- inviteTask,
    orderly <- inviteCalm
Admin   == INSTANCE Admins WITH
    Users <- Things, Nobody <- Nothing, task <- adminTask, orderly <- adminCalm
Bucket  == INSTANCE BucketLists WITH
    Items <- Pair, NoItem <- Nothing, status <- list, task <- itemTask, orderly <- itemCalm
Offer   == INSTANCE Offers WITH
    Bookings <- Pair, Users <- Pair, open <- offered, task <- saleTask, orderly <- saleCalm
Day     == INSTANCE Itineraries WITH
    Points <- Pair, Rows <- Things, NoPoint <- Nothing, NoRow <- Nothing, task <- dayTask
Wait    == INSTANCE Waitlist WITH
    People <- Pair, Nobody <- Nothing, task <- runTask, orderly <- runCalm
Reset   == INSTANCE Resets WITH
    Tokens <- Things, NoToken <- Nothing, task <- resetTask, orderly <- resetCalm

Parts == {"offline", "listing", "label", "rating", "permit", "partner", "admin", "bucket",
          "offer", "day", "wait", "reset"}

ASSUME DeskAssumption ==
    /\ Offline!OfflineRoomsAssumption /\ Listing!ListingsAssumption
    /\ Label!LabelsAssumption /\ Rating!RatingsAssumption
    /\ Partner!PartnersAssumption /\ Admin!AdminsAssumption
    /\ Bucket!BucketListsAssumption /\ Offer!OffersAssumption
    /\ Day!ItinerariesAssumption /\ Wait!WaitlistAssumption /\ Reset!ResetsAssumption

TypeOK ==
    /\ part \in Parts
    /\ Offline!TypeOK /\ Listing!TypeOK /\ Label!TypeOK /\ Rating!TypeOK
    /\ Permit!TypeOK /\ Partner!TypeOK /\ Admin!TypeOK /\ Bucket!TypeOK
    /\ Offer!TypeOK /\ Day!TypeOK /\ Wait!TypeOK /\ Reset!TypeOK

Init ==
    /\ part \in Parts
    /\ Offline!Init /\ Listing!Init /\ Label!Init /\ Rating!Init
    /\ Permit!Init /\ Partner!Init /\ Admin!Init /\ Bucket!Init
    /\ Offer!Init /\ Day!Init /\ Wait!Init /\ Reset!Init
    /\ part # "permit" => docs = {}
    /\ part # "admin" => admins = Things /\ default = Nothing
    /\ part # "wait" => production

OfflineStep == part = "offline" /\ Offline!Next
    /\ UNCHANGED <<part, listVars, tagVars, starVars, permitVars, inviteVars, adminVars,
                   itemVars, offerVars, dayVars, waitVars, resetVars>>
ListingStep == part = "listing" /\ Listing!Next
    /\ UNCHANGED <<part, roomVars, tagVars, starVars, permitVars, inviteVars, adminVars,
                   itemVars, offerVars, dayVars, waitVars, resetVars>>
LabelStep   == part = "label" /\ Label!Next
    /\ UNCHANGED <<part, roomVars, listVars, starVars, permitVars, inviteVars, adminVars,
                   itemVars, offerVars, dayVars, waitVars, resetVars>>
RatingStep  == part = "rating" /\ Rating!Next
    /\ UNCHANGED <<part, roomVars, listVars, tagVars, permitVars, inviteVars, adminVars,
                   itemVars, offerVars, dayVars, waitVars, resetVars>>
PermitStep  == part = "permit" /\ Permit!Next
    /\ UNCHANGED <<part, roomVars, listVars, tagVars, starVars, inviteVars, adminVars,
                   itemVars, offerVars, dayVars, waitVars, resetVars>>
PartnerStep == part = "partner" /\ Partner!Next
    /\ UNCHANGED <<part, roomVars, listVars, tagVars, starVars, permitVars, adminVars,
                   itemVars, offerVars, dayVars, waitVars, resetVars>>
AdminStep   == part = "admin" /\ Admin!Next
    /\ UNCHANGED <<part, roomVars, listVars, tagVars, starVars, permitVars, inviteVars,
                   itemVars, offerVars, dayVars, waitVars, resetVars>>
BucketStep  == part = "bucket" /\ Bucket!Next
    /\ UNCHANGED <<part, roomVars, listVars, tagVars, starVars, permitVars, inviteVars,
                   adminVars, offerVars, dayVars, waitVars, resetVars>>
OfferStep   == part = "offer" /\ Offer!Next
    /\ UNCHANGED <<part, roomVars, listVars, tagVars, starVars, permitVars, inviteVars,
                   adminVars, itemVars, dayVars, waitVars, resetVars>>
DayStep     == part = "day" /\ Day!Next
    /\ UNCHANGED <<part, roomVars, listVars, tagVars, starVars, permitVars, inviteVars,
                   adminVars, itemVars, offerVars, waitVars, resetVars>>
WaitStep    == part = "wait" /\ Wait!Next
    /\ UNCHANGED <<part, roomVars, listVars, tagVars, starVars, permitVars, inviteVars,
                   adminVars, itemVars, offerVars, dayVars, resetVars>>
ResetStep   == part = "reset" /\ Reset!Next
    /\ UNCHANGED <<part, roomVars, listVars, tagVars, starVars, permitVars, inviteVars,
                   adminVars, itemVars, offerVars, dayVars, waitVars>>

Next ==
    \/ OfflineStep \/ ListingStep \/ LabelStep \/ RatingStep
    \/ PermitStep \/ PartnerStep \/ AdminStep \/ BucketStep
    \/ OfferStep \/ DayStep \/ WaitStep \/ ResetStep

Spec == Init /\ [][Next]_vars

-----------------------------------------------------------------------------
\* On no night do the bookings a provider takes by telephone use more rooms than the
\* largest total for each request handled at the time (OfflineRooms).
NightsCovered == Offline!NightsCovered

\* Prices on display and price charged agree, and nobody holds a room that was deleted,
\* unless requests overlapped; replacing the tags of a homestay leaves those of few
\* requests (Listings, Labels).
CatalogueSound ==
    Listing!PriceIsDerived /\ Listing!RetiredIsFree /\ Label!FewRequestsRemain

\* When nothing is left to compute the rating is that of the reviews (Ratings).
RatingIsTrue == Rating!RatingIsTrue

\* Nothing is submitted or approved without both documents (Permits).
DocumentsFirst == Permit!DocumentsFirst

\* A completed invite made its user a partner with the invited roles, and there is an
\* admin left, the default admin if there is one (Partners, Admins).
RolesSound == Partner!InvitesHonoured /\ Admin!AdminRemains

\* A bucket list that is up for booking has something in it (BucketLists).
PendingHasItems == Bucket!PendingHasItems

\* A discount is within the price and the coupon's terms, and the ledger of redemptions
\* says of every booking what it was reduced by, whatever becomes of the coupon (Offers).
DiscountSound ==
    Offer!DiscountWithinTerms /\ Offer!LedgerIsTrue /\ Offer!LedgerIsComplete

\* A tour's day shows no point twice in one place, and a day put in order keeps its points
\* apart (Itineraries).
OrderKept == Day!PlacesDiffer /\ Day!ShownExist

\* Nobody counts as notified without a mail, or is mailed twice by runs that keep apart
\* (Waitlist).
WaitlistSound == Wait!NotifiedIsMailed /\ Wait!MailedOnce

\* A spent reset link never comes back, and the newest one works until it is used or
\* lapses (Resets).
ResetsSound == Reset!TokenIsUnspent /\ Reset!NewestWorks /\ Reset!SpentOnce
=============================================================================
