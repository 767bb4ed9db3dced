--------------------------- MODULE ServiceCatalog ---------------------------
(***************************************************************************)
(* One service of the catalogue: its owner creates, edits, pauses and      *)
(* deletes it, administrators moderate it, buyers order it.  A handler     *)
(* loads the row, tests it, and writes at its commit the columns whose     *)
(* value it changed, over whatever was committed meanwhile.  Images are    *)
(* files beside the row.                                                   *)
(***************************************************************************)
EXTENDS Naturals, FiniteSets

CONSTANTS
    OwnerTabs,          \* requests of the owner in flight
    Moderators,         \* requests of administrators in flight
    Purchases,          \* service_orders rows that may be inserted
    Images,             \* images the owner may upload
    MaxImages,          \* MAX_SERVICE_IMAGES
    MaxEditions,        \* bound on the replacements of the packages
    NoImage

ASSUME CatalogAssumption ==
    /\ IsFiniteSet(OwnerTabs) /\ IsFiniteSet(Images) /\ IsFiniteSet(Purchases)
    /\ MaxImages \in Nat /\ MaxEditions \in Nat \ {0}
    /\ NoImage \notin Images

VARIABLES
    listing,        \* the services row: status, packages, orders_count
    approved,       \* history: an administrator has approved it
    gallery,        \* its images and thumbnail_url
    files,          \* the uploaded files that exist
    purchase,       \* the packages each order refers to, 0: no row
    ownerTab,       \* what each request of the owner has in hand
    moderator       \* what each request of an administrator has in hand

catalogVars == <<listing, approved, gallery, files, purchase, ownerTab, moderator>>

\* DRAFT and ARCHIVED are never written.
ServiceStatus == {"pending_review", "needs_revision", "active", "paused", "rejected"}

\* "packages" counts the times they were replaced.
Listing == [status : ServiceStatus \cup {"none"}, packages : 1 .. MaxEditions,
            orders : Nat]

Gallery == [images : SUBSET Images, thumbnail : Images \cup {NoImage}]

OwnerOps == {"idle", "edit", "packages", "delete", "pause", "resume", "upload",
             "add", "remove", "unlink"}

OwnerTab == [op : OwnerOps, status : ServiceStatus \cup {"none"},
             gallery : Gallery, image : Images \cup {NoImage}]

EmptyGallery == [images |-> {}, thumbnail |-> NoImage]

NoOwnerTab == [op |-> "idle", status |-> "none", gallery |-> EmptyGallery,
               image |-> NoImage]

ModeratorOps == {"approve", "revise", "reject"}

CatalogTypeOK ==
    /\ listing \in Listing
    /\ approved \in BOOLEAN
    /\ gallery \in Gallery
    /\ files \subseteq Images
    /\ purchase \in [Purchases -> 0 .. MaxEditions]
    /\ ownerTab \in [OwnerTabs -> OwnerTab]
    /\ moderator \in [Moderators -> [op : ModeratorOps \cup {"idle"},
                                     status : ServiceStatus \cup {"none"}]]

NotModerating == [op |-> "idle", status |-> "none"]

CatalogInit ==
    /\ listing = [status |-> "pending_review", packages |-> 1, orders |-> 0]
    /\ approved = FALSE
    /\ gallery = EmptyGallery
    /\ files = {}
    /\ purchase = [p \in Purchases |-> 0]
    /\ ownerTab = [t \in OwnerTabs |-> NoOwnerTab]
    /\ moderator = [a \in Moderators |-> NotModerating]

Listed == listing.status # "none"

\* A column is written if its value differs from the one that was loaded.
Stored(new, seen, current) == IF new = seen THEN current ELSE new

---------------------------------------------------------------------------
(* The owner.                                                              *)

MayPause(status) == status = "active"

MayResume(status) == status = "paused"

OwnerLoads(t, op, image) ==
    ownerTab' = [ownerTab EXCEPT ![t] = [op |-> op, status |-> listing.status,
                                         gallery |-> gallery, image |-> image]]

\* get_service_by_id_for_owner and the guards.
OwnerRequest(t, op) ==
    /\ ownerTab[t] = NoOwnerTab
    /\ Listed
    /\ op \in {"edit", "packages", "delete", "pause", "resume"}
    /\ op = "delete" => listing.orders = 0
    /\ op = "pause" => MayPause(listing.status)
    /\ op = "resume" => MayResume(listing.status)
    /\ OwnerLoads(t, op, NoImage)
    /\ UNCHANGED <<listing, approved, gallery, files, purchase, moderator>>

OwnerEnds(t) == ownerTab' = [ownerTab EXCEPT ![t] = NoOwnerTab]

\* An edit sends a service that was live, or to be revised, back to review.
StatusAfterEdit(seen) ==
    IF seen \in {"active", "needs_revision"} THEN "pending_review" ELSE seen

\* What no order refers to.
Unordered == \A p \in Purchases : purchase[p] = 0

\* The old packages are deleted: the orders' foreign key restricts it.
UpdateService(t) ==
    LET k == ownerTab[t] IN
    /\ k.op \in {"edit", "packages"}
    /\ Listed
    /\ k.op = "packages" => Unordered /\ listing.packages < MaxEditions
    /\ listing' = [listing EXCEPT
                      !.status = Stored(StatusAfterEdit(k.status), k.status, @),
                      !.packages = IF k.op = "packages" THEN @ + 1 ELSE @]
    /\ OwnerEnds(t)
    /\ UNCHANGED <<approved, gallery, files, purchase, moderator>>

PauseOrResume(t) ==
    LET k == ownerTab[t] IN
    /\ k.op \in {"pause", "resume"}
    /\ Listed
    /\ listing' = [listing EXCEPT !.status = IF k.op = "pause" THEN "paused"
                                             ELSE "active"]
    /\ OwnerEnds(t)
    /\ UNCHANGED <<approved, gallery, files, purchase, moderator>>

\* Mutant: only what orders_count said is asked.
Deletable_Count == TRUE

\* The database finds the orders that orders_count no longer counts.
Deletable == Unordered

DeleteService(t) ==
    /\ ownerTab[t].op = "delete"
    /\ Listed
    /\ Deletable
    /\ listing' = [listing EXCEPT !.status = "none"]
    /\ OwnerEnds(t)
    /\ UNCHANGED <<approved, gallery, files, purchase, moderator>>

\* save_service_image, then the request reads the service.
UploadImage(t, i) ==
    /\ ownerTab[t] = NoOwnerTab
    /\ i \notin files
    /\ files' = files \cup {i}
    /\ ownerTab' = [ownerTab EXCEPT ![t].op = "upload", ![t].image = i]
    /\ UNCHANGED <<listing, approved, gallery, purchase, moderator>>

LoadGallery(t) ==
    /\ ownerTab[t].op = "upload"
    /\ Listed
    /\ Cardinality(gallery.images) < MaxImages
    /\ OwnerLoads(t, "add", ownerTab[t].image)
    /\ UNCHANGED <<listing, approved, gallery, files, purchase, moderator>>

AddImage(t) ==
    LET k == ownerTab[t]
        first == IF k.gallery.thumbnail = NoImage THEN k.image ELSE k.gallery.thumbnail
    IN  /\ k.op = "add"
        /\ Listed
        /\ gallery' = [images |-> k.gallery.images \cup {k.image},
                       thumbnail |-> Stored(first, k.gallery.thumbnail, gallery.thumbnail)]
        /\ OwnerEnds(t)
        /\ UNCHANGED <<listing, approved, files, purchase, moderator>>

LoadRemove(t, i) ==
    /\ ownerTab[t] = NoOwnerTab
    /\ Listed
    /\ i \in gallery.images
    /\ OwnerLoads(t, "remove", i)
    /\ UNCHANGED <<listing, approved, gallery, files, purchase, moderator>>

\* The commit.
RemoveImage(t) ==
    LET k == ownerTab[t]
        rest == k.gallery.images \ {k.image}
    IN  /\ k.op = "remove"
        /\ Listed
        /\ \E next \in IF k.gallery.thumbnail # k.image THEN {k.gallery.thumbnail}
                       ELSE IF rest = {} THEN {NoImage} ELSE rest :
              gallery' = [images |-> rest,
                          thumbnail |-> Stored(next, k.gallery.thumbnail, gallery.thumbnail)]
        /\ ownerTab' = [ownerTab EXCEPT ![t].op = "unlink"]
        /\ UNCHANGED <<listing, approved, files, purchase, moderator>>

MayUnlink(t) == ownerTab[t].op = "unlink"

DeleteServiceImage(t) ==
    /\ MayUnlink(t)
    /\ files' = files \ {ownerTab[t].image}
    /\ OwnerEnds(t)
    /\ UNCHANGED <<listing, approved, gallery, purchase, moderator>>

\* Also a worker that dies: a file may be left over.
OwnerFails(t) ==
    /\ ownerTab[t] # NoOwnerTab
    /\ OwnerEnds(t)
    /\ UNCHANGED <<listing, approved, gallery, files, purchase, moderator>>

---------------------------------------------------------------------------
(* Administrators.                                                         *)

MayModerate(op, status) ==
    IF op = "approve" THEN status \in {"pending_review", "needs_revision"}
    ELSE status \in {"pending_review", "needs_revision", "active"}

LoadModeration(a, op) ==
    /\ moderator[a] = NotModerating
    /\ MayModerate(op, listing.status)
    /\ moderator' = [moderator EXCEPT ![a] = [op |-> op, status |-> listing.status]]
    /\ UNCHANGED <<listing, approved, gallery, files, purchase, ownerTab>>

Verdict(op) ==
    CASE op = "approve" -> "active"
      [] op = "revise" -> "needs_revision"
      [] op = "reject" -> "rejected"

Moderate(a) ==
    LET k == moderator[a] IN
    /\ k.op # "idle"
    /\ Listed
    /\ listing' = [listing EXCEPT !.status = Stored(Verdict(k.op), k.status, @)]
    /\ approved' = (approved \/ k.op = "approve")
    /\ moderator' = [moderator EXCEPT ![a] = NotModerating]
    /\ UNCHANGED <<gallery, files, purchase, ownerTab>>

ModerationFails(a) ==
    /\ moderator[a] # NotModerating
    /\ moderator' = [moderator EXCEPT ![a] = NotModerating]
    /\ UNCHANGED <<listing, approved, gallery, files, purchase, ownerTab>>

---------------------------------------------------------------------------
(* Orders, as far as they touch the service: module OrderEscrow has them.  *)

PlacePurchase(p) ==
    /\ listing.status = "active"
    /\ purchase[p] = 0
    /\ purchase' = [purchase EXCEPT ![p] = listing.packages]
    /\ listing' = [listing EXCEPT !.orders = @ + 1]
    /\ UNCHANGED <<approved, gallery, files, ownerTab, moderator>>

\* The nightly task takes an order that was never paid off the counter.
PurchaseExpires ==
    /\ listing.orders > 0
    /\ listing' = [listing EXCEPT !.orders = @ - 1]
    /\ UNCHANGED <<approved, gallery, files, purchase, ownerTab, moderator>>

CatalogNext ==
    \/ \E t \in OwnerTabs :
          \/ \E op \in OwnerOps : OwnerRequest(t, op)
          \/ UpdateService(t) \/ PauseOrResume(t) \/ DeleteService(t)
          \/ \E i \in Images : UploadImage(t, i) \/ LoadRemove(t, i)
          \/ LoadGallery(t) \/ AddImage(t) \/ RemoveImage(t)
          \/ DeleteServiceImage(t) \/ OwnerFails(t)
    \/ \E a \in Moderators :
          \/ \E op \in ModeratorOps : LoadModeration(a, op)
          \/ Moderate(a) \/ ModerationFails(a)
    \/ \E p \in Purchases : PlacePurchase(p)
    \/ PurchaseExpires

CatalogSpec == CatalogInit /\ [][CatalogNext]_catalogVars

---------------------------------------------------------------------------

\* However edits, pauses and moderation overlap, nothing is live, or one click
\* of its owner away from it, that no administrator has ever approved.
LiveWasApproved ==
    /\ listing.status \in {"active", "paused"} => approved
    /\ \A t \in OwnerTabs : ownerTab[t].op \in {"pause", "resume"} => approved

\* An order keeps the service and the package it was placed for, also when
\* orders_count says there are no orders.
OrdersKeepPackage ==
    \A p \in Purchases :
        purchase[p] # 0 => Listed /\ purchase[p] = listing.packages

\* If the owner has one request in flight at a time, every image of the service
\* has its file, whatever step a request dies at.
ImagesBacked ==
    Cardinality(OwnerTabs) <= 1 =>
        /\ gallery.images \subseteq files
        /\ IF gallery.images = {} THEN gallery.thumbnail = NoImage
           ELSE gallery.thumbnail \in gallery.images

\* The limit holds even for overlapping uploads: one of them is lost.
GalleryBounded == Cardinality(gallery.images) <= MaxImages

TabsHold ==
    \A t \in OwnerTabs :
        LET k == ownerTab[t] IN
        /\ k.op \in {"pause", "resume"} => k.status = IF k.op = "pause" THEN "active"
                                                     ELSE "paused"
        /\ k.op \in {"upload", "add"} => k.image \in Images
        /\ k.op = "add" => Cardinality(k.gallery.images) < MaxImages
        /\ k.op = "remove" => Cardinality(k.gallery.images) <= MaxImages
        /\ Cardinality(OwnerTabs) <= 1 =>
              /\ k.op \in {"upload", "add"} => k.image \in files \ gallery.images
              /\ k.op \in {"add", "remove"} => k.gallery = gallery
              /\ k.op = "remove" => k.image \in gallery.images
              /\ k.op = "unlink" => k.image \notin gallery.images

CatalogInv ==
    /\ CatalogTypeOK
    /\ TabsHold
    /\ LiveWasApproved
    /\ OrdersKeepPackage
    /\ ImagesBacked
    /\ GalleryBounded
============================================================================
