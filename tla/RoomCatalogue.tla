--------------------------- MODULE RoomCatalogue ----------------------------
(***************************************************************************)
(* Rooms as visitors see them: details, photos and cached views            *)
(* (rooms.service.ts), the files behind the pictures (image-processing and *)
(* storage), and the picture and address of a user, which are replaced the *)
(* same way (users.service.ts).  Every stage of a request is one call of   *)
(* the database, of Redis or of the file store.                            *)
(***************************************************************************)
EXTENDS ReadThroughCache, Sequences

CONSTANTS
  Rooms, Users,
  Listing,     \* the cache key of the list of rooms
  Details,     \* what a form fills in, as small a set as tells edits apart
  Seeded,      \* the details of the rooms the installation starts with
  Variants,    \* the sizes an image is stored in, in the order they are saved
  MaxImages,   \* bound: images ever processed
  MaxFiles,    \* bound: files of one upload
  Patience     \* bound: no request takes longer than this

ASSUME CatalogueAssumption ==
  /\ CacheKeys = Rooms \cup {Listing} /\ Listing \notin Rooms
  /\ Rooms \cap Users = {} /\ Seeded \in Details
  /\ Len(Variants) \in Nat \ {0}
  /\ MaxImages \in Nat /\ MaxFiles \in Nat /\ Patience \in Nat

VARIABLES
  rooms,      \* rooms[r]: the row of r with its photos, or Absent
  picture,    \* picture[o]: imageUrl of a room, avatarUrl of a user; 0 if none
  files,      \* the files in the store: pairs of image and variant
  issued,     \* image keys given out (random UUIDs)
  address,    \* address[u]: addressId of u's profile; 0 without, -1 no profile
  addresses,  \* rows of addresses ever created
  calm,       \* ghost: no request has overlapped another, failed or died
  changed     \* ghost: when the row behind a cache key last changed

tables == <<rooms, picture, files, issued, address, addresses>>
vars == <<runtimeVars, cacheVars, tables, calm, changed>>

Absent == <<>>
Images == 1..MaxImages
Sizes == 1..Len(Variants)

CatalogueInit ==
  /\ rooms \in [Rooms -> {Absent, [details |-> Seeded, photos |-> {}]}]
  /\ picture = [o \in Rooms \cup Users |-> 0]
  /\ files = {}
  /\ issued = 0
  /\ address = [u \in Users |-> -1]
  /\ addresses = 0
  /\ calm = TRUE
  /\ changed = [k \in CacheKeys |-> 0]

Exists(r) == rooms[r] # Absent

View(k) ==
  IF k = Listing
  THEN [r \in {r \in Rooms : Exists(r)} |-> [row |-> rooms[r], image |-> picture[r]]]
  ELSE [row |-> rooms[k], image |-> picture[k]]

Touch(r) == changed' = [changed EXCEPT ![r] = now, ![Listing] = now]

\* kind: the handler; of: the room or user it is about; rest: as they come.
Locals(kind, o) ==
  [kind |-> kind, of |-> o, since |-> now, value |-> Absent, image |-> 0, size |-> 1,
   left |-> 1, previous |-> 0, position |-> 0]

-----------------------------------------------------------------------------
(* Reading through the cache *)

List(q) ==
  /\ Begin(q, "get", Locals("list", Listing))
  /\ UNCHANGED <<cacheVars, tables, changed>>

GetById(q) ==
  /\ \E r \in Rooms : Begin(q, "get", Locals("detail", r))
  /\ UNCHANGED <<cacheVars, tables, changed>>

\* update looks the room up first; the others return what they looked up.
LookedUp(q) ==
  IF loc[q].kind = "update" THEN Goto(q, "update", loc[q]) ELSE Finish(q)

CacheGet(q) ==
  /\ pc[q] = "get"
  /\ Lookup(loc[q].of, LAMBDA v : LookedUp(q), Goto(q, "read", loc[q]))
  /\ UNCHANGED <<tables, changed>>

Compute(q) ==
  /\ pc[q] = "read"
  /\ LET k == loc[q].of
     IN IF k \in Rooms /\ ~Exists(k) THEN Finish(q)
        ELSE Goto(q, "set", [loc[q] EXCEPT !.value = View(k)])
  /\ UNCHANGED <<cacheVars, tables, changed>>

Remember(q) ==
  /\ pc[q] = "set"
  /\ CacheSet(loc[q].of, loc[q].value)
  /\ LookedUp(q)
  /\ UNCHANGED <<tables, changed>>

-----------------------------------------------------------------------------
(* Forgetting what was cached, after a write *)

Invalidate(q) ==
  /\ pc[q] = "invalidate"
  /\ CacheDel({loc[q].of})
  /\ Goto(q, "keys", loc[q])
  /\ UNCHANGED <<tables, changed>>

\* addPhotos and deletePhoto return getById(id), through the cache again.
Invalidated(q) ==
  IF loc[q].kind \in {"photos", "unphoto"} THEN Goto(q, "get", loc[q]) ELSE Finish(q)

FindListings(q) ==
  /\ pc[q] = "keys"
  /\ CacheKeysOf({Listing},
       LAMBDA found : IF found = {} THEN Invalidated(q) ELSE Goto(q, "sweep", loc[q]))
  /\ UNCHANGED <<tables, changed>>

SweepListings(q) ==
  /\ pc[q] = "sweep"
  /\ CacheDel({Listing})
  /\ Invalidated(q)
  /\ UNCHANGED <<tables, changed>>

-----------------------------------------------------------------------------
(* Rows of rooms *)

Create(q) ==
  \E r \in Rooms, d \in Details :
    /\ ~Exists(r)
    /\ rooms' = [rooms EXCEPT ![r] = [details |-> d, photos |-> {}]]
    /\ Touch(r)
    /\ Begin(q, "keys", Locals("create", r))
    /\ UNCHANGED <<cacheVars, picture, files, issued, address, addresses>>

Update(q) ==
  /\ \E r \in Rooms : Begin(q, "get", Locals("update", r))
  /\ UNCHANGED <<cacheVars, tables, changed>>

\* The slip of a write that forgets the view of the room itself.
UpdateRowListOnly(q) ==
  /\ pc[q] = "update"
  /\ \E d \in Details : rooms' = [rooms EXCEPT ![loc[q].of].details = d]
  /\ Touch(loc[q].of)
  /\ Goto(q, "keys", loc[q])
  /\ UNCHANGED <<cacheVars, picture, files, issued, address, addresses>>

UpdateRow(q) ==
  /\ pc[q] = "update"
  /\ \E d \in Details : rooms' = [rooms EXCEPT ![loc[q].of].details = d]
  /\ Touch(loc[q].of)
  /\ Goto(q, "invalidate", loc[q])
  /\ UNCHANGED <<cacheVars, picture, files, issued, address, addresses>>

-----------------------------------------------------------------------------
(* Files: three variants saved one after another, and removed together *)

\* An image gets a key of its own, and its first variant is due.
Processing(l, image) == [l EXCEPT !.image = image, !.size = 1]

\* The slip of an upload that goes on after a failed save.
SaveVariantOrNot(q) ==
  /\ pc[q] = "save"
  /\ \/ files' = files \cup {<<loc[q].image, Variants[loc[q].size]>>} /\ UNCHANGED faults
     \/ Fault /\ UNCHANGED files
  /\ IF loc[q].size < Len(Variants)
     THEN Goto(q, "save", [loc[q] EXCEPT !.size = @ + 1])
     ELSE Goto(q, IF loc[q].kind = "photos" THEN "photo" ELSE "picture", loc[q])
  /\ UNCHANGED <<cache, rooms, picture, issued, address, addresses, changed>>

SaveVariant(q) ==
  /\ pc[q] = "save"
  /\ \/ /\ files' = files \cup {<<loc[q].image, Variants[loc[q].size]>>}
        /\ IF loc[q].size < Len(Variants)
           THEN Goto(q, "save", [loc[q] EXCEPT !.size = @ + 1])
           ELSE Goto(q, IF loc[q].kind = "photos" THEN "photo" ELSE "picture", loc[q])
        /\ UNCHANGED faults
     \/ Fault /\ Finish(q) /\ UNCHANGED files
  /\ UNCHANGED <<cache, rooms, picture, issued, address, addresses, changed>>

\* The slip of a deletion that knows one size only.
FilesOfOneSize(image) == {f \in files : f = <<image, Variants[1]>>}

FilesOf(image) == {f \in files : f[1] = image}

\* deleteVariants, its errors swallowed: some of the files may stay.
Unlink(q) ==
  /\ pc[q] = "unlink"
  /\ \/ files' = files \ FilesOf(loc[q].previous) /\ UNCHANGED faults
     \/ Fault /\ \E some \in SUBSET FilesOf(loc[q].previous) : files' = files \ some
  /\ IF loc[q].of \in Rooms THEN Goto(q, "invalidate", loc[q]) ELSE Finish(q)
  /\ UNCHANGED <<cache, rooms, picture, issued, address, addresses, changed>>

-----------------------------------------------------------------------------
(* The one picture of a room (uploadImage) or of a user (uploadAvatar) *)

ReplacePicture(q) ==
  /\ issued < MaxImages
  /\ \E o \in {r \in Rooms : Exists(r)} \cup Users :
       Begin(q, "save",
             [Processing(Locals("picture", o), issued + 1) EXCEPT !.previous = picture[o]])
  /\ issued' = issued + 1
  /\ UNCHANGED <<cacheVars, rooms, picture, files, address, addresses, changed>>

AssignPicture(q) ==
  /\ pc[q] = "picture"
  /\ LET o == loc[q].of IN
       /\ picture' = [picture EXCEPT ![o] = loc[q].image]
       /\ IF o \in Rooms THEN Touch(o) ELSE UNCHANGED changed
       /\ IF loc[q].previous # 0 THEN Goto(q, "unlink", loc[q])
          ELSE IF o \in Rooms THEN Goto(q, "invalidate", loc[q]) ELSE Finish(q)
  /\ UNCHANGED <<cacheVars, rooms, files, issued, address, addresses>>

-----------------------------------------------------------------------------
(* The photos of a room *)

Positions(photos) == {p.position : p \in photos}

\* The slip of numbering from the last position instead of past it.
LastPosition(photos) ==
  IF photos = {} THEN -1 ELSE CHOOSE m \in Positions(photos) :
                                \A n \in Positions(photos) : n <= m

\* One past the last position: read once, then counted up for every file.
NextPosition(photos) ==
  IF photos = {} THEN 0 ELSE 1 + CHOOSE m \in Positions(photos) :
                                   \A n \in Positions(photos) : n <= m

AddPhotos(q) ==
  \E r \in Rooms, n \in 1..MaxFiles :
    /\ Exists(r)
    /\ issued + n <= MaxImages
    /\ Begin(q, "save", [Processing(Locals("photos", r), issued + 1) EXCEPT
                           !.left = n, !.position = NextPosition(rooms[r].photos)])
    /\ issued' = issued + n
    /\ UNCHANGED <<cacheVars, rooms, picture, files, address, addresses, changed>>

CreatePhoto(q) ==
  /\ pc[q] = "photo"
  /\ rooms' = [rooms EXCEPT ![loc[q].of].photos =
                 @ \cup {[image |-> loc[q].image, position |-> loc[q].position]}]
  /\ Touch(loc[q].of)
  /\ IF loc[q].left > 1
     THEN Goto(q, "save", [Processing(loc[q], loc[q].image + 1) EXCEPT
                             !.left = @ - 1, !.position = @ + 1])
     ELSE Goto(q, "invalidate", loc[q])
  /\ UNCHANGED <<cacheVars, picture, files, issued, address, addresses>>

DeletePhoto(q) ==
  /\ \E r \in Rooms :
       /\ Exists(r)
       /\ \E p \in rooms[r].photos :
            Begin(q, "unphoto", [Locals("unphoto", r) EXCEPT !.previous = p.image])
  /\ UNCHANGED <<cacheVars, tables, changed>>

\* prisma.delete throws when another request has deleted the row.
DeletePhotoRow(q) ==
  /\ pc[q] = "unphoto"
  /\ LET r == loc[q].of
         gone == {p \in rooms[r].photos : p.image = loc[q].previous}
     IN IF gone = {} THEN Finish(q) /\ UNCHANGED <<rooms, changed>>
        ELSE /\ rooms' = [rooms EXCEPT ![r].photos = @ \ gone]
             /\ Touch(r)
             /\ Goto(q, "unlink", loc[q])
  /\ UNCHANGED <<cacheVars, picture, files, issued, address, addresses>>

-----------------------------------------------------------------------------
(* A user's professional profile and its address *)

UpsertProfessionalProfile(q) ==
  /\ Idle
  /\ pc[q] = "new"
  /\ \E u \in Users : address[u] = -1 /\ address' = [address EXCEPT ![u] = 0]
  /\ UNCHANGED <<cacheVars, rooms, picture, files, issued, addresses, changed>>

\* Reads the profile: none is an error, one with an address updates that row.
UpsertAddress(q) ==
  /\ \E u \in Users : address[u] = 0 /\ Begin(q, "address", Locals("address", u))
  /\ UNCHANGED <<cacheVars, tables, changed>>

CreateAddress(q) ==
  /\ pc[q] = "address"
  /\ addresses' = addresses + 1
  /\ Goto(q, "profile", [loc[q] EXCEPT !.previous = addresses + 1])
  /\ UNCHANGED <<cacheVars, rooms, picture, files, issued, address, changed>>

LinkAddress(q) ==
  /\ pc[q] = "profile"
  /\ address' = [address EXCEPT ![loc[q].of] = loc[q].previous]
  /\ Finish(q)
  /\ UNCHANGED <<cacheVars, rooms, picture, files, issued, addresses, changed>>

-----------------------------------------------------------------------------

Handle(q) ==
  \/ List(q) \/ GetById(q) \/ CacheGet(q) \/ Compute(q) \/ Remember(q)
  \/ Invalidate(q) \/ FindListings(q) \/ SweepListings(q)
  \/ Create(q) \/ Update(q) \/ UpdateRow(q) \/ SaveVariant(q) \/ Unlink(q)
  \/ ReplacePicture(q) \/ AssignPicture(q)
  \/ AddPhotos(q) \/ CreatePhoto(q) \/ DeletePhoto(q) \/ DeletePhotoRow(q)
  \/ UpsertProfessionalProfile(q)
  \/ UpsertAddress(q) \/ CreateAddress(q) \/ LinkAddress(q)

\* Requests are short: the clock waits for one that has taken Patience.
Wait ==
  /\ \A q \in InFlight : now < loc[q].since + Patience
  /\ Tick
  /\ UNCHANGED <<cacheVars, tables, changed>>

Die(q) ==
  /\ Abort(q)
  /\ calm' = FALSE
  /\ UNCHANGED <<cacheVars, tables, changed>>

Init == RuntimeInit /\ CacheInit /\ CatalogueInit

Next ==
  \/ /\ Wait \/ \E q \in Requests : Handle(q)
     /\ calm' = (calm /\ Cardinality(InFlight') <= 1 /\ faults' = faults)
  \/ \E q \in Requests : Die(q)

Spec == Init /\ [][Next]_vars

-----------------------------------------------------------------------------
(* Properties *)

\* Every variable holds what its column, key or local can hold.
TypeOK ==
  /\ now \in Times
  /\ picture \in [Rooms \cup Users -> 0..MaxImages]
  /\ files \subseteq Images \X {Variants[i] : i \in Sizes}
  /\ issued \in 0..MaxImages
  /\ addresses \in Nat
  /\ address \in [Users -> -1..addresses]
  /\ faults \in 0..MaxFaults
  /\ calm \in BOOLEAN
  /\ \A k \in CacheKeys : cache[k] # NoEntry => cache[k].until \in Nat
  /\ \A r \in Rooms : Exists(r) =>
       /\ rooms[r].details \in Details
       /\ rooms[r].photos \subseteq [image : Images, position : 0..MaxImages]

\* The images that rows point at.
Shown ==
  ({picture[o] : o \in Rooms \cup Users} \ {0})
    \cup UNION {{p.image : p \in rooms[r].photos} : r \in {r \in Rooms : Exists(r)}}

(***************************************************************************)
(* Every picture a row points at is in the store, in every size, whatever  *)
(* uploads, deletions, failed calls and deaths come together: a row is     *)
(* written after its files and deleted before them.                        *)
(***************************************************************************)
PicturesStored ==
  Shown \X {Variants[i] : i \in Sizes} \subseteq files

(***************************************************************************)
(* A cached view may be wrong (a slow reader stores it after the update    *)
(* that made it stale, a del fails, a worker dies before it), but for no   *)
(* longer than its time to live after the change, plus the time a request  *)
(* may take.                                                               *)
(***************************************************************************)
StaleNoLongerThanTtl ==
  \A k \in CacheKeys :
    Live(k) /\ cache[k].value # View(k) => now < changed[k] + TtlOf[k] + Patience

Quiet == calm /\ InFlight = {}

(***************************************************************************)
(* As long as requests come one after another and nothing fails, what the  *)
(* cache holds between them is what the database says: every handler       *)
(* invalidates every view its writes show up in.                           *)
(***************************************************************************)
ExactWhenQuiet ==
  Quiet => \A k \in CacheKeys : Live(k) => cache[k].value = View(k)

(***************************************************************************)
(* In the same conditions nothing is left behind: every stored file        *)
(* belongs to a row, every address to a profile, and photos are shown in   *)
(* the order they were uploaded.                                           *)
(***************************************************************************)
TidyWhenQuiet ==
  Quiet =>
    /\ files \subseteq Shown \X {Variants[i] : i \in Sizes}
    /\ addresses = Cardinality({u \in Users : address[u] > 0})
    /\ \A r \in Rooms : Exists(r) =>
         \A p, o \in rooms[r].photos : p.image < o.image => p.position < o.position

=============================================================================
