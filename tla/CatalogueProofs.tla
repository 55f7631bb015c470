-------------------------- MODULE CatalogueProofs --------------------------
(***************************************************************************)
(* What the catalogue promises, proved for every number of rooms, users,   *)
(* requests in flight, images, faults and deaths.  Five theorems, along    *)
(* one chain of inductive invariants:                                      *)
(*                                                                         *)
(*   Types      what rows, cache entries and each stage's locals hold;     *)
(*   Pictures   who may show, upload or remove an image, so that nobody    *)
(*              removes the files of one a row points at;                  *)
(*   Fresh      a cached view is what the database says, or was read no    *)
(*              later than it changed;                                     *)
(*   AtMostOne  while nothing has overlapped, at most one is in flight;    *)
(*   Exact      while nothing has overlapped or failed, a wrong view is    *)
(*              one that the request in flight has still to invalidate;    *)
(*   Tidy       in the same conditions, a file without a row is the image  *)
(*              that request is uploading or removing.                     *)
(*                                                                         *)
(* Every action has an "Effect" lemma saying what it writes and where its  *)
(* request goes; the invariants are preserved from these.                  *)
(***************************************************************************)
EXTENDS RoomCatalogue, FiniteSetTheorems, TLAPS

-----------------------------------------------------------------------------
(* Types *)

Photos(r) == IF Exists(r) THEN rooms[r].photos ELSE {}

IsLocals(l) ==
  l = [kind |-> l.kind, of |-> l.of, since |-> l.since, value |-> l.value, image |-> l.image,
       size |-> l.size, left |-> l.left, previous |-> l.previous, position |-> l.position]

Photo == [image : Images, position : 0..MaxImages]

RoomOK(r) ==
  Exists(r) =>
    /\ rooms[r] = [details |-> rooms[r].details, photos |-> rooms[r].photos]
    /\ rooms[r].details \in Details
    /\ rooms[r].photos \subseteq Photo
    /\ \A p \in rooms[r].photos : p.position < p.image /\ p.image <= issued

EntryOK(k) ==
  cache[k] # NoEntry =>
    /\ cache[k] = [value |-> cache[k].value, until |-> cache[k].until]
    /\ cache[k].until \in Nat
    /\ k \in Rooms => Exists(k)

ControlOK ==
  /\ now \in Times
  /\ calm \in BOOLEAN
  /\ pc = [q \in Requests |-> pc[q]]
  /\ loc = [q \in Requests |-> loc[q]]

TablesOK ==
  /\ rooms = [r \in Rooms |-> rooms[r]]
  /\ \A r \in Rooms : RoomOK(r)
  /\ picture \in [Rooms \cup Users -> 0..issued]
  /\ files \subseteq Images \X {Variants[i] : i \in Sizes}
  /\ issued \in 0..MaxImages
  /\ addresses \in Nat
  /\ address \in [Users -> -1..addresses]
  /\ cache = [k \in CacheKeys |-> cache[k]]
  /\ \A k \in CacheKeys : EntryOK(k)
  /\ changed \in [CacheKeys -> 0..now]
  /\ faults \in 0..MaxFaults

Stages == {"new", "done", "get", "read", "set", "update", "invalidate", "keys", "sweep",
           "save", "photo", "picture", "unlink", "unphoto", "address", "profile"}

\* What a request at each stage holds.
ReadingOK(q) ==
  LET l == loc[q] IN
  /\ pc[q] \in {"get", "read", "set"} =>
       /\ l.of \in CacheKeys
       /\ l.kind \in {"update", "photos", "unphoto"} => l.of \in Rooms
  /\ pc[q] = "set" /\ l.of \in Rooms => Exists(l.of)
  /\ pc[q] = "update" => l.of \in Rooms /\ Exists(l.of)
  /\ pc[q] \in {"invalidate", "keys", "sweep"} => l.of \in Rooms

Uploading(q) == pc[q] \in {"save", "photo", "picture"}

UploadOK(q) ==
  LET l == loc[q] IN
  Uploading(q) =>
    /\ l.kind \in {"photos", "picture"}
    /\ pc[q] = "photo" => l.kind = "photos"
    /\ pc[q] = "picture" => l.kind = "picture"
    /\ l.image \in Nat \ {0} /\ l.left \in Nat \ {0}
    /\ l.image + l.left - 1 <= issued
    /\ l.size \in Sizes
    /\ l.kind = "photos" =>
         /\ l.of \in Rooms /\ Exists(l.of)
         /\ l.previous = 0
         /\ l.position \in Nat /\ l.position < l.image
    /\ l.kind = "picture" =>
         /\ l.of \in Rooms \cup Users
         /\ l.left = 1
         /\ l.previous \in 0..issued

RemovalOK(q) ==
  LET l == loc[q] IN
  /\ pc[q] = "unlink" => l.of \in Rooms \cup Users
  /\ pc[q] = "unphoto" => l.kind = "unphoto" /\ l.of \in Rooms /\ Exists(l.of)
  /\ pc[q] \in {"unlink", "unphoto"} => l.previous \in 1..issued
  /\ pc[q] \in {"address", "profile"} => l.of \in Users
  /\ pc[q] = "profile" => l.previous \in 1..addresses

RequestOK(q) ==
  /\ pc[q] \in Stages
  /\ q \in InFlight => /\ IsLocals(loc[q])
                       /\ loc[q].since \in Nat
                       /\ loc[q].since <= now /\ now <= loc[q].since + Patience
  /\ ReadingOK(q)
  /\ UploadOK(q)
  /\ RemovalOK(q)

Types == ControlOK /\ TablesOK /\ \A q \in Requests : RequestOK(q)

-----------------------------------------------------------------------------
(* The types are kept *)

\* Where a request goes, and that no other moves.
LEMMA GotoAt ==
  ASSUME ControlOK, NEW q \in Requests, NEW s, NEW l, Goto(q, s, l)
  PROVE  /\ pc' = [p \in Requests |-> pc'[p]] /\ loc' = [p \in Requests |-> loc'[p]]
         /\ pc'[q] = s /\ loc'[q] = l
         /\ \A p \in Requests \ {q} : pc'[p] = pc[p] /\ loc'[p] = loc[p]
         /\ now' = now
BY DEF ControlOK, Goto

Grows ==
  /\ issued <= issued' /\ addresses <= addresses'
  /\ \A r \in Rooms : Exists(r) => Exists(r)'

LEMMA OthersStay ==
  ASSUME TablesOK, TablesOK', Grows, now' = now,
         NEW p \in Requests, RequestOK(p), pc'[p] = pc[p], loc'[p] = loc[p]
  PROVE  RequestOK(p)'
<1>1. issued \in Nat /\ issued' \in Nat /\ addresses \in Nat /\ addresses' \in Nat
  BY CatalogueAssumption DEF TablesOK
<1>2. (p \in InFlight)' <=> p \in InFlight
  BY DEF InFlight
<1>3. ReadingOK(p)'
  BY DEF RequestOK, ReadingOK, Grows
<1>4. UploadOK(p)'
  BY <1>1 DEF RequestOK, UploadOK, Uploading, Grows
<1>5. RemovalOK(p)'
  BY <1>1 DEF RequestOK, RemovalOK, Grows
<1>. QED
  BY <1>2, <1>3, <1>4, <1>5 DEF RequestOK

LEMMA StepKeepsTypes ==
  ASSUME Types, NEW q \in Requests, NEW s, NEW l, Goto(q, s, l),
         calm' \in BOOLEAN, TablesOK', Grows, RequestOK(q)'
  PROVE  Types'
<1>1. ControlOK'
  BY GotoAt DEF Types, ControlOK
<1>2. ASSUME NEW p \in Requests \ {q}
      PROVE  RequestOK(p)'
  BY GotoAt, OthersStay DEF Types
<1>. QED
  BY <1>1, <1>2 DEF Types

\* A request that is done holds nothing.
LEMMA DoneIsOK ==
  ASSUME NEW q \in Requests, pc'[q] = "done"
  PROVE  RequestOK(q)'
BY DEF RequestOK, Stages, InFlight, ReadingOK, UploadOK, Uploading, RemovalOK

\* What a handler starts with.
LEMMA FreshLocals ==
  ASSUME NEW kind, NEW o
  PROVE  LET l == Locals(kind, o) IN
         /\ IsLocals(l)
         /\ l.kind = kind /\ l.of = o /\ l.since = now
         /\ l.image = 0 /\ l.size = 1 /\ l.left = 1 /\ l.previous = 0 /\ l.position = 0
BY DEF IsLocals, Locals

LEMMA WithValue ==
  ASSUME NEW m, IsLocals(m), NEW v
  PROVE  LET l == [m EXCEPT !.value = v] IN
         IsLocals(l) /\ l.kind = m.kind /\ l.of = m.of /\ l.since = m.since /\ l.value = v
BY DEF IsLocals

\* A request that goes on has no more locals than it had.
LEMMA OnTime ==
  ASSUME Types, NEW q \in Requests, NEW l, IsLocals(l), loc'[q] = l, now' = now,
         pc'[q] \in Stages,
         \/ l.since = now
         \/ q \in InFlight /\ l.since = loc[q].since,
         ReadingOK(q)', UploadOK(q)', RemovalOK(q)'
  PROVE  RequestOK(q)'
<1>1. now \in Nat /\ Patience \in Nat
  BY RuntimeAssumption, CatalogueAssumption DEF Types, ControlOK, Times
<1>2. l.since \in Nat /\ l.since <= now /\ now <= l.since + Patience
  BY <1>1 DEF Types, RequestOK
<1>3. IsLocals(loc[q])'
  BY DEF IsLocals
<1>. QED
  BY <1>2, <1>3 DEF RequestOK

LEMMA RowsStay ==
  ASSUME TablesOK, now \in Nat, now' \in Nat, now <= now', faults' \in 0..MaxFaults,
         UNCHANGED <<tables, cache, changed>>
  PROVE  TablesOK' /\ Grows
<1>1. \A r \in Rooms : Exists(r)' <=> Exists(r)
  BY DEF tables, Exists
<1>2. Grows
  BY <1>1, CatalogueAssumption DEF Grows, tables, TablesOK
<1>3. \A r \in Rooms : RoomOK(r)'
  BY <1>1 DEF TablesOK, RoomOK, tables
<1>4. \A k \in CacheKeys : EntryOK(k)'
  BY <1>1 DEF TablesOK, EntryOK
<1>5. changed' \in [CacheKeys -> 0..now']
  BY DEF TablesOK
<1>. QED
  BY <1>2, <1>3, <1>4, <1>5 DEF TablesOK, tables

LEMMA BeginAt ==
  ASSUME NEW q \in Requests, NEW s, NEW l, Begin(q, s, l)
  PROVE  Goto(q, s, l) /\ pc[q] = "new" /\ CanStart
BY DEF Begin, Goto

\* A request that begins by reading, or that goes on reading.
LEMMA ReadersKeepTypes ==
  ASSUME Types, NEW q \in Requests, calm' \in BOOLEAN,
         List(q) \/ GetById(q) \/ Update(q) \/ DeletePhoto(q) \/ UpsertAddress(q)
  PROVE  Types'
<1>1. UNCHANGED <<tables, cacheVars, changed>>
  BY DEF List, GetById, Update, DeletePhoto, UpsertAddress
<1>2. now \in Nat /\ faults \in 0..MaxFaults
  BY RuntimeAssumption DEF Types, ControlOK, Times, TablesOK
<1>3. ASSUME NEW s \in Stages, NEW l, Begin(q, s, l), IsLocals(l), l.since = now,
             ReadingOK(q)', UploadOK(q)', RemovalOK(q)'
      PROVE  Types'
  <2>1. Goto(q, s, l) /\ pc'[q] = s /\ loc'[q] = l /\ now' = now
    BY <1>3, BeginAt, GotoAt DEF Types
  <2>2. TablesOK' /\ Grows
    BY <1>1, <1>2, <2>1, RowsStay DEF Types, cacheVars
  <2>3. RequestOK(q)'
    BY <1>3, <2>1, OnTime
  <2>. QED
    BY <2>1, <2>2, <2>3, StepKeepsTypes
<1>4. CASE List(q)
  <2>1. Begin(q, "get", Locals("list", Listing))
    BY <1>4 DEF List
  <2>2. pc'[q] = "get" /\ loc'[q] = Locals("list", Listing)
    BY <2>1, BeginAt, GotoAt DEF Types
  <2>. QED
    BY <2>1, <2>2, <1>3, FreshLocals, CatalogueAssumption
    DEF Stages, ReadingOK, UploadOK, Uploading, RemovalOK
<1>5. ASSUME NEW r \in Rooms, NEW kind \in {"detail", "update"}, Begin(q, "get", Locals(kind, r))
      PROVE  Types'
  <2>2. pc'[q] = "get" /\ loc'[q] = Locals(kind, r)
    BY <1>5, BeginAt, GotoAt DEF Types
  <2>. QED
    BY <1>5, <2>2, <1>3, FreshLocals, CatalogueAssumption
    DEF Stages, ReadingOK, UploadOK, Uploading, RemovalOK
<1>6. CASE GetById(q) \/ Update(q)
  BY <1>5, <1>6 DEF GetById, Update
<1>7. CASE DeletePhoto(q)
  <2>1. PICK r \in Rooms : Exists(r) /\ \E p \in rooms[r].photos :
                Begin(q, "unphoto", [Locals("unphoto", r) EXCEPT !.previous = p.image])
    BY <1>7 DEF DeletePhoto
  <2>2. PICK p \in rooms[r].photos :
                Begin(q, "unphoto", [Locals("unphoto", r) EXCEPT !.previous = p.image])
    BY <2>1
  <2>. DEFINE l == [Locals("unphoto", r) EXCEPT !.previous = p.image]
  <2>3. IsLocals(l) /\ l.kind = "unphoto" /\ l.of = r /\ l.since = now /\ l.previous = p.image
    BY DEF IsLocals, Locals
  <2>4. pc'[q] = "unphoto" /\ loc'[q] = l
    BY <2>2, BeginAt, GotoAt DEF Types
  <2>5. p.image \in 1..issued
    <3>1. RoomOK(r) /\ issued \in Nat /\ MaxImages \in Nat
      BY CatalogueAssumption DEF Types, TablesOK
    <3>2. p.image \in 1..MaxImages /\ p.image <= issued
      BY <3>1, <2>1 DEF RoomOK, Photo, Images
    <3>. QED
      BY <3>1, <3>2
  <2>6. Exists(r)' /\ issued' = issued
    BY <1>1, <2>1 DEF Exists, tables
  <2>. HIDE DEF l
  <2>7. ReadingOK(q)' /\ UploadOK(q)'
    BY <2>4 DEF ReadingOK, UploadOK, Uploading
  <2>8. RemovalOK(q)'
    BY <2>3, <2>4, <2>5, <2>6 DEF RemovalOK
  <2>9. Begin(q, "unphoto", l) /\ "unphoto" \in Stages
    BY <2>2 DEF l, Stages
  <2>. QED
    BY <2>3, <2>7, <2>8, <2>9, <1>3
<1>8. CASE UpsertAddress(q)
  <2>1. PICK u \in Users : Begin(q, "address", Locals("address", u))
    BY <1>8 DEF UpsertAddress
  <2>2. pc'[q] = "address" /\ loc'[q] = Locals("address", u)
    BY <2>1, BeginAt, GotoAt DEF Types
  <2>3. ReadingOK(q)' /\ UploadOK(q)' /\ RemovalOK(q)'
    BY <2>2, FreshLocals DEF ReadingOK, UploadOK, Uploading, RemovalOK
  <2>. QED
    BY <2>1, <2>3, <1>3, FreshLocals DEF Stages
<1>. QED
  BY <1>4, <1>6, <1>7, <1>8

\* What a request does with what it got from the cache, or has stored there.
LEMMA LookedUpAt ==
  ASSUME Types, NEW q \in Requests, pc[q] \in {"get", "set"}, LookedUp(q),
         loc[q].kind = "update" => Exists(loc[q].of), UNCHANGED <<now, rooms>>
  PROVE  RequestOK(q)' /\ \E s, l : Goto(q, s, l)
<1>0. loc[q].of \in CacheKeys /\ (loc[q].kind = "update" => loc[q].of \in Rooms)
  BY DEF Types, RequestOK, ReadingOK
<1>1. CASE loc[q].kind = "update"
  <2>1. Goto(q, "update", loc[q])
    BY <1>1 DEF LookedUp
  <2>2. pc'[q] = "update" /\ loc'[q] = loc[q]
    BY <2>1, GotoAt DEF Types
  <2>3. q \in InFlight /\ IsLocals(loc[q])
    BY DEF Types, RequestOK, InFlight
  <2>4. ReadingOK(q)' /\ UploadOK(q)' /\ RemovalOK(q)'
    BY <1>0, <1>1, <2>2 DEF ReadingOK, UploadOK, Uploading, RemovalOK, Exists
  <2>. QED
    BY <2>1, <2>2, <2>3, <2>4, OnTime DEF Stages
<1>2. CASE loc[q].kind # "update"
  <2>1. Goto(q, "done", NoLocals)
    BY <1>2 DEF LookedUp, Finish
  <2>. QED
    BY <2>1, GotoAt, DoneIsOK DEF Types
<1>. QED
  BY <1>1, <1>2

\* A step along the cache, after which the tables are as they were.
CacheSteps(q) ==
  \/ CacheGet(q) \/ Compute(q) \/ Remember(q)
  \/ Invalidate(q) \/ FindListings(q) \/ SweepListings(q)

\* What one call of the cache may do to an entry.
CacheCall(q) ==
  \/ UNCHANGED cache
  \/ /\ pc[q] = "set"
     /\ cache' = [cache EXCEPT ![loc[q].of] =
                    [value |-> loc[q].value, until |-> now + TtlOf[loc[q].of]]]
  \/ /\ pc[q] = "invalidate"
     /\ cache' = [k \in CacheKeys |-> IF k \in {loc[q].of} THEN NoEntry ELSE cache[k]]
  \/ /\ pc[q] = "sweep"
     /\ cache' = [k \in CacheKeys |-> IF k \in {Listing} THEN NoEntry ELSE cache[k]]

LEMMA CacheStepEffect ==
  ASSUME NEW q \in Requests, CacheSteps(q)
  PROVE  /\ CacheCall(q)
         /\ UNCHANGED <<tables, changed>>
         /\ faults' = faults \/ Fault
<1>1. CASE CacheGet(q)
  BY <1>1 DEF CacheGet, Lookup, CacheCall
<1>2. CASE Compute(q)
  BY <1>2 DEF Compute, CacheCall, cacheVars
<1>3. CASE Remember(q)
  BY <1>3 DEF Remember, CacheSet, CacheCall
<1>4. CASE Invalidate(q) \/ SweepListings(q)
  BY <1>4 DEF Invalidate, SweepListings, CacheDel, CacheCall
<1>5. CASE FindListings(q)
  BY <1>5 DEF FindListings, CacheKeysOf, CacheCall
<1>. QED
  BY <1>1, <1>2, <1>3, <1>4, <1>5 DEF CacheSteps

LEMMA FaultsCounted ==
  ASSUME TablesOK, faults' = faults \/ Fault
  PROVE  faults' \in 0..MaxFaults
BY CacheAssumption DEF TablesOK, Fault

LEMMA CacheCallKeepsTables ==
  ASSUME Types, NEW q \in Requests, CacheCall(q), now' = now,
         UNCHANGED <<tables, changed>>, faults' \in 0..MaxFaults
  PROVE  TablesOK' /\ Grows
<1>1. \A r \in Rooms : Exists(r)' <=> Exists(r)
  BY DEF tables, Exists
<1>2. Grows
  BY <1>1, CatalogueAssumption DEF Grows, tables, Types, TablesOK
<1>3. \A r \in Rooms : RoomOK(r)'
  BY <1>1 DEF Types, TablesOK, RoomOK, tables
<1>4. cache' = [k \in CacheKeys |-> cache'[k]]
  BY DEF CacheCall, Types, TablesOK
<1>5. ASSUME NEW k \in CacheKeys
      PROVE  EntryOK(k)'
  <2>1. EntryOK(k)
    BY DEF Types, TablesOK
  <2>2. CASE cache'[k] = cache[k] \/ cache'[k] = NoEntry
    BY <2>1, <2>2, <1>1 DEF EntryOK
  <2>3. CASE pc[q] = "set" /\ k = loc[q].of
             /\ cache'[k] = [value |-> loc[q].value, until |-> now + TtlOf[k]]
    <3>1. now \in Nat /\ TtlOf[k] \in Nat
      BY RuntimeAssumption, CacheAssumption DEF Types, ControlOK, Times
    <3>2. k \in Rooms => Exists(k)
      BY <2>3 DEF Types, RequestOK, ReadingOK
    <3>. QED
      BY <2>3, <3>1, <3>2, <1>1 DEF EntryOK
  <2>. QED
    BY <2>2, <2>3 DEF CacheCall, Types, TablesOK
<1>. QED
  BY <1>2, <1>3, <1>4, <1>5 DEF TablesOK, tables, Types

LEMMA CacheStepsKeepTypes ==
  ASSUME Types, NEW q \in Requests, calm' \in BOOLEAN, CacheSteps(q)
  PROVE  Types'
<1>1. CacheCall(q) /\ UNCHANGED <<tables, changed>> /\ faults' \in 0..MaxFaults
  BY CacheStepEffect, FaultsCounted DEF Types
<1>2. \A r \in Rooms : Exists(r)' <=> Exists(r)
  BY <1>1 DEF tables, Exists
<1>3. RequestOK(q) /\ ReadingOK(q)
  BY DEF Types, RequestOK
<1>4. ASSUME now' = now, RequestOK(q)', NEW s, NEW l, Goto(q, s, l)
      PROVE  Types'
  BY <1>1, <1>4, CacheCallKeepsTables, StepKeepsTypes
<1>5. ASSUME Goto(q, "done", NoLocals)
      PROVE  Types'
  BY <1>4, <1>5, GotoAt, DoneIsOK DEF Types
<1>6. ASSUME q \in InFlight, NEW s \in Stages, NEW l, Goto(q, s, l), IsLocals(l),
             l.since = loc[q].since, ReadingOK(q)', UploadOK(q)', RemovalOK(q)'
      PROVE  Types'
  BY <1>4, <1>6, GotoAt, OnTime DEF Types
<1>7. ASSUME pc[q] \in {"get", "set"}, LookedUp(q),
             loc[q].kind = "update" => Exists(loc[q].of)
      PROVE  Types'
  <2>1. now' = now /\ rooms' = rooms
    BY <1>1, <1>7 DEF LookedUp, Finish, Goto, tables
  <2>. QED
    BY <1>4, <1>7, <2>1, LookedUpAt
<1>8. ASSUME q \in InFlight, NEW s \in {"read", "get", "keys", "sweep"}, Goto(q, s, loc[q]),
             s \in {"read", "get"} =>
               /\ loc[q].of \in CacheKeys
               /\ loc[q].kind \in {"update", "photos", "unphoto"} => loc[q].of \in Rooms,
             s \in {"keys", "sweep"} => loc[q].of \in Rooms
      PROVE  Types'
  <2>1. pc'[q] = s /\ loc'[q] = loc[q] /\ IsLocals(loc[q]) /\ s \in Stages
    BY <1>8, GotoAt DEF Types, RequestOK, Stages
  <2>2. ReadingOK(q)' /\ UploadOK(q)' /\ RemovalOK(q)'
    BY <1>8, <2>1 DEF ReadingOK, UploadOK, Uploading, RemovalOK
  <2>. QED
    BY <1>6, <1>8, <2>1, <2>2
<1>9. CASE CacheGet(q)
  <2>1. pc[q] = "get" /\ q \in InFlight /\ loc[q].of \in CacheKeys
    BY <1>3, <1>9 DEF CacheGet, ReadingOK, InFlight
  <2>2. CASE LookedUp(q) /\ Live(loc[q].of)
    <3>1. loc[q].kind = "update" => loc[q].of \in Rooms
      BY <2>1, <1>3 DEF ReadingOK
    <3>2. EntryOK(loc[q].of)
      BY <2>1 DEF Types, TablesOK
    <3>. QED
      BY <2>1, <2>2, <3>1, <3>2, <1>7 DEF EntryOK, Live
  <2>3. CASE Goto(q, "read", loc[q])
    BY <2>1, <2>3, <1>3, <1>8 DEF ReadingOK
  <2>. QED
    BY <1>9, <2>2, <2>3 DEF CacheGet, Lookup
<1>10. CASE Compute(q)
  <2>. DEFINE l == [loc[q] EXCEPT !.value = View(loc[q].of)]
  <2>1. pc[q] = "read" /\ q \in InFlight /\ loc[q].of \in CacheKeys
    BY <1>3, <1>10 DEF Compute, ReadingOK, InFlight
  <2>2. CASE Finish(q)
    BY <2>2, <1>5 DEF Finish
  <2>3. CASE Goto(q, "set", l) /\ ~(loc[q].of \in Rooms /\ ~Exists(loc[q].of))
    <3>1. IsLocals(l) /\ l.kind = loc[q].kind /\ l.of = loc[q].of /\ l.since = loc[q].since
      <4>1. IsLocals(loc[q])
        BY <2>1 DEF Types, RequestOK
      <4>. QED
        BY <4>1, WithValue
    <3>2. pc'[q] = "set" /\ loc'[q] = l
      BY <2>3, GotoAt DEF Types
    <3>. HIDE DEF l
    <3>3. ReadingOK(q)' /\ UploadOK(q)' /\ RemovalOK(q)'
      BY <2>1, <2>3, <3>1, <3>2, <1>2, <1>3 DEF ReadingOK, UploadOK, Uploading, RemovalOK
    <3>. QED
      BY <2>1, <2>3, <3>1, <3>3, <1>6 DEF Stages
  <2>. QED
    BY <1>10, <2>2, <2>3 DEF Compute
<1>11. CASE Remember(q)
  <2>1. loc[q].kind = "update" => Exists(loc[q].of)
    BY <1>3, <1>11 DEF Remember, ReadingOK
  <2>. QED
    BY <2>1, <1>7, <1>11 DEF Remember
<1>12. ASSUME pc[q] \in {"keys", "sweep"}, Invalidated(q)
       PROVE  Types'
  <2>1. q \in InFlight /\ loc[q].of \in Rooms /\ loc[q].of \in CacheKeys
    BY <1>3, <1>12, CatalogueAssumption DEF ReadingOK, InFlight
  <2>. QED
    BY <2>1, <1>12, <1>5, <1>8 DEF Invalidated, Finish
<1>13. CASE Invalidate(q)
  BY <1>3, <1>8, <1>13 DEF Invalidate, ReadingOK, InFlight
<1>14. CASE FindListings(q)
  <2>1. pc[q] = "keys" /\ (Invalidated(q) \/ Goto(q, "sweep", loc[q]))
    BY <1>14 DEF FindListings, CacheKeysOf
  <2>. QED
    BY <2>1, <1>3, <1>8, <1>12 DEF ReadingOK, InFlight
<1>15. CASE SweepListings(q)
  BY <1>12, <1>15 DEF SweepListings
<1>. QED
  BY <1>9, <1>10, <1>11, <1>13, <1>14, <1>15 DEF CacheSteps

\* A bounded set of numbers has a greatest one.
LEMMA Greatest ==
  ASSUME NEW N \in Nat, NEW T \in SUBSET (0..N), T # {}
  PROVE  \E m \in T : \A n \in T : n <= m
<1>. DEFINE Above(m) == (m + 1)..N
            Sets == {Above(m) : m \in T}
            R == StrictSubsetOrdering(0..N)
<1>1. IsWellFoundedOn(R, FiniteSubsetsOf(0..N))
  BY FS_StrictSubsetOrderingWellFounded
<1>2. Sets \subseteq FiniteSubsetsOf(0..N) /\ Sets # {}
  <2>1. ASSUME NEW m \in T
        PROVE  IsFiniteSet(Above(m)) /\ Above(m) \in SUBSET (0..N)
    BY FS_Interval
  <2>2. \A m \in T : Above(m) \in FiniteSubsetsOf(0..N)
    BY <2>1 DEF FiniteSubsetsOf
  <2>. HIDE DEF Above
  <2>. QED
    BY <2>2
<1>. HIDE DEF R
<1>3. PICK x \in Sets : \A y \in Sets : <<y, x>> \notin R
  <2>. HIDE DEF Sets
  <2>. QED
    BY <1>1, <1>2, WFMin
<1>4. PICK m \in T : x = Above(m)
  BY <1>3
<1>5. ASSUME NEW n \in T, n > m
      PROVE  FALSE
  <2>1. Above(n) \subseteq Above(m) /\ n \in Above(m) /\ n \notin Above(n)
    BY <1>5
  <2>2. <<Above(n), Above(m)>> \in R
    BY <2>1 DEF R, StrictSubsetOrdering
  <2>. QED
    BY <2>2, <1>3, <1>4
<1>. QED
  BY <1>5

LEMMA PastEveryPosition ==
  ASSUME NEW photos, photos \subseteq Photo
  PROVE  /\ NextPosition(photos) \in Nat
         /\ \A p \in photos : p.position < NextPosition(photos)
         /\ photos # {} => \E p \in photos : NextPosition(photos) = p.position + 1
<1>1. CASE photos = {}
  BY <1>1 DEF NextPosition
<1>2. CASE photos # {}
  <2>. DEFINE T == Positions(photos)
  <2>1. T \in SUBSET (0..MaxImages) /\ T # {} /\ MaxImages \in Nat
    BY <1>2, CatalogueAssumption DEF Positions, Photo
  <2>. DEFINE m == CHOOSE m \in T : \A n \in T : n <= m
  <2>2. m \in T /\ \A n \in T : n <= m
    <3>. HIDE DEF T
    <3>. QED
      BY <2>1, Greatest
  <2>3. NextPosition(photos) = 1 + m
    BY <1>2 DEF NextPosition
  <2>. HIDE DEF m
  <2>4. PICK p \in photos : m = p.position
    BY <2>2 DEF Positions
  <2>5. \A o \in photos : o.position <= m /\ o.position \in Nat
    BY <2>1, <2>2 DEF Positions
  <2>. QED
    BY <2>1, <2>2, <2>3, <2>4, <2>5
<1>. QED
  BY <1>1, <1>2

-----------------------------------------------------------------------------
(* The types are kept by what writes rows *)

\* A row of a room is written; nothing else is, but when it last changed.
RoomWritten(r) ==
  /\ \A x \in Rooms \ {r} : rooms'[x] = rooms[x]
  /\ Touch(r)
  /\ now' = now
  /\ UNCHANGED <<cacheVars, picture, files, issued, address, addresses>>

LEMMA TouchKeepsTypes ==
  ASSUME Types, NEW r \in Rooms, Touch(r), now' = now
  PROVE  changed' \in [CacheKeys -> 0..now']
<1>1. now \in Nat
  BY RuntimeAssumption DEF Types, ControlOK, Times
<1>2. changed \in [CacheKeys -> 0..now] /\ now \in 0..now
  BY <1>1 DEF Types, TablesOK
<1>. QED
  BY <1>2 DEF Touch

LEMMA RoomWrittenKeepsTables ==
  ASSUME Types, NEW r \in Rooms, RoomWritten(r), rooms' = [x \in Rooms |-> rooms'[x]],
         RoomOK(r)', Exists(r)'
  PROVE  TablesOK' /\ Grows
<1>1. \A x \in Rooms : Exists(x) => Exists(x)'
  BY DEF RoomWritten, Exists
<1>2. Grows
  BY <1>1, CatalogueAssumption DEF Grows, Types, TablesOK, RoomWritten
<1>3. ASSUME NEW x \in Rooms
      PROVE  RoomOK(x)'
  <2>1. CASE x = r
    BY <2>1
  <2>2. CASE x # r
    <3>1. rooms'[x] = rooms[x] /\ issued' = issued /\ RoomOK(x)
      BY <2>2 DEF RoomWritten, Types, TablesOK
    <3>. QED
      BY <3>1 DEF RoomOK, Exists
  <2>. QED
    BY <2>1, <2>2
<1>4. ASSUME NEW k \in CacheKeys
      PROVE  EntryOK(k)'
  BY <1>1 DEF Types, TablesOK, EntryOK, RoomWritten, cacheVars
<1>5. changed' \in [CacheKeys -> 0..now']
  BY TouchKeepsTypes DEF RoomWritten
<1>. QED
  BY <1>2, <1>3, <1>4, <1>5 DEF Types, TablesOK, RoomWritten, cacheVars

\* A request that goes on with its locals to a stage about a room.
LEMMA GoesOn ==
  ASSUME Types, NEW q \in Requests, q \in InFlight, calm' \in BOOLEAN, TablesOK', Grows,
         NEW s \in {"invalidate", "keys"}, NEW l, IsLocals(l), l.since = loc[q].since,
         l.of \in Rooms, Goto(q, s, l)
  PROVE  Types'
<1>1. pc'[q] = s /\ loc'[q] = l /\ now' = now /\ s \in Stages
  BY GotoAt DEF Types, Stages
<1>2. ReadingOK(q)' /\ UploadOK(q)' /\ RemovalOK(q)'
  BY <1>1 DEF ReadingOK, UploadOK, Uploading, RemovalOK
<1>. QED
  BY <1>1, <1>2, OnTime, StepKeepsTypes

LEMMA CreateEffect ==
  ASSUME Types, NEW q \in Requests, Create(q)
  PROVE  \E r \in Rooms, d \in Details :
           /\ ~Exists(r)
           /\ rooms' = [rooms EXCEPT ![r] = [details |-> d, photos |-> {}]]
           /\ RoomWritten(r)
           /\ Begin(q, "keys", Locals("create", r))
           /\ Exists(r)' /\ rooms'[r].photos = {}
<1>1. PICK r \in Rooms, d \in Details :
        /\ ~Exists(r)
        /\ rooms' = [rooms EXCEPT ![r] = [details |-> d, photos |-> {}]]
        /\ Touch(r)
        /\ Begin(q, "keys", Locals("create", r))
        /\ UNCHANGED <<cacheVars, picture, files, issued, address, addresses>>
  BY DEF Create
<1>2. rooms'[r] = [details |-> d, photos |-> {}]
  BY <1>1 DEF Types, TablesOK
<1>3. Exists(r)' /\ rooms'[r].photos = {}
  BY <1>2 DEF Exists, Absent
<1>4. RoomWritten(r)
  BY <1>1 DEF RoomWritten, Begin
<1>. QED
  BY <1>1, <1>3, <1>4

LEMMA CreateKeepsTypes ==
  ASSUME Types, NEW q \in Requests, calm' \in BOOLEAN, Create(q)
  PROVE  Types'
<1>1. PICK r \in Rooms, d \in Details :
        /\ ~Exists(r)
        /\ rooms' = [rooms EXCEPT ![r] = [details |-> d, photos |-> {}]]
        /\ RoomWritten(r)
        /\ Begin(q, "keys", Locals("create", r))
        /\ Exists(r)' /\ rooms'[r].photos = {}
  BY CreateEffect
<1>2. rooms'[r] = [details |-> d, photos |-> {}] /\ rooms' = [x \in Rooms |-> rooms'[x]]
  BY <1>1 DEF Types, TablesOK
<1>3. RoomOK(r)'
  BY <1>2 DEF RoomOK
<1>4. TablesOK' /\ Grows
  BY <1>1, <1>2, <1>3, RoomWrittenKeepsTables
<1>5. Goto(q, "keys", Locals("create", r)) /\ "keys" \in Stages
  BY <1>1, BeginAt DEF Stages
<1>6. pc'[q] = "keys" /\ loc'[q] = Locals("create", r) /\ now' = now
  BY <1>5, GotoAt DEF Types
<1>7. ReadingOK(q)' /\ UploadOK(q)' /\ RemovalOK(q)'
  BY <1>6, FreshLocals DEF ReadingOK, UploadOK, Uploading, RemovalOK
<1>8. RequestOK(q)'
  BY <1>5, <1>6, <1>7, FreshLocals, OnTime
<1>. QED
  BY <1>4, <1>5, <1>8, StepKeepsTypes

LEMMA UpdateRowEffect ==
  ASSUME Types, NEW q \in Requests, UpdateRow(q), NEW r, r = loc[q].of
  PROVE  /\ r \in Rooms /\ Exists(r) /\ Exists(r)'
         /\ rooms' = [x \in Rooms |-> rooms'[x]]
         /\ RoomWritten(r)
         /\ RoomOK(r)'
         /\ rooms'[r].photos = rooms[r].photos
         /\ Goto(q, "invalidate", loc[q])
<1>1. r \in Rooms /\ Exists(r) /\ RoomOK(r)
  BY DEF UpdateRow, Types, TablesOK, RequestOK, ReadingOK
<1>2. PICK d \in Details : rooms' = [rooms EXCEPT ![r].details = d]
  BY DEF UpdateRow
<1>3. rooms' = [x \in Rooms |-> rooms'[x]] /\ rooms'[r] = [rooms[r] EXCEPT !.details = d]
      /\ \A x \in Rooms \ {r} : rooms'[x] = rooms[x]
  BY <1>1, <1>2 DEF Types, TablesOK
<1>4. rooms'[r] = [details |-> d, photos |-> rooms[r].photos]
  BY <1>1, <1>3 DEF RoomOK
<1>5. Exists(r)' /\ rooms'[r].photos = rooms[r].photos /\ issued' = issued
  BY <1>4 DEF Exists, Absent, UpdateRow
<1>6. RoomOK(r)'
  BY <1>1, <1>4, <1>5 DEF RoomOK
<1>7. RoomWritten(r) /\ Goto(q, "invalidate", loc[q])
  BY <1>3 DEF UpdateRow, RoomWritten, Goto
<1>. QED
  BY <1>1, <1>3, <1>5, <1>6, <1>7

LEMMA UpdateRowKeepsTypes ==
  ASSUME Types, NEW q \in Requests, calm' \in BOOLEAN, UpdateRow(q)
  PROVE  Types'
<1>. DEFINE r == loc[q].of
<1>1. /\ r \in Rooms /\ Goto(q, "invalidate", loc[q])
      /\ TablesOK' /\ Grows
  BY UpdateRowEffect, RoomWrittenKeepsTables
<1>2. q \in InFlight /\ IsLocals(loc[q])
  BY DEF UpdateRow, InFlight, Types, RequestOK
<1>. QED
  BY <1>1, <1>2, GoesOn

\* The locals for the next file of an upload.
NextFile(l, m) ==
  /\ IsLocals(m)
  /\ m.kind = l.kind /\ m.of = l.of /\ m.since = l.since /\ m.previous = l.previous
  /\ m.image = l.image + 1 /\ m.size = 1
  /\ m.left = l.left - 1 /\ m.position = l.position + 1

Record(kind, of, since, value, image, size, left, previous, position) ==
  [kind |-> kind, of |-> of, since |-> since, value |-> value, image |-> image,
   size |-> size, left |-> left, previous |-> previous, position |-> position]

LEMMA ProcessingAt ==
  ASSUME NEW l, IsLocals(l), NEW image, NEW k, k = Processing(l, image)
  PROVE  /\ IsLocals(k)
         /\ k.kind = l.kind /\ k.of = l.of /\ k.since = l.since /\ k.previous = l.previous
         /\ k.image = image /\ k.size = 1 /\ k.left = l.left /\ k.position = l.position
<1>1. k = Record(l.kind, l.of, l.since, l.value, image, 1, l.left, l.previous, l.position)
  <2>1. [l EXCEPT !.image = image]
          = Record(l.kind, l.of, l.since, l.value, image, l.size, l.left, l.previous, l.position)
    BY DEF IsLocals, Record
  <2>2. k = [[l EXCEPT !.image = image] EXCEPT !.size = 1]
    BY DEF Processing
  <2>. QED
    BY <2>1, <2>2 DEF Record
<1>. QED
  BY <1>1 DEF IsLocals, Record

LEMMA NextFileExists ==
  ASSUME NEW l, IsLocals(l)
  PROVE  NextFile(l, [Processing(l, l.image + 1) EXCEPT !.left = @ - 1, !.position = @ + 1])
<1>1. PICK k : k = Processing(l, l.image + 1)
  OBVIOUS
<1>2. PICK m : m = [k EXCEPT !.left = @ - 1, !.position = @ + 1]
  OBVIOUS
<1>3. /\ IsLocals(k)
      /\ k.kind = l.kind /\ k.of = l.of /\ k.since = l.since /\ k.previous = l.previous
      /\ k.image = l.image + 1 /\ k.size = 1 /\ k.left = l.left /\ k.position = l.position
  BY <1>1, ProcessingAt
<1>4. [k EXCEPT !.left = @ - 1]
        = Record(k.kind, k.of, k.since, k.value, k.image, k.size, k.left - 1, k.previous,
                 k.position)
  BY <1>3 DEF IsLocals, Record
<1>5. m = [[k EXCEPT !.left = k.left - 1]
             EXCEPT !.position = [k EXCEPT !.left = k.left - 1].position + 1]
  BY <1>2
<1>6. m = Record(k.kind, k.of, k.since, k.value, k.image, k.size, k.left - 1, k.previous,
                 k.position + 1)
  BY <1>4, <1>5 DEF Record
<1>7. NextFile(l, m)
  BY <1>3, <1>6 DEF NextFile, IsLocals, Record
<1>. QED
  BY <1>1, <1>2, <1>7

LEMMA CreatePhotoEffect ==
  ASSUME Types, NEW q \in Requests, CreatePhoto(q), NEW r, r = loc[q].of
  PROVE  /\ r \in Rooms /\ Exists(r) /\ Exists(r)'
         /\ rooms' = [x \in Rooms |-> rooms'[x]]
         /\ RoomWritten(r)
         /\ RoomOK(r)'
         /\ rooms'[r].photos = rooms[r].photos
               \cup {[image |-> loc[q].image, position |-> loc[q].position]}
         /\ \/ loc[q].left > 1 /\ \E m : NextFile(loc[q], m) /\ Goto(q, "save", m)
            \/ loc[q].left = 1 /\ Goto(q, "invalidate", loc[q])
<1>. DEFINE p == [image |-> loc[q].image, position |-> loc[q].position]
<1>1. pc[q] = "photo" /\ loc[q].kind = "photos" /\ UploadOK(q) /\ Uploading(q)
  BY DEF CreatePhoto, Types, RequestOK, UploadOK, Uploading
<1>2. /\ r \in Rooms /\ Exists(r)
      /\ loc[q].image \in Nat \ {0} /\ loc[q].left \in Nat \ {0}
      /\ loc[q].image + loc[q].left - 1 <= issued
      /\ loc[q].position \in Nat /\ loc[q].position < loc[q].image
  BY <1>1 DEF UploadOK
<1>3. RoomOK(r) /\ issued \in 0..MaxImages /\ MaxImages \in Nat
  BY <1>2, CatalogueAssumption DEF Types, TablesOK
<1>4. p \in Photo /\ p.position < p.image /\ p.image <= issued
  BY <1>2, <1>3 DEF Photo, Images
<1>5. rooms' = [rooms EXCEPT ![r].photos = @ \cup {p}]
  BY DEF CreatePhoto
<1>. HIDE DEF p
<1>6. /\ rooms' = [x \in Rooms |-> rooms'[x]]
      /\ rooms'[r] = [rooms[r] EXCEPT !.photos = rooms[r].photos \cup {p}]
      /\ \A x \in Rooms \ {r} : rooms'[x] = rooms[x]
  BY <1>2, <1>5 DEF Types, TablesOK
<1>7. rooms'[r] = [details |-> rooms[r].details, photos |-> rooms[r].photos \cup {p}]
  BY <1>2, <1>3, <1>6 DEF RoomOK
<1>8. Exists(r)' /\ rooms'[r].photos = rooms[r].photos \cup {p} /\ issued' = issued
  BY <1>7 DEF Exists, Absent, CreatePhoto
<1>9. RoomOK(r)'
  BY <1>2, <1>3, <1>4, <1>7, <1>8 DEF RoomOK
<1>10. RoomWritten(r)
  <2>1. now' = now
    BY DEF CreatePhoto, Goto
  <2>. QED
    BY <1>6, <2>1 DEF CreatePhoto, RoomWritten
<1>11. CASE loc[q].left > 1
  <2>1. IsLocals(loc[q])
    BY <1>1 DEF Types, RequestOK, InFlight
  <2>2. Goto(q, "save", [Processing(loc[q], loc[q].image + 1) EXCEPT
                           !.left = @ - 1, !.position = @ + 1])
    BY <1>11 DEF CreatePhoto
  <2>3. \E m : NextFile(loc[q], m) /\ Goto(q, "save", m)
    BY <2>1, <2>2, NextFileExists
  <2>. QED
    BY <2>3, <1>2, <1>6, <1>8, <1>9, <1>10, <1>11 DEF p
<1>12. CASE ~(loc[q].left > 1)
  <2>1. loc[q].left = 1 /\ Goto(q, "invalidate", loc[q])
    BY <1>2, <1>12 DEF CreatePhoto
  <2>. QED
    BY <2>1, <1>2, <1>6, <1>8, <1>9, <1>10 DEF p
<1>. QED
  BY <1>11, <1>12

LEMMA CreatePhotoKeepsTypes ==
  ASSUME Types, NEW q \in Requests, calm' \in BOOLEAN, CreatePhoto(q)
  PROVE  Types'
<1>0. PICK r : r = loc[q].of
  OBVIOUS
<1>1. /\ r \in Rooms /\ Exists(r)' /\ Exists(r)
      /\ TablesOK' /\ Grows /\ issued' = issued
      /\ \/ loc[q].left > 1 /\ \E m : NextFile(loc[q], m) /\ Goto(q, "save", m)
         \/ loc[q].left = 1 /\ Goto(q, "invalidate", loc[q])
  BY <1>0, CreatePhotoEffect, RoomWrittenKeepsTables DEF RoomWritten
<1>2. /\ q \in InFlight /\ IsLocals(loc[q]) /\ UploadOK(q) /\ Uploading(q)
      /\ loc[q].kind = "photos"
  BY DEF CreatePhoto, InFlight, Types, RequestOK, UploadOK, Uploading
<1>3. CASE Goto(q, "invalidate", loc[q])
  BY <1>0, <1>1, <1>2, <1>3, GoesOn
<1>4. ASSUME loc[q].left > 1, NEW m, NextFile(loc[q], m), Goto(q, "save", m)
      PROVE  Types'
  <2>1. pc'[q] = "save" /\ loc'[q] = m /\ now' = now
    BY <1>4, GotoAt DEF Types
  <2>2. ReadingOK(q)' /\ RemovalOK(q)'
    BY <2>1 DEF ReadingOK, RemovalOK
  <2>3. m.of = r
    BY <1>0, <1>4 DEF NextFile
  <2>4. UploadOK(q)'
    <3>1. 1 \in Sizes
      BY CatalogueAssumption DEF Sizes
    <3>2. /\ loc[q].image \in Nat \ {0} /\ loc[q].left \in Nat \ {0} /\ loc[q].position \in Nat
          /\ loc[q].image + loc[q].left - 1 <= issued /\ loc[q].position < loc[q].image
          /\ loc[q].previous = 0 /\ issued \in Nat
      BY <1>2, CatalogueAssumption DEF UploadOK, Types, TablesOK
    <3>3. /\ m.image \in Nat \ {0} /\ m.left \in Nat \ {0} /\ m.position \in Nat
          /\ m.image + m.left - 1 <= issued' /\ m.position < m.image
          /\ m.previous = 0 /\ m.size = 1 /\ m.kind = "photos"
      BY <1>1, <1>2, <1>4, <3>2 DEF NextFile
    <3>. QED
      BY <1>1, <2>1, <2>3, <3>1, <3>3 DEF UploadOK, Uploading
  <2>5. RequestOK(q)'
    BY <1>2, <1>4, <2>1, <2>2, <2>4, OnTime DEF NextFile, Stages
  <2>. QED
    BY <1>1, <1>4, <2>5, StepKeepsTypes
<1>. QED
  BY <1>1, <1>3, <1>4

\* The row that q deletes, if it is still there.
Gone(q) == {p \in rooms[loc[q].of].photos : p.image = loc[q].previous}

LEMMA DeletePhotoRowEffect ==
  ASSUME Types, NEW q \in Requests, DeletePhotoRow(q), NEW r, r = loc[q].of,
         NEW gone, gone = Gone(q), gone # {}
  PROVE  /\ r \in Rooms /\ Exists(r) /\ Exists(r)'
         /\ rooms' = [x \in Rooms |-> rooms'[x]]
         /\ RoomWritten(r)
         /\ RoomOK(r)'
         /\ rooms'[r].photos = rooms[r].photos \ gone
         /\ Goto(q, "unlink", loc[q])
<1>1. r \in Rooms /\ Exists(r) /\ RoomOK(r)
  BY DEF DeletePhotoRow, Types, TablesOK, RequestOK, RemovalOK
<1>2. rooms' = [rooms EXCEPT ![r].photos = @ \ gone] /\ Goto(q, "unlink", loc[q]) /\ Touch(r)
  BY DEF DeletePhotoRow, Gone
<1>3. rooms' = [x \in Rooms |-> rooms'[x]]
      /\ rooms'[r] = [rooms[r] EXCEPT !.photos = rooms[r].photos \ gone]
      /\ \A x \in Rooms \ {r} : rooms'[x] = rooms[x]
  BY <1>1, <1>2 DEF Types, TablesOK
<1>4. rooms'[r] = [details |-> rooms[r].details, photos |-> rooms[r].photos \ gone]
  BY <1>1, <1>3 DEF RoomOK
<1>5. Exists(r)' /\ rooms'[r].photos = rooms[r].photos \ gone /\ issued' = issued
  BY <1>4 DEF Exists, Absent, DeletePhotoRow
<1>6. RoomOK(r)'
  BY <1>1, <1>4, <1>5 DEF RoomOK
<1>7. RoomWritten(r)
  BY <1>2, <1>3 DEF DeletePhotoRow, RoomWritten, Goto
<1>. QED
  BY <1>1, <1>2, <1>3, <1>5, <1>6, <1>7

LEMMA DeletePhotoRowKeepsTypes ==
  ASSUME Types, NEW q \in Requests, calm' \in BOOLEAN, DeletePhotoRow(q)
  PROVE  Types'
<1>0. PICK r : r = loc[q].of
  OBVIOUS
<1>1. PICK gone : gone = Gone(q)
  OBVIOUS
<1>2. CASE gone = {}
  <2>1. Goto(q, "done", NoLocals) /\ UNCHANGED <<tables, cacheVars, changed>>
    BY <1>0, <1>1, <1>2 DEF DeletePhotoRow, Finish, tables, Gone
  <2>2. now' = now /\ now \in Nat /\ faults' \in 0..MaxFaults
    BY <2>1, RuntimeAssumption DEF Goto, Types, ControlOK, TablesOK, Times, cacheVars
  <2>3. TablesOK' /\ Grows
    BY <2>1, <2>2, RowsStay DEF Types, cacheVars
  <2>4. RequestOK(q)'
    BY <2>1, GotoAt, DoneIsOK DEF Types
  <2>. QED
    BY <2>1, <2>3, <2>4, StepKeepsTypes
<1>3. CASE gone # {}
  <2>1. /\ r \in Rooms /\ TablesOK' /\ Grows /\ issued' = issued
        /\ Goto(q, "unlink", loc[q])
    BY <1>0, <1>1, <1>3, DeletePhotoRowEffect, RoomWrittenKeepsTables DEF RoomWritten
  <2>2. pc'[q] = "unlink" /\ loc'[q] = loc[q] /\ now' = now
    BY <2>1, GotoAt DEF Types
  <2>3. /\ q \in InFlight /\ IsLocals(loc[q]) /\ RemovalOK(q) /\ pc[q] = "unphoto"
    BY DEF DeletePhotoRow, InFlight, Types, RequestOK
  <2>4. ReadingOK(q)' /\ UploadOK(q)' /\ RemovalOK(q)'
    BY <1>0, <2>1, <2>2, <2>3 DEF ReadingOK, UploadOK, Uploading, RemovalOK
  <2>5. RequestOK(q)'
    BY <2>2, <2>3, <2>4, OnTime DEF Stages
  <2>. QED
    BY <2>1, <2>5, StepKeepsTypes
<1>. QED
  BY <1>2, <1>3

\* No room is written, and what else is written has its types.
LEMMA NoRoomWritten ==
  ASSUME Types, now' = now, UNCHANGED <<rooms, cache>>,
         picture' \in [Rooms \cup Users -> 0..issued'],
         files' \subseteq Images \X {Variants[i] : i \in Sizes},
         issued' \in 0..MaxImages, issued <= issued',
         addresses' \in Nat, addresses <= addresses',
         address' \in [Users -> -1..addresses'],
         changed' \in [CacheKeys -> 0..now'],
         faults' \in 0..MaxFaults
  PROVE  TablesOK' /\ Grows
<1>1. \A r \in Rooms : Exists(r)' <=> Exists(r)
  BY DEF Exists
<1>2. Grows
  BY <1>1 DEF Grows
<1>3. issued \in Nat /\ issued' \in Nat
  BY CatalogueAssumption DEF Types, TablesOK
<1>4. ASSUME NEW r \in Rooms
      PROVE  RoomOK(r)'
  <2>1. CASE Exists(r)
    <3>1. /\ rooms[r] = [details |-> rooms[r].details, photos |-> rooms[r].photos]
          /\ rooms[r].details \in Details
          /\ rooms[r].photos \subseteq Photo
          /\ \A p \in rooms[r].photos : p.position < p.image /\ p.image <= issued
      BY <2>1 DEF Types, TablesOK, RoomOK
    <3>2. \A p \in rooms[r].photos : p.image \in Nat
      BY <3>1, CatalogueAssumption DEF Photo, Images
    <3>3. \A p \in rooms[r].photos : p.position < p.image /\ p.image <= issued'
      BY <3>1, <3>2, <1>3
    <3>. QED
      BY <3>1, <3>3 DEF RoomOK
  <2>2. CASE ~Exists(r)
    BY <2>2, <1>1 DEF RoomOK
  <2>. QED
    BY <2>1, <2>2
<1>5. \A k \in CacheKeys : EntryOK(k)'
  BY <1>1 DEF Types, TablesOK, EntryOK
<1>. QED
  BY <1>2, <1>4, <1>5 DEF TablesOK, Types

LEMMA WithSize ==
  ASSUME NEW l, IsLocals(l), NEW m, m = [l EXCEPT !.size = @ + 1]
  PROVE  /\ IsLocals(m)
         /\ m.kind = l.kind /\ m.of = l.of /\ m.since = l.since /\ m.previous = l.previous
         /\ m.image = l.image /\ m.size = l.size + 1 /\ m.left = l.left
         /\ m.position = l.position
<1>1. m = Record(l.kind, l.of, l.since, l.value, l.image, l.size + 1, l.left, l.previous,
                 l.position)
  BY DEF IsLocals, Record
<1>. QED
  BY <1>1 DEF IsLocals, Record

LEMMA WithPrevious ==
  ASSUME NEW l, IsLocals(l), NEW i, NEW m, m = [l EXCEPT !.previous = i]
  PROVE  /\ IsLocals(m)
         /\ m.kind = l.kind /\ m.of = l.of /\ m.since = l.since /\ m.previous = i
         /\ m.image = l.image /\ m.size = l.size /\ m.left = l.left
         /\ m.position = l.position
<1>1. m = Record(l.kind, l.of, l.since, l.value, l.image, l.size, l.left, i, l.position)
  BY DEF IsLocals, Record
<1>. QED
  BY <1>1 DEF IsLocals, Record

\* The locals of an upload that begins.
Upload(m, kind, o, left, previous, position) ==
  /\ IsLocals(m)
  /\ m.kind = kind /\ m.of = o /\ m.since = now
  /\ m.image = issued + 1 /\ m.size = 1 /\ m.left = left
  /\ m.previous = previous /\ m.position = position

LEMMA PictureUpload ==
  ASSUME NEW o, NEW i
  PROVE  Upload([Processing(Locals("picture", o), issued + 1) EXCEPT !.previous = i],
                "picture", o, 1, i, 0)
<1>1. PICK k : k = Processing(Locals("picture", o), issued + 1)
  OBVIOUS
<1>2. PICK m : m = [k EXCEPT !.previous = i]
  OBVIOUS
<1>3. PICK l : l = Locals("picture", o)
  OBVIOUS
<1>4. /\ IsLocals(l) /\ l.kind = "picture" /\ l.of = o /\ l.since = now /\ l.left = 1
      /\ l.position = 0
  BY <1>3, FreshLocals
<1>5. /\ IsLocals(k) /\ k.kind = "picture" /\ k.of = o /\ k.since = now /\ k.left = 1
      /\ k.position = 0 /\ k.image = issued + 1 /\ k.size = 1
  BY <1>1, <1>3, <1>4, ProcessingAt
<1>6. Upload(m, "picture", o, 1, i, 0)
  BY <1>2, <1>5, WithPrevious DEF Upload
<1>. QED
  BY <1>1, <1>2, <1>6

LEMMA PhotosUpload ==
  ASSUME NEW o, NEW n, NEW position
  PROVE  Upload([Processing(Locals("photos", o), issued + 1) EXCEPT
                   !.left = n, !.position = position], "photos", o, n, 0, position)
<1>1. PICK k : k = Processing(Locals("photos", o), issued + 1)
  OBVIOUS
<1>2. PICK l : l = Locals("photos", o)
  OBVIOUS
<1>3. IsLocals(l) /\ l.kind = "photos" /\ l.of = o /\ l.since = now /\ l.previous = 0
  BY <1>2, FreshLocals
<1>4. /\ IsLocals(k) /\ k.kind = "photos" /\ k.of = o /\ k.since = now /\ k.previous = 0
      /\ k.image = issued + 1 /\ k.size = 1
  BY <1>1, <1>2, <1>3, ProcessingAt
<1>5. PICK h : h = [k EXCEPT !.left = n]
  OBVIOUS
<1>6. PICK m : m = [h EXCEPT !.position = position]
  OBVIOUS
<1>7. h = Record(k.kind, k.of, k.since, k.value, k.image, k.size, n, k.previous, k.position)
  BY <1>4, <1>5 DEF IsLocals, Record
<1>8. m = Record(k.kind, k.of, k.since, k.value, k.image, k.size, n, k.previous, position)
  BY <1>6, <1>7 DEF Record
<1>9. Upload(m, "photos", o, n, 0, position)
  BY <1>4, <1>8 DEF Upload, IsLocals, Record
<1>. QED
  BY <1>1, <1>5, <1>6, <1>9

LEMMA Counts ==
  ASSUME Types
  PROVE  /\ now \in Nat /\ issued \in Nat /\ issued \in 0..MaxImages /\ MaxImages \in Nat
         /\ addresses \in Nat /\ 1 \in Sizes /\ Len(Variants) \in Nat
BY RuntimeAssumption, CatalogueAssumption DEF Types, ControlOK, TablesOK, Times, Sizes

LEMMA SaveVariantEffect ==
  ASSUME Types, NEW q \in Requests, SaveVariant(q)
  PROVE  /\ UNCHANGED <<rooms, picture, issued, address, addresses, cache, changed>>
         /\ \/ Fault /\ Goto(q, "done", NoLocals) /\ files' = files
            \/ /\ faults' = faults
               /\ files' = files \cup {<<loc[q].image, Variants[loc[q].size]>>}
               /\ \/ /\ loc[q].size < Len(Variants)
                     /\ Goto(q, "save", [loc[q] EXCEPT !.size = @ + 1])
                  \/ /\ loc[q].size = Len(Variants)
                     /\ loc[q].kind = "photos" /\ Goto(q, "photo", loc[q])
                  \/ /\ loc[q].size = Len(Variants)
                     /\ loc[q].kind = "picture" /\ Goto(q, "picture", loc[q])
<1>1. loc[q].size \in Sizes /\ loc[q].kind \in {"photos", "picture"}
  BY DEF SaveVariant, Types, RequestOK, UploadOK, Uploading
<1>2. ~(loc[q].size < Len(Variants)) => loc[q].size = Len(Variants)
  BY <1>1, Counts DEF Sizes
<1>3. Finish(q) => Goto(q, "done", NoLocals)
  BY DEF Finish
<1>. QED
  BY <1>1, <1>2, <1>3 DEF SaveVariant

LEMMA SaveVariantKeepsTypes ==
  ASSUME Types, NEW q \in Requests, calm' \in BOOLEAN, SaveVariant(q)
  PROVE  Types'
<1>1. /\ q \in InFlight /\ IsLocals(loc[q]) /\ UploadOK(q) /\ Uploading(q)
  BY DEF SaveVariant, InFlight, Types, RequestOK, Uploading
<1>2. loc[q].image \in Images /\ loc[q].size \in Sizes
  BY <1>1, Counts DEF UploadOK, Images
<1>3. files' \subseteq Images \X {Variants[i] : i \in Sizes}
  <2>1. files \subseteq Images \X {Variants[i] : i \in Sizes}
    BY DEF Types, TablesOK
  <2>2. <<loc[q].image, Variants[loc[q].size]>> \in Images \X {Variants[i] : i \in Sizes}
    BY <1>2
  <2>3. files' = files \/ files' = files \cup {<<loc[q].image, Variants[loc[q].size]>>}
    BY SaveVariantEffect
  <2>. QED
    BY <2>1, <2>2, <2>3
<1>4. now' = now /\ faults' \in 0..MaxFaults
  BY SaveVariantEffect, FaultsCounted DEF Goto, Types
<1>5. TablesOK' /\ Grows /\ UNCHANGED <<rooms, picture, issued>>
  <2>1. UNCHANGED <<rooms, picture, issued, address, addresses, cache, changed>>
    BY SaveVariantEffect
  <2>. QED
    BY <2>1, <1>3, <1>4, NoRoomWritten, Counts DEF Types, TablesOK
<1>6. CASE Goto(q, "done", NoLocals)
  BY <1>5, <1>6, GotoAt, DoneIsOK, StepKeepsTypes DEF Types
<1>7. ASSUME NEW s \in {"save", "photo", "picture"}, NEW l, IsLocals(l), Goto(q, s, l),
             l.size \in Sizes, s = "photo" => l.kind = "photos",
             s = "picture" => l.kind = "picture",
             l.kind = loc[q].kind, l.of = loc[q].of, l.since = loc[q].since,
             l.previous = loc[q].previous, l.image = loc[q].image, l.left = loc[q].left,
             l.position = loc[q].position
      PROVE  Types'
  <2>1. pc'[q] = s /\ loc'[q] = l /\ now' = now /\ s \in Stages
    BY <1>7, GotoAt DEF Types, Stages
  <2>2. ReadingOK(q)' /\ RemovalOK(q)'
    BY <1>7, <2>1 DEF ReadingOK, RemovalOK
  <2>3. UploadOK(q)'
    BY <1>1, <1>5, <1>7, <2>1 DEF UploadOK, Uploading, Exists
  <2>4. RequestOK(q)'
    BY <1>1, <1>7, <2>1, <2>2, <2>3, OnTime
  <2>. QED
    BY <1>5, <1>7, <2>4, StepKeepsTypes
<1>8. CASE loc[q].size < Len(Variants) /\ Goto(q, "save", [loc[q] EXCEPT !.size = @ + 1])
  <2>1. PICK m : m = [loc[q] EXCEPT !.size = @ + 1]
    OBVIOUS
  <2>2. m.size \in Sizes
    BY <1>1, <1>2, <1>8, <2>1, WithSize, Counts DEF Sizes
  <2>. QED
    BY <1>1, <1>7, <1>8, <2>1, <2>2, WithSize
<1>9. CASE loc[q].kind = "photos" /\ Goto(q, "photo", loc[q])
  BY <1>1, <1>2, <1>7, <1>9
<1>10. CASE loc[q].kind = "picture" /\ Goto(q, "picture", loc[q])
  BY <1>1, <1>2, <1>7, <1>10
<1>. QED
  BY <1>6, <1>8, <1>9, <1>10, SaveVariantEffect

LEMMA UnlinkEffect ==
  ASSUME Types, NEW q \in Requests, Unlink(q)
  PROVE  /\ UNCHANGED <<rooms, picture, issued, address, addresses, cache, changed>>
         /\ files' \subseteq files
         /\ \A f \in files : f[1] # loc[q].previous => f \in files'
         /\ \/ Fault
            \/ faults' = faults /\ files' = files \ FilesOf(loc[q].previous)
         /\ \/ loc[q].of \in Rooms /\ Goto(q, "invalidate", loc[q])
            \/ loc[q].of \in Users /\ Goto(q, "done", NoLocals)
<1>1. loc[q].of \in Rooms \cup Users
  BY DEF Unlink, Types, RequestOK, RemovalOK
<1>. QED
  BY <1>1 DEF Unlink, FilesOf, Finish

LEMMA UnlinkKeepsTypes ==
  ASSUME Types, NEW q \in Requests, calm' \in BOOLEAN, Unlink(q)
  PROVE  Types'
<1>1. /\ q \in InFlight /\ IsLocals(loc[q])
  BY DEF Unlink, InFlight, Types, RequestOK
<1>2. files' \subseteq Images \X {Variants[i] : i \in Sizes}
  BY UnlinkEffect DEF Types, TablesOK
<1>3. now' = now /\ faults' \in 0..MaxFaults
  BY UnlinkEffect, FaultsCounted DEF Goto, Types
<1>4. TablesOK' /\ Grows
  BY <1>2, <1>3, UnlinkEffect, NoRoomWritten, Counts DEF Types, TablesOK
<1>5. CASE Goto(q, "done", NoLocals)
  BY <1>4, <1>5, GotoAt, DoneIsOK, StepKeepsTypes DEF Types
<1>6. CASE loc[q].of \in Rooms /\ Goto(q, "invalidate", loc[q])
  BY <1>1, <1>4, <1>6, GoesOn
<1>. QED
  BY <1>5, <1>6, UnlinkEffect

\* An upload begins: its image, or images, get keys of their own.
Uploads(q, m, n) ==
  /\ issued + n <= MaxImages /\ n \in Nat \ {0}
  /\ issued' = issued + n
  /\ Begin(q, "save", m)
  /\ UNCHANGED <<cacheVars, rooms, picture, files, address, addresses, changed>>

LEMMA ReplacePictureEffect ==
  ASSUME Types, NEW q \in Requests, ReplacePicture(q)
  PROVE  \E o \in Rooms \cup Users : \E m :
           Upload(m, "picture", o, 1, picture[o], 0) /\ Uploads(q, m, 1)
<1>1. PICK o \in {r \in Rooms : Exists(r)} \cup Users :
        Begin(q, "save",
              [Processing(Locals("picture", o), issued + 1) EXCEPT !.previous = picture[o]])
  BY DEF ReplacePicture
<1>2. issued + 1 <= MaxImages
  BY Counts DEF ReplacePicture
<1>. QED
  BY <1>1, <1>2, PictureUpload DEF ReplacePicture, Uploads

LEMMA AddPhotosEffect ==
  ASSUME Types, NEW q \in Requests, AddPhotos(q)
  PROVE  \E r \in Rooms, n \in Nat : \E m :
           /\ Exists(r)
           /\ Upload(m, "photos", r, n, 0, NextPosition(rooms[r].photos))
           /\ Uploads(q, m, n)
           /\ NextPosition(rooms[r].photos) \in 0..issued
           /\ \A p \in rooms[r].photos : p.position < NextPosition(rooms[r].photos)
<1>1. PICK r \in Rooms, n \in 1..MaxFiles :
        /\ Exists(r)
        /\ issued + n <= MaxImages
        /\ Begin(q, "save", [Processing(Locals("photos", r), issued + 1) EXCEPT
                               !.left = n, !.position = NextPosition(rooms[r].photos)])
        /\ issued' = issued + n
        /\ UNCHANGED <<cacheVars, rooms, picture, files, address, addresses, changed>>
  BY DEF AddPhotos
<1>2. /\ rooms[r].photos \subseteq Photo
      /\ \A p \in rooms[r].photos : p.position < p.image /\ p.image <= issued
  BY <1>1 DEF Types, TablesOK, RoomOK
<1>3. n \in Nat \ {0}
  BY CatalogueAssumption
<1>. DEFINE next == NextPosition(rooms[r].photos)
<1>4. next \in Nat /\ \A p \in rooms[r].photos : p.position < next
  BY <1>2, PastEveryPosition
<1>5. next <= issued
  <2>1. CASE rooms[r].photos = {}
    BY <2>1, Counts DEF NextPosition
  <2>2. CASE rooms[r].photos # {}
    <3>1. PICK p \in rooms[r].photos : next = p.position + 1
      BY <1>2, <2>2, PastEveryPosition
    <3>2. p.position \in Nat /\ p.image \in Nat /\ p.position < p.image /\ p.image <= issued
      BY <1>2, Counts DEF Photo, Images
    <3>. QED
      BY <3>1, <3>2, Counts
  <2>. QED
    BY <2>1, <2>2
<1>6. Uploads(q, [Processing(Locals("photos", r), issued + 1) EXCEPT
                    !.left = n, !.position = NextPosition(rooms[r].photos)], n)
  BY <1>1, <1>3 DEF Uploads
<1>7. next \in 0..issued
  BY <1>4, <1>5, Counts
<1>. QED
  BY <1>1, <1>3, <1>4, <1>6, <1>7, PhotosUpload

LEMMA UploadsKeepTypes ==
  ASSUME Types, NEW q \in Requests, calm' \in BOOLEAN,
         NEW o, NEW n, NEW m, NEW kind, NEW previous, NEW position,
         Upload(m, kind, o, n, previous, position), Uploads(q, m, n),
         \/ /\ kind = "photos" /\ o \in Rooms /\ Exists(o)
            /\ previous = 0 /\ position \in 0..issued
         \/ /\ kind = "picture" /\ o \in Rooms \cup Users /\ n = 1
            /\ previous \in 0..issued
  PROVE  Types'
<1>1. Goto(q, "save", m) /\ pc'[q] = "save" /\ loc'[q] = m /\ now' = now
  BY BeginAt, GotoAt DEF Uploads, Types
<1>2. issued' \in 0..MaxImages /\ issued <= issued' /\ issued' = issued + n /\ n \in Nat \ {0}
  BY Counts DEF Uploads
<1>3. picture' \in [Rooms \cup Users -> 0..issued']
  <2>1. picture \in [Rooms \cup Users -> 0..issued] /\ 0..issued \subseteq 0..issued'
    BY <1>2, Counts DEF Types, TablesOK
  <2>. QED
    BY <2>1 DEF Uploads
<1>4. TablesOK' /\ Grows
  BY <1>1, <1>2, <1>3, NoRoomWritten, Counts DEF Uploads, Types, TablesOK, cacheVars
<1>5. ReadingOK(q)' /\ RemovalOK(q)'
  BY <1>1 DEF ReadingOK, RemovalOK
<1>6. rooms' = rooms
  BY DEF Uploads
<1>7. /\ m.kind = kind /\ m.of = o /\ m.image = issued + 1 /\ m.left = n /\ m.size = 1
      /\ m.previous = previous /\ m.position = position /\ m.since = now /\ IsLocals(m)
  BY DEF Upload
<1>8. UploadOK(q)'
  <2>1. /\ m.image \in Nat \ {0} /\ m.left \in Nat \ {0} /\ m.image + m.left - 1 <= issued'
        /\ m.size \in Sizes
    BY <1>2, <1>7, Counts
  <2>2. CASE kind = "photos" /\ o \in Rooms /\ Exists(o)
             /\ previous = 0 /\ position \in 0..issued
    <3>1. m.position \in Nat /\ m.position < m.image
      BY <1>7, <2>2, Counts
    <3>. QED
      BY <1>1, <1>6, <1>7, <2>1, <2>2, <3>1 DEF UploadOK, Uploading, Exists
  <2>3. CASE kind = "picture" /\ o \in Rooms \cup Users /\ n = 1
             /\ previous \in 0..issued
    <3>1. previous \in 0..issued'
      BY <1>2, <2>3, Counts
    <3>. QED
      BY <1>1, <1>7, <2>1, <2>3, <3>1 DEF UploadOK, Uploading
  <2>. QED
    BY <2>2, <2>3
<1>9. RequestOK(q)'
  BY <1>1, <1>5, <1>7, <1>8, OnTime DEF Stages
<1>. QED
  BY <1>1, <1>4, <1>9, StepKeepsTypes

LEMMA BeginUploadKeepsTypes ==
  ASSUME Types, NEW q \in Requests, calm' \in BOOLEAN, ReplacePicture(q) \/ AddPhotos(q)
  PROVE  Types'
<1>1. CASE ReplacePicture(q)
  <2>1. PICK o \in Rooms \cup Users : \E m :
               Upload(m, "picture", o, 1, picture[o], 0) /\ Uploads(q, m, 1)
    BY <1>1, ReplacePictureEffect
  <2>2. picture[o] \in 0..issued
    BY DEF Types, TablesOK
  <2>. QED
    BY <2>1, <2>2, UploadsKeepTypes
<1>2. CASE AddPhotos(q)
  <2>1. PICK r \in Rooms, n \in Nat : \E m :
           /\ Exists(r)
           /\ Upload(m, "photos", r, n, 0, NextPosition(rooms[r].photos))
           /\ Uploads(q, m, n)
           /\ NextPosition(rooms[r].photos) \in 0..issued
    BY <1>2, AddPhotosEffect
  <2>. QED
    BY <2>1, UploadsKeepTypes
<1>. QED
  BY <1>1, <1>2

LEMMA AssignPictureEffect ==
  ASSUME Types, NEW q \in Requests, AssignPicture(q), NEW o, o = loc[q].of
  PROVE  /\ o \in Rooms \cup Users /\ loc[q].kind = "picture"
         /\ loc[q].image \in 1..issued /\ loc[q].left = 1 /\ loc[q].previous \in 0..issued
         /\ picture' = [picture EXCEPT ![o] = loc[q].image]
         /\ \/ o \in Rooms /\ Touch(o)
            \/ o \in Users /\ o \notin Rooms /\ UNCHANGED changed
         /\ \/ loc[q].previous # 0 /\ Goto(q, "unlink", loc[q])
            \/ loc[q].previous = 0 /\ o \in Rooms /\ Goto(q, "invalidate", loc[q])
            \/ loc[q].previous = 0 /\ o \in Users /\ Goto(q, "done", NoLocals)
         /\ UNCHANGED <<cacheVars, rooms, files, issued, address, addresses>>
<1>1. Uploading(q) /\ UploadOK(q) /\ loc[q].kind = "picture"
  BY DEF AssignPicture, Types, RequestOK, UploadOK, Uploading
<1>2. /\ o \in Rooms \cup Users /\ loc[q].left = 1 /\ loc[q].previous \in 0..issued
      /\ loc[q].image \in Nat \ {0} /\ loc[q].image + loc[q].left - 1 <= issued
  BY <1>1 DEF UploadOK
<1>3. loc[q].image \in 1..issued
  BY <1>2, Counts
<1>4. /\ picture' = [picture EXCEPT ![o] = loc[q].image]
      /\ UNCHANGED <<cacheVars, rooms, files, issued, address, addresses>>
      /\ IF o \in Rooms THEN Touch(o) ELSE UNCHANGED changed
      /\ IF loc[q].previous # 0 THEN Goto(q, "unlink", loc[q])
         ELSE IF o \in Rooms THEN Goto(q, "invalidate", loc[q]) ELSE Finish(q)
  BY DEF AssignPicture
<1>5. \/ o \in Rooms /\ Touch(o)
      \/ o \in Users /\ o \notin Rooms /\ UNCHANGED changed
  BY <1>2, <1>4
<1>6. \/ loc[q].previous # 0 /\ Goto(q, "unlink", loc[q])
      \/ loc[q].previous = 0 /\ o \in Rooms /\ Goto(q, "invalidate", loc[q])
      \/ loc[q].previous = 0 /\ o \in Users /\ Goto(q, "done", NoLocals)
  BY <1>2, <1>4 DEF Finish
<1>. QED
  BY <1>1, <1>2, <1>3, <1>4, <1>5, <1>6

LEMMA AssignPictureKeepsTypes ==
  ASSUME Types, NEW q \in Requests, calm' \in BOOLEAN, AssignPicture(q)
  PROVE  Types'
<1>0. PICK o : o = loc[q].of
  OBVIOUS
<1>1. q \in InFlight /\ IsLocals(loc[q])
  BY DEF AssignPicture, InFlight, Types, RequestOK
<1>2. now' = now
  BY <1>0, AssignPictureEffect DEF Goto
<1>3. changed' \in [CacheKeys -> 0..now']
  BY <1>0, <1>2, AssignPictureEffect, TouchKeepsTypes DEF Types, TablesOK
<1>4. picture' \in [Rooms \cup Users -> 0..issued']
  <2>1. /\ picture \in [Rooms \cup Users -> 0..issued] /\ issued' = issued
        /\ picture' = [picture EXCEPT ![o] = loc[q].image] /\ loc[q].image \in 0..issued
    BY <1>0, AssignPictureEffect, Counts DEF Types, TablesOK
  <2>. QED
    BY <2>1
<1>5. UNCHANGED <<cacheVars, rooms, files, issued, address, addresses>>
  BY <1>0, AssignPictureEffect
<1>6. TablesOK' /\ Grows
  BY <1>2, <1>3, <1>4, <1>5, NoRoomWritten, Counts DEF Types, TablesOK, cacheVars
<1>7. CASE Goto(q, "done", NoLocals)
  BY <1>6, <1>7, GotoAt, DoneIsOK, StepKeepsTypes DEF Types
<1>8. CASE o \in Rooms /\ Goto(q, "invalidate", loc[q])
  BY <1>0, <1>1, <1>6, <1>8, GoesOn
<1>9. CASE loc[q].previous # 0 /\ Goto(q, "unlink", loc[q])
  <2>1. pc'[q] = "unlink" /\ loc'[q] = loc[q]
    BY <1>9, GotoAt DEF Types
  <2>2. o \in Rooms \cup Users /\ loc[q].previous \in 1..issued'
    BY <1>0, <1>5, <1>9, AssignPictureEffect, Counts
  <2>3. ReadingOK(q)' /\ UploadOK(q)' /\ RemovalOK(q)'
    BY <1>0, <2>1, <2>2 DEF ReadingOK, UploadOK, Uploading, RemovalOK
  <2>4. RequestOK(q)'
    BY <1>1, <1>2, <2>1, <2>3, OnTime DEF Stages
  <2>. QED
    BY <1>6, <1>9, <2>4, StepKeepsTypes
<1>. QED
  BY <1>0, <1>7, <1>8, <1>9, AssignPictureEffect

LEMMA ProfilesKeepTypes ==
  ASSUME Types, NEW q \in Requests, calm' \in BOOLEAN,
         UpsertProfessionalProfile(q) \/ CreateAddress(q) \/ LinkAddress(q)
  PROVE  Types'
<1>1. UNCHANGED <<cacheVars, rooms, picture, files, issued, changed>>
  BY DEF UpsertProfessionalProfile, CreateAddress, LinkAddress
<1>2. now' = now
  BY DEF UpsertProfessionalProfile, CreateAddress, LinkAddress, Idle, runtimeVars, Goto, Finish
<1>3. ASSUME addresses' \in Nat, addresses <= addresses', address' \in [Users -> -1..addresses']
      PROVE  TablesOK' /\ Grows
  BY <1>1, <1>2, <1>3, NoRoomWritten, Counts DEF Types, TablesOK, cacheVars
<1>4. addresses \in Nat /\ address \in [Users -> -1..addresses]
  BY DEF Types, TablesOK
<1>5. CASE UpsertProfessionalProfile(q)
  <2>1. PICK u \in Users : address' = [address EXCEPT ![u] = 0]
    BY <1>5 DEF UpsertProfessionalProfile
  <2>2. addresses' = addresses /\ pc' = pc /\ loc' = loc
    BY <1>5 DEF UpsertProfessionalProfile, Idle, runtimeVars
  <2>3. address' \in [Users -> -1..addresses']
    BY <1>4, <2>1, <2>2
  <2>4. TablesOK' /\ Grows
    BY <1>3, <1>4, <2>2, <2>3
  <2>5. ControlOK'
    BY <1>2, <2>2 DEF Types, ControlOK
  <2>. QED
    BY <1>2, <2>2, <2>4, <2>5, OthersStay DEF Types
<1>6. CASE CreateAddress(q)
  <2>1. PICK m : m = [loc[q] EXCEPT !.previous = addresses + 1]
    OBVIOUS
  <2>2. /\ addresses' = addresses + 1 /\ address' = address /\ pc[q] = "address"
        /\ Goto(q, "profile", m)
    BY <1>6, <2>1 DEF CreateAddress
  <2>3. address' \in [Users -> -1..addresses']
    <3>1. -1..addresses \subseteq -1..addresses'
      BY <1>4, <2>2
    <3>. QED
      BY <1>4, <2>2, <3>1
  <2>4. TablesOK' /\ Grows
    BY <1>3, <1>4, <2>2, <2>3
  <2>5. q \in InFlight /\ IsLocals(loc[q]) /\ loc[q].of \in Users
    BY <2>2 DEF InFlight, Types, RequestOK, RemovalOK
  <2>6. /\ IsLocals(m) /\ m.of \in Users /\ m.since = loc[q].since
        /\ m.previous = addresses + 1
    BY <2>1, <2>5, WithPrevious
  <2>7. pc'[q] = "profile" /\ loc'[q] = m
    BY <2>2, GotoAt DEF Types
  <2>8. ReadingOK(q)' /\ UploadOK(q)' /\ RemovalOK(q)'
    BY <1>4, <2>2, <2>6, <2>7 DEF ReadingOK, UploadOK, Uploading, RemovalOK
  <2>9. RequestOK(q)'
    BY <1>2, <2>5, <2>6, <2>7, <2>8, OnTime DEF Stages
  <2>. QED
    BY <2>2, <2>4, <2>9, StepKeepsTypes
<1>7. CASE LinkAddress(q)
  <2>1. /\ addresses' = addresses /\ Goto(q, "done", NoLocals) /\ pc[q] = "profile"
        /\ address' = [address EXCEPT ![loc[q].of] = loc[q].previous]
    BY <1>7 DEF LinkAddress, Finish
  <2>2. loc[q].previous \in 1..addresses
    BY <2>1 DEF Types, RequestOK, RemovalOK
  <2>3. address' \in [Users -> -1..addresses']
    <3>1. loc[q].previous \in -1..addresses'
      BY <1>4, <2>1, <2>2
    <3>. QED
      BY <1>4, <2>1, <3>1
  <2>4. TablesOK' /\ Grows
    BY <1>3, <1>4, <2>1, <2>3
  <2>5. RequestOK(q)'
    BY <2>1, GotoAt, DoneIsOK DEF Types
  <2>. QED
    BY <2>1, <2>4, <2>5, StepKeepsTypes
<1>. QED
  BY <1>5, <1>6, <1>7

LEMMA WaitKeepsTypes ==
  ASSUME Types, calm' \in BOOLEAN, Wait
  PROVE  Types'
<1>1. /\ now' = now + 1 /\ now < Horizon /\ now \in Nat /\ now' \in Times
      /\ pc' = pc /\ loc' = loc /\ UNCHANGED <<cacheVars, tables, changed>>
  BY Counts, RuntimeAssumption DEF Wait, Tick, Times
<1>2. TablesOK' /\ Grows
  <2>1. faults' \in 0..MaxFaults /\ now' \in Nat /\ now <= now'
    BY <1>1 DEF Types, TablesOK, cacheVars
  <2>. QED
    BY <1>1, <2>1, RowsStay DEF Types, cacheVars
<1>3. ControlOK'
  BY <1>1 DEF Types, ControlOK
<1>4. ASSUME NEW q \in Requests
      PROVE  RequestOK(q)'
  <2>1. q \in InFlight => now < loc[q].since + Patience
    BY DEF Wait
  <2>2. RequestOK(q)
    BY DEF Types
  <2>3. UNCHANGED <<rooms, issued, addresses>>
    BY <1>1 DEF tables
  <2>4. ReadingOK(q)'
    BY <1>1, <2>2, <2>3 DEF RequestOK, ReadingOK, Exists
  <2>5. UploadOK(q)'
    BY <1>1, <2>2, <2>3 DEF RequestOK, UploadOK, Uploading, Exists
  <2>6. RemovalOK(q)'
    BY <1>1, <2>2, <2>3 DEF RequestOK, RemovalOK, Exists
  <2>7. (q \in InFlight)' <=> q \in InFlight
    BY <1>1 DEF InFlight
  <2>8. q \in InFlight => now' <= loc[q].since + Patience /\ loc[q].since <= now'
    BY <1>1, <2>1, <2>2, CatalogueAssumption DEF RequestOK
  <2>. QED
    BY <1>1, <2>2, <2>4, <2>5, <2>6, <2>7, <2>8 DEF RequestOK, IsLocals
<1>. QED
  BY <1>2, <1>3, <1>4 DEF Types

LEMMA DieKeepsTypes ==
  ASSUME Types, NEW q \in Requests, Die(q)
  PROVE  Types'
<1>1. Goto(q, "done", NoLocals) /\ UNCHANGED <<tables, cacheVars, changed>> /\ calm' \in BOOLEAN
  BY DEF Die, Abort, Finish
<1>2. now' = now /\ now \in Nat /\ faults' \in 0..MaxFaults
  BY <1>1, Counts DEF Goto, cacheVars, Types, TablesOK
<1>3. TablesOK' /\ Grows
  BY <1>1, <1>2, RowsStay DEF Types, cacheVars
<1>4. RequestOK(q)'
  BY <1>1, GotoAt, DoneIsOK DEF Types
<1>. QED
  BY <1>1, <1>3, <1>4, StepKeepsTypes

LEMMA InitEstablishesTypes ==
  ASSUME Init
  PROVE  Types
<1>. USE DEF Init, RuntimeInit, CacheInit, CatalogueInit
<1>1. ControlOK
  BY RuntimeAssumption DEF ControlOK, Times
<1>2. ASSUME NEW r \in Rooms
      PROVE  RoomOK(r)
  <2>1. rooms[r] \in {Absent, [details |-> Seeded, photos |-> {}]}
    OBVIOUS
  <2>. QED
    BY <2>1, CatalogueAssumption DEF RoomOK, Exists
<1>3. rooms = [r \in Rooms |-> rooms[r]]
  OBVIOUS
<1>4. \A k \in CacheKeys : EntryOK(k)
  BY DEF EntryOK
<1>5. TablesOK
  BY <1>2, <1>3, <1>4, CatalogueAssumption, CacheAssumption DEF TablesOK
<1>6. ASSUME NEW q \in Requests
      PROVE  RequestOK(q)
  BY DEF RequestOK, Stages, InFlight, ReadingOK, UploadOK, Uploading, RemovalOK
<1>. QED
  BY <1>1, <1>5, <1>6 DEF Types

LEMMA NextKeepsTypes ==
  ASSUME Types, [Next]_vars
  PROVE  Types'
<1>1. CASE UNCHANGED vars
  <2>1. /\ UNCHANGED <<now, pc, loc, calm>> /\ UNCHANGED <<tables, cache, changed>>
        /\ faults' \in 0..MaxFaults /\ now \in Nat
    BY <1>1, Counts DEF vars, runtimeVars, cacheVars, Types, TablesOK
  <2>2. TablesOK' /\ Grows
    BY <2>1, RowsStay DEF Types
  <2>3. ControlOK'
    BY <2>1 DEF Types, ControlOK
  <2>. QED
    BY <2>1, <2>2, <2>3, OthersStay DEF Types
<1>2. ASSUME NEW q \in Requests, Die(q)
      PROVE  Types'
  BY <1>2, DieKeepsTypes
<1>3. ASSUME Wait \/ \E q \in Requests : Handle(q), calm' \in BOOLEAN
      PROVE  Types'
  <2>1. CASE Wait
    BY <1>3, <2>1, WaitKeepsTypes
  <2>2. ASSUME NEW q \in Requests, Handle(q)
        PROVE  Types'
    <3>1. CASE List(q) \/ GetById(q) \/ Update(q) \/ DeletePhoto(q) \/ UpsertAddress(q)
      BY <1>3, <3>1, ReadersKeepTypes
    <3>2. CASE CacheSteps(q)
      BY <1>3, <3>2, CacheStepsKeepTypes
    <3>3. CASE Create(q) \/ UpdateRow(q) \/ CreatePhoto(q) \/ DeletePhotoRow(q)
      BY <1>3, <3>3, CreateKeepsTypes, UpdateRowKeepsTypes, CreatePhotoKeepsTypes,
         DeletePhotoRowKeepsTypes
    <3>4. CASE SaveVariant(q) \/ Unlink(q) \/ AssignPicture(q)
      BY <1>3, <3>4, SaveVariantKeepsTypes, UnlinkKeepsTypes, AssignPictureKeepsTypes
    <3>5. CASE ReplacePicture(q) \/ AddPhotos(q)
      BY <1>3, <3>5, BeginUploadKeepsTypes
    <3>6. CASE UpsertProfessionalProfile(q) \/ CreateAddress(q) \/ LinkAddress(q)
      BY <1>3, <3>6, ProfilesKeepTypes
    <3>. QED
      BY <2>2, <3>1, <3>2, <3>3, <3>4, <3>5, <3>6 DEF Handle, CacheSteps
  <2>. QED
    BY <1>3, <2>1, <2>2
<1>4. CASE /\ Wait \/ \E q \in Requests : Handle(q)
           /\ calm' = (calm /\ Cardinality(InFlight') <= 1 /\ faults' = faults)
  BY <1>3, <1>4
<1>. QED
  BY <1>1, <1>2, <1>4 DEF Next

LEMMA TypesImplyTypeOK ==
  ASSUME Types
  PROVE  TypeOK
<1>1. now \in Times /\ calm \in BOOLEAN
  BY DEF Types, ControlOK
<1>2. picture \in [Rooms \cup Users -> 0..MaxImages]
  <2>1. picture \in [Rooms \cup Users -> 0..issued] /\ 0..issued \subseteq 0..MaxImages
    BY Counts DEF Types, TablesOK
  <2>. QED
    BY <2>1
<1>3. \A k \in CacheKeys : cache[k] # NoEntry => cache[k].until \in Nat
  BY DEF Types, TablesOK, EntryOK
<1>4. \A r \in Rooms : Exists(r) =>
        /\ rooms[r].details \in Details
        /\ rooms[r].photos \subseteq [image : Images, position : 0..MaxImages]
  BY DEF Types, TablesOK, RoomOK, Photo
<1>. QED
  BY <1>1, <1>2, <1>3, <1>4 DEF TypeOK, Types, TablesOK

(***************************************************************************)
(* Rows, cache entries and locals hold what their columns and types can    *)
(* hold, whatever the handlers of rooms.service.ts and users.service.ts    *)
(* do, alone or interleaved, completed or not.                             *)
(***************************************************************************)
THEOREM TypeCorrect == Spec => []TypeOK
<1>1. Init => Types
  BY InitEstablishesTypes
<1>2. Types /\ [Next]_vars => Types'
  BY NextKeepsTypes
<1>3. Types => TypeOK
  BY TypesImplyTypeOK
<1>. QED
  BY <1>1, <1>2, <1>3, PTL DEF Spec

-----------------------------------------------------------------------------
(* Pictures *)

Places == {"picture", "photos"}
Owners == Rooms \cup Users

\* Image i is shown as the picture of o, or among the photos of o.
Shows(place, o, i) ==
  \/ place = "picture" /\ picture[o] = i
  \/ place = "photos" /\ o \in Rooms /\ \E p \in Photos(o) : p.image = i

ShownSomewhere(i) == \E place \in Places, o \in Owners : Shows(place, o, i)

Pending(q) == IF Uploading(q) THEN loc[q].image .. (loc[q].image + loc[q].left - 1) ELSE {}

Removing(q) ==
  pc[q] \in {"unphoto", "unlink"} \/ (Uploading(q) /\ loc[q].previous # 0)

Home(q) == IF pc[q] = "unphoto" THEN "photos" ELSE "picture"

Stored(i, n) == \A s \in 1..n : <<i, Variants[s]>> \in files

ShownOnce ==
  \A i \in Images, x, y \in Places, o, u \in Owners :
    Shows(x, o, i) /\ Shows(y, u, i) => x = y /\ o = u

ShownStored == \A i \in Images : ShownSomewhere(i) => i <= issued /\ Stored(i, Len(Variants))

UploadsApart ==
  \A q, p \in Requests : q # p => Pending(q) \cap Pending(p) = {}

UploadsUnshown == \A q \in Requests : \A i \in Pending(q) : ~ShownSomewhere(i)

SavedSoFar ==
  \A q \in Requests : Uploading(q) =>
    Stored(loc[q].image, IF pc[q] = "save" THEN loc[q].size - 1 ELSE Len(Variants))

RemovalsApart ==
  \A q \in Requests : Removing(q) =>
    /\ \A p \in Requests : loc[q].previous \notin Pending(p)
    /\ \A x \in Places, o \in Owners :
         Shows(x, o, loc[q].previous) => pc[q] # "unlink" /\ x = Home(q) /\ o = loc[q].of

Pictures ==
  ShownOnce /\ ShownStored /\ UploadsApart /\ UploadsUnshown /\ SavedSoFar /\ RemovalsApart

-----------------------------------------------------------------------------

\* Requests that upload and remove nothing after a step, or stand still.
LEMMA StaysPut ==
  ASSUME NEW p, pc'[p] = pc[p], loc'[p] = loc[p]
  PROVE  /\ Uploading(p)' = Uploading(p) /\ Pending(p)' = Pending(p)
         /\ Removing(p)' = Removing(p) /\ Home(p)' = Home(p)
BY DEF Uploading, Pending, Removing, Home

Harmless == Stages \ {"save", "photo", "picture", "unlink", "unphoto"}

LEMMA HarmlessStage ==
  ASSUME NEW p, pc'[p] \in Harmless
  PROVE  ~Uploading(p)' /\ Pending(p)' = {} /\ ~Removing(p)'
BY DEF Harmless, Uploading, Pending, Removing

\* What is shown depends on the photos and pictures only.
LEMMA ShownAsBefore ==
  ASSUME picture' = picture, \A r \in Rooms : Photos(r)' = Photos(r)
  PROVE  /\ \A x, o, i : Shows(x, o, i)' <=> Shows(x, o, i)
         /\ \A i : ShownSomewhere(i)' <=> ShownSomewhere(i)
<1>1. \A x, o, i : Shows(x, o, i)' <=> Shows(x, o, i)
  BY DEF Shows
<1>. QED
  BY <1>1 DEF ShownSomewhere

LEMMA ImageNumbers ==
  ASSUME Types, NEW q \in Requests
  PROVE  /\ Pending(q) \subseteq 1..issued /\ 1..issued \subseteq Images
         /\ Uploading(q) => loc[q].image \in Pending(q) /\ loc[q].image \in Images
         /\ Removing(q) => loc[q].previous \in 1..issued
<1>1. issued \in Nat /\ issued \in 0..MaxImages /\ MaxImages \in Nat
  BY Counts
<1>2. UploadOK(q) /\ RemovalOK(q)
  BY DEF Types, RequestOK
<1>3. CASE Uploading(q)
  <2>1. /\ loc[q].image \in Nat \ {0} /\ loc[q].left \in Nat \ {0}
        /\ loc[q].image + loc[q].left - 1 <= issued
        /\ loc[q].previous \in 0..issued
    BY <1>1, <1>2, <1>3 DEF UploadOK
  <2>2. Pending(q) \subseteq 1..issued /\ loc[q].image \in Pending(q)
    BY <1>1, <1>3, <2>1 DEF Pending
  <2>. QED
    BY <1>1, <1>2, <1>3, <2>1, <2>2 DEF Images, Removing, RemovalOK
<1>4. CASE ~Uploading(q)
  BY <1>1, <1>2, <1>4 DEF Pending, Images, Removing, RemovalOK
<1>. QED
  BY <1>3, <1>4

\* Nothing is shown, stored or issued anew, and whoever moves turns to something else.
LEMMA HarmlessKeepsPictures ==
  ASSUME Types, Pictures,
         picture' = picture, \A r \in Rooms : Photos(r)' = Photos(r), UNCHANGED <<files, issued>>,
         \A p \in Requests : (pc'[p] = pc[p] /\ loc'[p] = loc[p]) \/ pc'[p] \in Harmless
  PROVE  Pictures'
<1>1. /\ \A x, o, i : Shows(x, o, i)' <=> Shows(x, o, i)
      /\ \A i : ShownSomewhere(i)' <=> ShownSomewhere(i)
  BY ShownAsBefore
<1>2. \A i, n : Stored(i, n)' <=> Stored(i, n)
  BY DEF Stored
<1>3. \A p \in Requests : Pending(p)' \subseteq Pending(p)
  BY StaysPut, HarmlessStage
<1>4. \A p \in Requests : Uploading(p)' \/ Removing(p)' =>
        /\ pc'[p] = pc[p] /\ loc'[p] = loc[p] /\ Home(p)' = Home(p)
        /\ (Uploading(p)' => Uploading(p)) /\ (Removing(p)' => Removing(p))
  BY StaysPut, HarmlessStage
<1>5. ShownOnce'
  BY <1>1 DEF Pictures, ShownOnce
<1>6. ShownStored'
  BY <1>1, <1>2 DEF Pictures, ShownStored
<1>7. UploadsApart'
  BY <1>3 DEF Pictures, UploadsApart
<1>8. UploadsUnshown'
  BY <1>1, <1>3 DEF Pictures, UploadsUnshown
<1>9. SavedSoFar'
  BY <1>2, <1>4 DEF Pictures, SavedSoFar
<1>10. RemovalsApart'
  BY <1>1, <1>3, <1>4 DEF Pictures, RemovalsApart
<1>. QED
  BY <1>5, <1>6, <1>7, <1>8, <1>9, <1>10 DEF Pictures

\* A row of a room is written with the photos it had.
LEMMA PhotosAsBefore ==
  ASSUME Types, NEW r \in Rooms, RoomWritten(r),
         IF Exists(r) THEN Exists(r)' /\ rooms'[r].photos = rooms[r].photos
         ELSE Exists(r)' => rooms'[r].photos = {}
  PROVE  \A x \in Rooms : Photos(x)' = Photos(x)
BY DEF RoomWritten, Photos, Exists

LEMMA MovedOnly ==
  ASSUME Types, NEW q \in Requests, NEW s, NEW l, Goto(q, s, l)
  PROVE  /\ pc'[q] = s /\ loc'[q] = l /\ now' = now
         /\ \A p \in Requests \ {q} : pc'[p] = pc[p] /\ loc'[p] = loc[p]
BY GotoAt DEF Types

LEMMA UnlinkKeepsPictures ==
  ASSUME Types, Pictures, NEW q \in Requests, Unlink(q)
  PROVE  Pictures'
<1>. DEFINE old == loc[q].previous
<1>1. \A p \in Requests : (pc'[p] = pc[p] /\ loc'[p] = loc[p]) \/ pc'[p] \in Harmless
  <2>1. "done" \in Harmless /\ "invalidate" \in Harmless
    BY DEF Harmless, Stages
  <2>. QED
    BY <2>1, UnlinkEffect, MovedOnly
<1>2. /\ \A x, o, i : Shows(x, o, i)' <=> Shows(x, o, i)
      /\ \A i : ShownSomewhere(i)' <=> ShownSomewhere(i)
  <2>1. \A r \in Rooms : Photos(r)' = Photos(r)
    BY UnlinkEffect DEF Photos, Exists
  <2>. QED
    BY <2>1, UnlinkEffect, ShownAsBefore
<1>3. Removing(q) /\ pc[q] = "unlink"
  BY DEF Unlink, Removing
<1>4. ASSUME NEW i, NEW n, i # old, Stored(i, n)
      PROVE  Stored(i, n)'
  <2>1. \A f \in files : f[1] # old => f \in files'
    BY UnlinkEffect
  <2>. QED
    BY <1>4, <2>1 DEF Stored
<1>5. \A p \in Requests : old \notin Pending(p)
  BY <1>3 DEF Pictures, RemovalsApart
<1>6. ~ShownSomewhere(old)
  BY <1>3 DEF Pictures, RemovalsApart, ShownSomewhere
<1>7. issued' = issued
  BY UnlinkEffect
<1>8. \A p \in Requests : Pending(p)' \subseteq Pending(p)
  BY <1>1, StaysPut, HarmlessStage
<1>9. \A p \in Requests : Uploading(p)' \/ Removing(p)' =>
        /\ pc'[p] = pc[p] /\ loc'[p] = loc[p] /\ Home(p)' = Home(p)
        /\ (Uploading(p)' => Uploading(p)) /\ (Removing(p)' => Removing(p))
  BY <1>1, StaysPut, HarmlessStage
<1>10. ShownOnce'
  BY <1>2 DEF Pictures, ShownOnce
<1>11. ShownStored'
  BY <1>2, <1>4, <1>6, <1>7 DEF Pictures, ShownStored
<1>12. UploadsApart'
  BY <1>8 DEF Pictures, UploadsApart
<1>13. UploadsUnshown'
  BY <1>2, <1>8 DEF Pictures, UploadsUnshown
<1>14. SavedSoFar'
  <2>1. ASSUME NEW p \in Requests, Uploading(p)'
        PROVE  Stored(loc[p].image, IF pc[p] = "save" THEN loc[p].size - 1 ELSE Len(Variants))'
    <3>1. Uploading(p) /\ loc[p].image \in Pending(p)
      BY <1>9, <2>1, ImageNumbers
    <3>2. loc[p].image # old
      BY <1>5, <3>1
    <3>3. Stored(loc[p].image, IF pc[p] = "save" THEN loc[p].size - 1 ELSE Len(Variants))
      BY <3>1 DEF Pictures, SavedSoFar
    <3>. QED
      BY <1>4, <1>9, <2>1, <3>2, <3>3 DEF Stored
  <2>. QED
    BY <2>1 DEF SavedSoFar
<1>15. RemovalsApart'
  BY <1>2, <1>8, <1>9 DEF Pictures, RemovalsApart
<1>. QED
  BY <1>10, <1>11, <1>12, <1>13, <1>14, <1>15 DEF Pictures

\* The stages of an upload: the same image, the same images to come.
LEMMA SaveKeepsPictures ==
  ASSUME Types, Pictures, NEW q \in Requests, SaveVariant(q)
  PROVE  Pictures'
<1>1. UNCHANGED <<rooms, picture, issued>>
  BY SaveVariantEffect
<1>2. \A r \in Rooms : Photos(r)' = Photos(r)
  BY <1>1 DEF Photos, Exists
<1>3. CASE Goto(q, "done", NoLocals) /\ files' = files
  <2>1. \A p \in Requests : (pc'[p] = pc[p] /\ loc'[p] = loc[p]) \/ pc'[p] \in Harmless
    BY <1>3, MovedOnly DEF Harmless, Stages
  <2>. QED
    BY <1>1, <1>2, <1>3, <2>1, HarmlessKeepsPictures
<1>4. ASSUME files' = files \cup {<<loc[q].image, Variants[loc[q].size]>>},
             NEW s \in {"save", "photo", "picture"}, NEW l, Goto(q, s, l),
             l.image = loc[q].image, l.left = loc[q].left, l.previous = loc[q].previous,
             l.of = loc[q].of,
             IF s = "save" THEN l.size = loc[q].size + 1 ELSE loc[q].size = Len(Variants)
      PROVE  Pictures'
  <2>1. /\ pc'[q] = s /\ loc'[q] = l
        /\ \A p \in Requests \ {q} : pc'[p] = pc[p] /\ loc'[p] = loc[p]
    BY <1>4, MovedOnly
  <2>2. pc[q] = "save" /\ Uploading(q) /\ loc[q].size \in Sizes
    <3>1. pc[q] = "save" /\ Uploading(q)
      BY DEF SaveVariant, Uploading
    <3>. QED
      BY <3>1 DEF UploadOK, RequestOK, Types
  <2>3. Uploading(q)' = Uploading(q) /\ Pending(q)' = Pending(q) /\ Removing(q)' = Removing(q)
        /\ Home(q)' = Home(q)
    <3>1. Uploading(q)' /\ pc'[q] \notin {"unphoto", "unlink"}
      BY <2>1 DEF Uploading
    <3>2. Uploading(q)' = Uploading(q)
      BY <2>2, <3>1 DEF Uploading
    <3>3. Pending(q)' = Pending(q)
      BY <1>4, <2>1, <2>2, <3>1 DEF Pending
    <3>4. Removing(q)' = Removing(q)
      BY <1>4, <2>1, <2>2, <3>1 DEF Removing
    <3>. QED
      BY <2>1, <2>2, <3>1, <3>2, <3>3, <3>4 DEF Home
  <2>4. \A p \in Requests : /\ Uploading(p)' = Uploading(p) /\ Pending(p)' = Pending(p)
                            /\ Removing(p)' = Removing(p) /\ Home(p)' = Home(p)
    <3>1. ASSUME NEW p \in Requests \ {q}
          PROVE  /\ Uploading(p)' = Uploading(p) /\ Pending(p)' = Pending(p)
                 /\ Removing(p)' = Removing(p) /\ Home(p)' = Home(p)
      BY <2>1, StaysPut
    <3>. QED
      BY <2>3, <3>1
  <2>5. /\ \A x, o, i : Shows(x, o, i)' <=> Shows(x, o, i)
        /\ \A i : ShownSomewhere(i)' <=> ShownSomewhere(i)
    BY <1>1, <1>2, ShownAsBefore
  <2>6. \A i, n : Stored(i, n) => Stored(i, n)'
    BY <1>4 DEF Stored
  <2>7. ShownOnce'
    BY <2>5 DEF Pictures, ShownOnce
  <2>8. ShownStored'
    BY <1>1, <2>5, <2>6 DEF Pictures, ShownStored
  <2>9. UploadsApart'
    BY <2>4 DEF Pictures, UploadsApart
  <2>10. UploadsUnshown'
    BY <2>4, <2>5 DEF Pictures, UploadsUnshown
  <2>11. ASSUME NEW i, i = loc[q].image, NEW n, n = loc[q].size
         PROVE  Stored(i, n)'
    <3>1. Stored(i, n - 1) /\ n \in Sizes
      BY <2>2, <2>11 DEF Pictures, SavedSoFar
    <3>2. ASSUME NEW k \in 1..n
          PROVE  <<i, Variants[k]>> \in files'
      <4>1. k = n \/ k \in 1..(n - 1)
        BY <3>1, Counts DEF Sizes
      <4>. QED
        BY <1>4, <2>11, <3>1, <4>1 DEF Stored
    <3>. QED
      BY <3>2 DEF Stored
  <2>12. ASSUME NEW p \in Requests, Uploading(p)'
         PROVE  Stored(loc[p].image, IF pc[p] = "save" THEN loc[p].size - 1 ELSE Len(Variants))'
    <3>1. CASE p = q
      <4>1. /\ loc'[p].image = loc[q].image
            /\ loc[q].size = IF pc'[p] = "save" THEN loc'[p].size - 1 ELSE Len(Variants)
        BY <1>4, <2>1, <2>2, <3>1, Counts DEF Sizes
      <4>. QED
        BY <4>1, <2>11 DEF Stored
    <3>2. CASE p # q
      <4>1. pc'[p] = pc[p] /\ loc'[p] = loc[p] /\ Uploading(p)
        BY <2>1, <2>4, <2>12, <3>2
      <4>2. Stored(loc[p].image, IF pc[p] = "save" THEN loc[p].size - 1 ELSE Len(Variants))
        BY <4>1 DEF Pictures, SavedSoFar
      <4>. QED
        BY <4>1, <4>2, <2>6 DEF Stored
    <3>. QED
      BY <3>1, <3>2
  <2>13. SavedSoFar'
    BY <2>12 DEF SavedSoFar
  <2>14. ASSUME NEW p \in Requests, Removing(p)'
         PROVE  /\ Removing(p) /\ loc'[p].previous = loc[p].previous /\ loc'[p].of = loc[p].of
                /\ pc'[p] = "unlink" => pc[p] = "unlink"
    BY <1>4, <2>1, <2>4, <2>14
  <2>15. RemovalsApart'
    BY <2>4, <2>5, <2>14 DEF Pictures, RemovalsApart
  <2>. QED
    BY <2>7, <2>8, <2>9, <2>10, <2>13, <2>15 DEF Pictures
<1>5. IsLocals(loc[q])
  BY DEF SaveVariant, InFlight, Types, RequestOK
<1>6. CASE /\ files' = files \cup {<<loc[q].image, Variants[loc[q].size]>>}
           /\ Goto(q, "save", [loc[q] EXCEPT !.size = @ + 1])
  <2>1. PICK m : m = [loc[q] EXCEPT !.size = @ + 1]
    OBVIOUS
  <2>. QED
    BY <1>4, <1>5, <1>6, <2>1, WithSize
<1>7. CASE /\ files' = files \cup {<<loc[q].image, Variants[loc[q].size]>>}
           /\ loc[q].size = Len(Variants)
           /\ Goto(q, "photo", loc[q]) \/ Goto(q, "picture", loc[q])
  BY <1>4, <1>7
<1>. QED
  BY <1>3, <1>6, <1>7, SaveVariantEffect

\* A deletion of a photo begins: nothing but its room shows the image.
LEMMA DeletePhotoKeepsPictures ==
  ASSUME Types, Pictures, NEW q \in Requests, DeletePhoto(q)
  PROVE  Pictures'
<1>1. PICK r \in Rooms : Exists(r) /\ \E p \in rooms[r].photos :
              Begin(q, "unphoto", [Locals("unphoto", r) EXCEPT !.previous = p.image])
  BY DEF DeletePhoto
<1>2. PICK p \in rooms[r].photos :
              Begin(q, "unphoto", [Locals("unphoto", r) EXCEPT !.previous = p.image])
  BY <1>1
<1>3. PICK l : l = [Locals("unphoto", r) EXCEPT !.previous = p.image]
  OBVIOUS
<1>4. l.of = r /\ l.previous = p.image
  <2>1. PICK k : k = Locals("unphoto", r)
    OBVIOUS
  <2>. QED
    BY <1>3, <2>1, FreshLocals, WithPrevious
<1>5. /\ pc'[q] = "unphoto" /\ loc'[q] = l
      /\ \A x \in Requests \ {q} : pc'[x] = pc[x] /\ loc'[x] = loc[x]
  BY <1>2, <1>3, BeginAt, MovedOnly
<1>6. UNCHANGED <<rooms, picture, files, issued>>
  BY DEF DeletePhoto, tables
<1>7. \A x \in Rooms : Photos(x)' = Photos(x)
  BY <1>6 DEF Photos, Exists
<1>8. /\ \A x, o, i : Shows(x, o, i)' <=> Shows(x, o, i)
      /\ \A i : ShownSomewhere(i)' <=> ShownSomewhere(i)
  BY <1>6, <1>7, ShownAsBefore
<1>9. \A x \in Requests \ {q} :
        /\ Uploading(x)' = Uploading(x) /\ Pending(x)' = Pending(x)
        /\ Removing(x)' = Removing(x) /\ Home(x)' = Home(x)
  BY <1>5, StaysPut
<1>10. ~Uploading(q)' /\ Pending(q)' = {} /\ Home(q)' = "photos"
  BY <1>5 DEF Uploading, Pending, Home
<1>11. \A x \in Requests : Pending(x)' \subseteq Pending(x)
  BY <1>9, <1>10
<1>12. Shows("photos", r, p.image) /\ p.image \in Images
  <2>1. rooms[r].photos \subseteq Photo
    BY <1>1 DEF Types, TablesOK, RoomOK
  <2>. QED
    BY <1>1, <2>1 DEF Shows, Photos, Photo
<1>13. ShownSomewhere(p.image)
  BY <1>12 DEF ShownSomewhere, Places, Owners
<1>14. ShownOnce' /\ UploadsApart' /\ UploadsUnshown'
  BY <1>8, <1>11 DEF Pictures, ShownOnce, UploadsApart, UploadsUnshown
<1>15. ShownStored'
  BY <1>6, <1>8 DEF Pictures, ShownStored, Stored
<1>16. SavedSoFar'
  BY <1>5, <1>6, <1>9, <1>10 DEF Pictures, SavedSoFar, Stored
<1>17. ASSUME NEW x \in Requests, Removing(x)'
       PROVE  /\ \A y \in Requests : loc'[x].previous \notin Pending(y)
              /\ \A place \in Places, o \in Owners :
                   Shows(place, o, loc'[x].previous)
                     => pc'[x] # "unlink" /\ place = Home(x)' /\ o = loc'[x].of
  <2>1. CASE x = q
    <3>1. \A y \in Requests : p.image \notin Pending(y)
      BY <1>13 DEF Pictures, UploadsUnshown
    <3>2. \A place \in Places, o \in Owners :
            Shows(place, o, p.image) => place = "photos" /\ o = r
      BY <1>12 DEF Pictures, ShownOnce, Places, Owners
    <3>. QED
      BY <1>4, <1>5, <1>10, <2>1, <3>1, <3>2
  <2>2. CASE x # q
    BY <1>5, <1>9, <1>17, <2>2 DEF Pictures, RemovalsApart
  <2>. QED
    BY <2>1, <2>2
<1>18. RemovalsApart'
  BY <1>8, <1>11, <1>17 DEF RemovalsApart
<1>. QED
  BY <1>14, <1>15, <1>16, <1>18 DEF Pictures

\* The row of a photo is deleted: nothing shows its image any more.
LEMMA DeletePhotoRowKeepsPictures ==
  ASSUME Types, Types', Pictures, NEW q \in Requests, DeletePhotoRow(q)
  PROVE  Pictures'
<1>0. PICK r : r = loc[q].of
  OBVIOUS
<1>1. PICK gone : gone = Gone(q)
  OBVIOUS
<1>2. CASE gone = {}
  <2>1. Goto(q, "done", NoLocals) /\ UNCHANGED <<rooms, picture, files, issued>>
    BY <1>0, <1>1, <1>2 DEF DeletePhotoRow, Finish, Gone
  <2>2. \A x \in Rooms : Photos(x)' = Photos(x)
    BY <2>1 DEF Photos, Exists
  <2>3. \A p \in Requests : (pc'[p] = pc[p] /\ loc'[p] = loc[p]) \/ pc'[p] \in Harmless
    BY <2>1, MovedOnly DEF Harmless, Stages
  <2>. QED
    BY <2>1, <2>2, <2>3, HarmlessKeepsPictures
<1>3. CASE gone # {}
  <2>1. /\ r \in Rooms /\ Exists(r) /\ Exists(r)' /\ RoomWritten(r)
        /\ rooms'[r].photos = rooms[r].photos \ gone
        /\ Goto(q, "unlink", loc[q])
    <3>1. /\ r \in Rooms /\ Exists(r) /\ Exists(r)'
          /\ rooms' = [x \in Rooms |-> rooms'[x]]
          /\ RoomWritten(r)
          /\ RoomOK(r)'
          /\ rooms'[r].photos = rooms[r].photos \ gone
          /\ Goto(q, "unlink", loc[q])
      BY <1>0, <1>1, <1>3, DeletePhotoRowEffect
    <3>. QED
      BY <3>1
  <2>2. UNCHANGED <<picture, files, issued>> /\ \A x \in Rooms \ {r} : rooms'[x] = rooms[x]
    BY <2>1 DEF RoomWritten
  <2>3. /\ pc'[q] = "unlink" /\ loc'[q] = loc[q]
        /\ \A x \in Requests \ {q} : pc'[x] = pc[x] /\ loc'[x] = loc[x]
    BY <2>1, MovedOnly
  <2>4. pc[q] = "unphoto" /\ Removing(q) /\ Home(q) = "photos"
    BY DEF DeletePhotoRow, Removing, Home
  <2>5. /\ Photos(r)' = Photos(r) \ gone
        /\ \A x \in Rooms \ {r} : Photos(x)' = Photos(x)
    BY <2>1, <2>2 DEF Photos, Exists
  <2>6. \A x, o, i : Shows(x, o, i)' => Shows(x, o, i)
    BY <2>2, <2>5 DEF Shows
  <2>7. \A i : ShownSomewhere(i)' => ShownSomewhere(i)
    BY <2>6 DEF ShownSomewhere
  <2>8. ASSUME NEW i, i = loc[q].previous
        PROVE  ~Shows("photos", r, i)'
    <3>1. \A p \in Photos(r)' : p.image # i
      BY <1>0, <1>1, <2>1, <2>5, <2>8 DEF Photos, Gone
    <3>. QED
      BY <3>1 DEF Shows
  <2>9. \A x \in Requests \ {q} :
          /\ Uploading(x)' = Uploading(x) /\ Pending(x)' = Pending(x)
          /\ Removing(x)' = Removing(x) /\ Home(x)' = Home(x)
    BY <2>3, StaysPut
  <2>10. ~Uploading(q)' /\ Pending(q)' = {}
    BY <2>3 DEF Uploading, Pending
  <2>11. \A x \in Requests : Pending(x)' \subseteq Pending(x)
    BY <2>9, <2>10
  <2>12. ShownOnce' /\ UploadsApart' /\ UploadsUnshown'
    BY <2>6, <2>7, <2>11 DEF Pictures, ShownOnce, UploadsApart, UploadsUnshown
  <2>13. ShownStored'
    BY <2>2, <2>7 DEF Pictures, ShownStored, Stored
  <2>14. SavedSoFar'
    BY <2>2, <2>3, <2>9, <2>10 DEF Pictures, SavedSoFar, Stored
  <2>15. ASSUME NEW x \in Requests, Removing(x)'
         PROVE  /\ \A y \in Requests : loc'[x].previous \notin Pending(y)
                /\ \A place \in Places, o \in Owners :
                     Shows(place, o, loc[x].previous)'
                       => pc'[x] # "unlink" /\ place = Home(x)' /\ o = loc'[x].of
    <3>1. CASE x = q
      <4>0. PICK i : i = loc[q].previous
        OBVIOUS
      <4>1. \A y \in Requests : i \notin Pending(y)
        BY <2>4, <4>0 DEF Pictures, RemovalsApart
      <4>2. \A place \in Places, o \in Owners :
              Shows(place, o, i) => place = "photos" /\ o = r
        BY <1>0, <2>4, <4>0 DEF Pictures, RemovalsApart
      <4>3. \A place \in Places, o \in Owners : ~Shows(place, o, i)'
        BY <2>6, <2>8, <4>0, <4>2
      <4>. QED
        BY <2>3, <3>1, <4>0, <4>1, <4>3
    <3>2. CASE x # q
      <4>1. Removing(x) /\ loc'[x] = loc[x] /\ pc'[x] = pc[x] /\ Home(x)' = Home(x)
        BY <2>3, <2>9, <2>15, <3>2
      <4>2. PICK i : i = loc[x].previous
        OBVIOUS
      <4>3. \A place \in Places, o \in Owners : Shows(place, o, i)' => Shows(place, o, i)
        BY <2>6
      <4>. QED
        BY <4>1, <4>2, <4>3 DEF Pictures, RemovalsApart
    <3>. QED
      BY <3>1, <3>2
  <2>16. RemovalsApart'
    BY <2>11, <2>15 DEF RemovalsApart
  <2>. QED
    BY <2>12, <2>13, <2>14, <2>16 DEF Pictures
<1>. QED
  BY <1>2, <1>3

\* An upload begins with images nobody has seen.
LEMMA UploadsKeepPictures ==
  ASSUME Types, Pictures, NEW q \in Requests,
         NEW o, NEW n, NEW m, NEW kind, NEW previous, NEW position,
         Upload(m, kind, o, n, previous, position), Uploads(q, m, n),
         previous = 0 \/ (o \in Owners /\ previous = picture[o])
  PROVE  Pictures'
<1>1. /\ pc'[q] = "save" /\ loc'[q] = m /\ pc[q] = "new"
      /\ \A x \in Requests \ {q} : pc'[x] = pc[x] /\ loc'[x] = loc[x]
  BY BeginAt, MovedOnly DEF Uploads
<1>2. /\ UNCHANGED <<rooms, picture, files>> /\ issued' = issued + n /\ n \in Nat \ {0}
      /\ issued' <= MaxImages
  BY DEF Uploads
<1>3. m.image = issued + 1 /\ m.left = n /\ m.size = 1 /\ m.previous = previous /\ m.of = o
  BY DEF Upload
<1>4. /\ \A x, u, i : Shows(x, u, i)' <=> Shows(x, u, i)
      /\ \A i : ShownSomewhere(i)' <=> ShownSomewhere(i)
  <2>1. \A x \in Rooms : Photos(x)' = Photos(x)
    BY <1>2 DEF Photos, Exists
  <2>. QED
    BY <1>2, <2>1, ShownAsBefore
<1>5. \A x \in Requests \ {q} :
        /\ Uploading(x)' = Uploading(x) /\ Pending(x)' = Pending(x)
        /\ Removing(x)' = Removing(x) /\ Home(x)' = Home(x)
  BY <1>1, StaysPut
<1>6. Uploading(q)' /\ Pending(q)' = (issued + 1)..(issued + n) /\ Home(q)' = "picture"
  <2>1. (issued + 1) + n - 1 = issued + n
    BY <1>2, Counts
  <2>. QED
    BY <1>1, <1>3, <2>1 DEF Uploading, Pending, Home
<1>7. \A x \in Requests : Pending(x) \subseteq 1..issued
  BY ImageNumbers
<1>8. \A i \in (issued + 1)..(issued + n) : i \notin 1..issued /\ i \in Images
  BY <1>2, Counts DEF Images
<1>9. \A i \in (issued + 1)..(issued + n) : ~ShownSomewhere(i)
  <2>1. \A i \in Images : ShownSomewhere(i) => i <= issued
    BY DEF Pictures, ShownStored
  <2>. QED
    BY <1>8, <2>1, Counts DEF Images
<1>10. ShownOnce'
  BY <1>4 DEF Pictures, ShownOnce
<1>11. ShownStored'
  <2>1. \A i \in Images : ShownSomewhere(i) => i <= issued /\ Stored(i, Len(Variants))
    BY DEF Pictures, ShownStored
  <2>2. \A i \in Images : i <= issued => i <= issued'
    BY <1>2, Counts DEF Images
  <2>. QED
    BY <1>2, <1>4, <2>1, <2>2 DEF ShownStored, Stored
<1>12. UploadsApart'
  <2>1. \A x \in Requests \ {q} : Pending(x)' \cap Pending(q)' = {}
    BY <1>5, <1>6, <1>7, <1>8
  <2>. QED
    BY <1>5, <2>1 DEF Pictures, UploadsApart
<1>13. UploadsUnshown'
  BY <1>4, <1>5, <1>6, <1>9 DEF Pictures, UploadsUnshown
<1>14. SavedSoFar'
  <2>1. \A i : Stored(i, 0)
    BY DEF Stored
  <2>2. ASSUME NEW x \in Requests, Uploading(x)'
        PROVE  Stored(loc[x].image, IF pc[x] = "save" THEN loc[x].size - 1 ELSE Len(Variants))'
    <3>1. CASE x = q
      BY <1>1, <1>2, <1>3, <2>1, <3>1 DEF Stored
    <3>2. CASE x # q
      BY <1>1, <1>2, <1>5, <2>2, <3>2 DEF Pictures, SavedSoFar, Stored
    <3>. QED
      BY <3>1, <3>2
  <2>. QED
    BY <2>2 DEF SavedSoFar
<1>15. ASSUME NEW x \in Requests, Removing(x)'
       PROVE  /\ \A y \in Requests : loc'[x].previous \notin Pending(y)'
              /\ \A place \in Places, u \in Owners :
                   Shows(place, u, loc'[x].previous)
                     => pc'[x] # "unlink" /\ place = Home(x)' /\ u = loc'[x].of
  <2>1. CASE x = q
    <3>1. previous # 0 /\ o \in Owners /\ previous = picture[o]
      BY <1>1, <1>3, <1>15, <2>1 DEF Removing
    <3>2. previous \in 1..issued /\ previous \in Images
      <4>1. picture[o] \in 0..issued
        BY <3>1 DEF Types, TablesOK, Owners
      <4>. QED
        BY <3>1, <4>1, Counts DEF Images
    <3>3. Shows("picture", o, previous)
      BY <3>1 DEF Shows
    <3>4. ShownSomewhere(previous)
      BY <3>1, <3>3 DEF ShownSomewhere, Places
    <3>5. \A y \in Requests : previous \notin Pending(y)'
      BY <1>5, <1>6, <1>9, <3>4 DEF Pictures, UploadsUnshown
    <3>6. \A place \in Places, u \in Owners :
            Shows(place, u, previous) => place = "picture" /\ u = o
      BY <3>1, <3>2, <3>3 DEF Pictures, ShownOnce, Places
    <3>. QED
      BY <1>1, <1>3, <1>6, <2>1, <3>5, <3>6
  <2>2. CASE x # q
    <3>1. Removing(x) /\ loc'[x] = loc[x] /\ pc'[x] = pc[x] /\ Home(x)' = Home(x)
      BY <1>1, <1>5, <1>15, <2>2
    <3>2. loc[x].previous \in 1..issued
      BY <3>1, ImageNumbers
    <3>3. \A y \in Requests : loc[x].previous \notin Pending(y)'
      BY <1>5, <1>6, <1>8, <3>1, <3>2 DEF Pictures, RemovalsApart
    <3>. QED
      BY <3>1, <3>3 DEF Pictures, RemovalsApart
  <2>. QED
    BY <2>1, <2>2
<1>16. RemovalsApart'
  BY <1>4, <1>15 DEF RemovalsApart
<1>. QED
  BY <1>10, <1>11, <1>12, <1>13, <1>14, <1>16 DEF Pictures

\* An image that was pending is shown for the first time, in one place.
LEMMA ShownAnewKeepsPictures ==
  ASSUME Types, Pictures, NEW q \in Requests, Uploading(q),
         NEW z \in Places, NEW u \in Owners, NEW i, i = loc[q].image,
         \A x, o, j : Shows(x, o, j)' => Shows(x, o, j) \/ (x = z /\ o = u /\ j = i),
         Stored(i, Len(Variants)), UNCHANGED <<files, issued>>,
         \A p \in Requests \ {q} : pc'[p] = pc[p] /\ loc'[p] = loc[p],
         Pending(q)' \subseteq Pending(q) \ {i},
         Uploading(q)' => pc'[q] = "save" /\ loc'[q].size = 1 /\ ~Removing(q)',
         Removing(q)' =>
           /\ Removing(q) /\ z = "picture" /\ u = loc[q].of /\ pc'[q] = "unlink"
           /\ loc'[q] = loc[q]
           /\ \A j : Shows(z, u, j)' => j = i
  PROVE  Pictures'
<1>1. \A x \in Requests \ {q} :
        /\ Uploading(x)' = Uploading(x) /\ Pending(x)' = Pending(x)
        /\ Removing(x)' = Removing(x) /\ Home(x)' = Home(x)
  BY StaysPut
<1>2. i \in Pending(q) /\ i \in Images /\ i <= issued
  BY ImageNumbers, Counts
<1>3. ~ShownSomewhere(i)
  BY <1>2 DEF Pictures, UploadsUnshown
<1>4. \A x \in Places, o \in Owners : ~Shows(x, o, i)
  BY <1>3 DEF ShownSomewhere
<1>5. \A j : ShownSomewhere(j)' => ShownSomewhere(j) \/ j = i
  BY DEF ShownSomewhere
<1>6. ShownOnce'
  <2>1. ASSUME NEW j \in Images, NEW x \in Places, NEW y \in Places, NEW o \in Owners,
               NEW v \in Owners, Shows(x, o, j)', Shows(y, v, j)'
        PROVE  x = y /\ o = v
    <3>1. CASE j = i
      BY <1>4, <2>1, <3>1
    <3>2. CASE j # i
      BY <2>1, <3>2 DEF Pictures, ShownOnce
    <3>. QED
      BY <3>1, <3>2
  <2>. QED
    BY <2>1 DEF ShownOnce
<1>7. ShownStored'
  BY <1>2, <1>5 DEF Pictures, ShownStored, Stored
<1>8. \A p \in Requests : Pending(p)' \subseteq Pending(p) /\ i \notin Pending(p)'
  <2>1. \A p \in Requests \ {q} : i \notin Pending(p)
    BY <1>2 DEF Pictures, UploadsApart
  <2>. QED
    BY <1>1, <2>1
<1>9. UploadsApart'
  BY <1>8 DEF Pictures, UploadsApart
<1>10. UploadsUnshown'
  BY <1>5, <1>8 DEF Pictures, UploadsUnshown
<1>11. ASSUME NEW p \in Requests, Uploading(p)'
       PROVE  Stored(loc[p].image, IF pc[p] = "save" THEN loc[p].size - 1 ELSE Len(Variants))'
  <2>1. CASE p = q
    BY <1>11, <2>1 DEF Stored
  <2>2. CASE p # q
    <3>1. Uploading(p) /\ pc'[p] = pc[p] /\ loc'[p] = loc[p]
      BY <1>1, <1>11, <2>2
    <3>. QED
      BY <3>1 DEF Pictures, SavedSoFar, Stored
  <2>. QED
    BY <2>1, <2>2
<1>12. SavedSoFar'
  BY <1>11 DEF SavedSoFar
<1>13. ASSUME NEW p \in Requests, Removing(p)'
       PROVE  /\ \A y \in Requests : loc'[p].previous \notin Pending(y)'
              /\ \A place \in Places, o \in Owners :
                   Shows(place, o, loc[p].previous)'
                     => pc'[p] # "unlink" /\ place = Home(p)' /\ o = loc'[p].of
  <2>0. PICK old : old = loc[p].previous
    OBVIOUS
  <2>1. Removing(p) /\ loc'[p].previous = old
    <3>1. CASE p = q
      BY <1>13, <2>0, <3>1
    <3>2. CASE p # q
      BY <1>1, <1>13, <2>0, <3>2
    <3>. QED
      BY <3>1, <3>2
  <2>2. /\ \A y \in Requests : old \notin Pending(y)
        /\ \A x \in Places, o \in Owners :
             Shows(x, o, old) => pc[p] # "unlink" /\ x = Home(p) /\ o = loc[p].of
    BY <2>0, <2>1 DEF Pictures, RemovalsApart
  <2>3. old # i
    BY <1>2, <2>2
  <2>4. \A x \in Places, o \in Owners : Shows(x, o, old)' => Shows(x, o, old)
    BY <2>3
  <2>5. \A y \in Requests : old \notin Pending(y)'
    BY <1>8, <2>2
  <2>6. \A x \in Places, o \in Owners :
          Shows(x, o, old)' => pc'[p] # "unlink" /\ x = Home(p)' /\ o = loc'[p].of
    <3>1. CASE p = q
      <4>1. Home(q) = "picture"
        BY DEF Home, Uploading
      <4>2. z = "picture" /\ u = loc[q].of /\ \A j : Shows(z, u, j)' => j = i
        BY <1>13, <3>1
      <4>3. \A x \in Places, o \in Owners : ~Shows(x, o, old)'
        BY <2>2, <2>3, <2>4, <3>1, <4>1, <4>2
      <4>. QED
        BY <4>3
    <3>2. CASE p # q
      BY <1>1, <2>2, <2>4, <3>2
    <3>. QED
      BY <3>1, <3>2
  <2>. QED
    BY <2>1, <2>5, <2>6
<1>14. RemovalsApart'
  BY <1>13 DEF RemovalsApart
<1>. QED
  BY <1>6, <1>7, <1>9, <1>10, <1>12, <1>14 DEF Pictures

LEMMA AssignPictureKeepsPictures ==
  ASSUME Types, Pictures, NEW q \in Requests, AssignPicture(q)
  PROVE  Pictures'
<1>0. PICK o, i : o = loc[q].of /\ i = loc[q].image
  OBVIOUS
<1>1. /\ o \in Owners /\ i \in 1..issued /\ loc[q].left = 1
      /\ picture' = [picture EXCEPT ![o] = i]
      /\ \/ loc[q].previous # 0 /\ Goto(q, "unlink", loc[q])
         \/ Goto(q, "invalidate", loc[q])
         \/ Goto(q, "done", NoLocals)
      /\ UNCHANGED <<rooms, files, issued>>
  BY <1>0, AssignPictureEffect DEF Owners
<1>2. pc[q] = "picture" /\ Uploading(q)
  BY DEF AssignPicture, Uploading
<1>3. \A x, u, j : Shows(x, u, j)' => Shows(x, u, j) \/ (x = "picture" /\ u = o /\ j = i)
  <2>1. \A r \in Rooms : Photos(r)' = Photos(r)
    BY <1>1 DEF Photos, Exists
  <2>2. ASSUME NEW u, NEW j, picture'[u] = j
        PROVE  picture[u] = j \/ (u = o /\ j = i)
    BY <1>1, <2>2 DEF Types, TablesOK, Owners
  <2>. QED
    BY <2>1, <2>2 DEF Shows
<1>4. picture'[o] = i
  BY <1>1 DEF Types, TablesOK, Owners
<1>5. Stored(i, Len(Variants))
  BY <1>0, <1>2 DEF Pictures, SavedSoFar
<1>6. /\ pc'[q] \in {"unlink", "invalidate", "done"}
      /\ pc'[q] = "unlink" => loc[q].previous # 0 /\ loc'[q] = loc[q]
      /\ \A p \in Requests \ {q} : pc'[p] = pc[p] /\ loc'[p] = loc[p]
  BY <1>1, MovedOnly
<1>7. ~Uploading(q)' /\ Pending(q)' = {}
  BY <1>6 DEF Uploading, Pending
<1>8. Removing(q)' => pc'[q] = "unlink" /\ Removing(q)
  BY <1>2, <1>6, <1>7 DEF Removing
<1>9. \A j : Shows("picture", o, j)' => j = i
  BY <1>4 DEF Shows
<1>. QED
  BY <1>0, <1>1, <1>2, <1>3, <1>5, <1>6, <1>7, <1>8, <1>9, ShownAnewKeepsPictures DEF Places

LEMMA CreatePhotoKeepsPictures ==
  ASSUME Types, Pictures, NEW q \in Requests, CreatePhoto(q)
  PROVE  Pictures'
<1>0. PICK r, i : r = loc[q].of /\ i = loc[q].image
  OBVIOUS
<1>1. /\ r \in Rooms /\ Exists(r) /\ Exists(r)' /\ RoomWritten(r)
      /\ rooms'[r].photos = rooms[r].photos
               \cup {[image |-> loc[q].image, position |-> loc[q].position]}
      /\ \/ loc[q].left > 1 /\ \E m : NextFile(loc[q], m) /\ Goto(q, "save", m)
         \/ loc[q].left = 1 /\ Goto(q, "invalidate", loc[q])
  BY <1>0, CreatePhotoEffect
<1>2. pc[q] = "photo" /\ Uploading(q)
  BY DEF CreatePhoto, Uploading
<1>3. UNCHANGED <<picture, files, issued>>
  BY <1>1 DEF RoomWritten
<1>4. \A x, u, j : Shows(x, u, j)' => Shows(x, u, j) \/ (x = "photos" /\ u = r /\ j = i)
  <2>1. \A x \in Rooms \ {r} : Photos(x)' = Photos(x)
    BY <1>1 DEF RoomWritten, Photos, Exists
  <2>2. \A p \in Photos(r)' : p \in Photos(r) \/ p.image = i
    BY <1>0, <1>1 DEF Photos
  <2>. QED
    BY <1>3, <2>1, <2>2 DEF Shows
<1>5. Stored(i, Len(Variants))
  BY <1>0, <1>2 DEF Pictures, SavedSoFar
<1>6. \A p \in Requests \ {q} : pc'[p] = pc[p] /\ loc'[p] = loc[p]
  BY <1>1, MovedOnly
<1>7. UploadOK(q) /\ loc[q].kind = "photos"
  BY <1>2 DEF Types, RequestOK, UploadOK
<1>8. loc[q].image \in Nat /\ loc[q].left \in Nat /\ loc[q].previous = 0
  BY <1>2, <1>7 DEF UploadOK
<1>9. ASSUME loc[q].left = 1, Goto(q, "invalidate", loc[q])
      PROVE  Pending(q)' = {} /\ ~Uploading(q)' /\ ~Removing(q)'
  BY <1>9, MovedOnly, HarmlessStage DEF Harmless, Stages
<1>10. ASSUME loc[q].left > 1, NEW m, NextFile(loc[q], m), Goto(q, "save", m)
       PROVE  /\ Pending(q)' \subseteq Pending(q) \ {i}
              /\ pc'[q] = "save" /\ loc'[q].size = 1 /\ ~Removing(q)'
  <2>1. pc'[q] = "save" /\ loc'[q] = m
    BY <1>10, MovedOnly
  <2>2. m.image = i + 1 /\ m.left = loc[q].left - 1 /\ m.previous = 0 /\ m.size = 1
    BY <1>0, <1>8, <1>10 DEF NextFile
  <2>3. Pending(q) = i .. (i + loc[q].left - 1)
    BY <1>0, <1>2 DEF Pending
  <2>4. Pending(q)' = (i + 1) .. (i + 1 + (loc[q].left - 1) - 1)
    BY <2>1, <2>2 DEF Pending, Uploading
  <2>5. Pending(q)' \subseteq Pending(q) \ {i}
    BY <1>0, <1>8, <2>3, <2>4
  <2>6. ~Removing(q)'
    BY <2>1, <2>2 DEF Removing
  <2>. QED
    BY <2>1, <2>2, <2>5, <2>6
<1>11. /\ Pending(q)' \subseteq Pending(q) \ {i} /\ ~Removing(q)'
       /\ Uploading(q)' => pc'[q] = "save" /\ loc'[q].size = 1
  BY <1>1, <1>9, <1>10
<1>. QED
  BY <1>0, <1>1, <1>2, <1>3, <1>4, <1>5, <1>6, <1>11, ShownAnewKeepsPictures DEF Places, Owners

\* Everything else leaves pictures alone.
LEMMA OtherStepsKeepPictures ==
  ASSUME Types, Types', Pictures,
         \/ Wait \/ UNCHANGED vars
         \/ \E q \in Requests :
              \/ List(q) \/ GetById(q) \/ Update(q) \/ UpsertAddress(q) \/ CacheSteps(q)
              \/ Create(q) \/ UpdateRow(q)
              \/ UpsertProfessionalProfile(q) \/ CreateAddress(q) \/ LinkAddress(q) \/ Die(q)
  PROVE  Pictures'
<1>1. ASSUME UNCHANGED <<rooms, picture, files, issued>>,
             \A p \in Requests : (pc'[p] = pc[p] /\ loc'[p] = loc[p]) \/ pc'[p] \in Harmless
      PROVE  Pictures'
  BY <1>1, HarmlessKeepsPictures DEF Photos, Exists
<1>2. CASE Wait \/ UNCHANGED vars
  BY <1>1, <1>2 DEF Wait, Tick, tables, vars, runtimeVars
<1>3. ASSUME NEW q \in Requests, NEW s \in Harmless, NEW l, Goto(q, s, l)
      PROVE  \A p \in Requests : (pc'[p] = pc[p] /\ loc'[p] = loc[p]) \/ pc'[p] \in Harmless
  BY <1>3, MovedOnly
<1>4. ASSUME NEW q \in Requests,
             \/ List(q) \/ GetById(q) \/ Update(q) \/ UpsertAddress(q)
             \/ UpsertProfessionalProfile(q) \/ CreateAddress(q) \/ LinkAddress(q) \/ Die(q)
      PROVE  Pictures'
  <2>1. {"get", "address", "profile", "done"} \subseteq Harmless
    BY DEF Harmless, Stages
  <2>2. UNCHANGED <<rooms, picture, files, issued>>
    BY <1>4 DEF List, GetById, Update, UpsertAddress, UpsertProfessionalProfile, CreateAddress,
                LinkAddress, Die, tables
  <2>3. \/ UNCHANGED <<pc, loc>>
        \/ \E s \in {"get", "address", "profile", "done"}, l \in {loc'[q]} : Goto(q, s, l)
    <3>1. CASE List(q) \/ GetById(q) \/ Update(q) \/ UpsertAddress(q)
      <4>1. \E s \in {"get", "address"} : \E l : Begin(q, s, l)
        BY <3>1 DEF List, GetById, Update, UpsertAddress
      <4>. QED
        BY <4>1, BeginAt, MovedOnly
    <3>2. CASE UpsertProfessionalProfile(q)
      BY <3>2 DEF UpsertProfessionalProfile, Idle, runtimeVars
    <3>3. CASE CreateAddress(q) \/ LinkAddress(q) \/ Die(q)
      <4>1. \E s \in {"profile", "done"} : \E l : Goto(q, s, l)
        BY <3>3 DEF CreateAddress, LinkAddress, Die, Abort, Finish
      <4>. QED
        BY <4>1, MovedOnly
    <3>. QED
      BY <1>4, <3>1, <3>2, <3>3
  <2>. QED
    BY <1>1, <1>3, <2>1, <2>2, <2>3
<1>5. ASSUME NEW q \in Requests, CacheSteps(q)
      PROVE  Pictures'
  <2>1. UNCHANGED <<rooms, picture, files, issued>>
    BY <1>5, CacheStepEffect DEF tables
  <2>2. \E s \in {"update", "done", "read", "set", "keys", "sweep", "get"} :
          \E l : Goto(q, s, l)
    BY <1>5 DEF CacheSteps, CacheGet, Lookup, LookedUp, Compute, Remember, Invalidate,
                FindListings, CacheKeysOf, Invalidated, SweepListings, Finish
  <2>3. {"update", "done", "read", "set", "keys", "sweep", "get"} \subseteq Harmless
    BY DEF Harmless, Stages
  <2>. QED
    BY <1>1, <1>3, <2>1, <2>2, <2>3
<1>6. ASSUME NEW q \in Requests, Create(q)
      PROVE  Pictures'
  <2>1. PICK r \in Rooms :
          /\ ~Exists(r) /\ RoomWritten(r) /\ Begin(q, "keys", Locals("create", r))
          /\ rooms'[r].photos = {}
    BY <1>6, CreateEffect
  <2>2. "keys" \in Harmless
    BY DEF Harmless, Stages
  <2>3. \A x \in Rooms : Photos(x)' = Photos(x)
    BY <2>1, PhotosAsBefore
  <2>4. UNCHANGED <<picture, files, issued>>
    BY <2>1 DEF RoomWritten
  <2>5. \A p \in Requests : (pc'[p] = pc[p] /\ loc'[p] = loc[p]) \/ pc'[p] \in Harmless
    BY <1>3, <2>1, <2>2, BeginAt
  <2>. QED
    BY <2>3, <2>4, <2>5, HarmlessKeepsPictures
<1>7. ASSUME NEW q \in Requests, UpdateRow(q)
      PROVE  Pictures'
  <2>0. PICK r : r = loc[q].of
    OBVIOUS
  <2>1. /\ r \in Rooms /\ Exists(r) /\ Exists(r)' /\ RoomWritten(r)
        /\ rooms'[r].photos = rooms[r].photos /\ Goto(q, "invalidate", loc[q])
    BY <1>7, <2>0, UpdateRowEffect
  <2>2. "invalidate" \in Harmless
    BY DEF Harmless, Stages
  <2>3. \A x \in Rooms : Photos(x)' = Photos(x)
    BY <2>1, PhotosAsBefore
  <2>4. UNCHANGED <<picture, files, issued>>
    BY <2>1 DEF RoomWritten
  <2>5. \A p \in Requests : (pc'[p] = pc[p] /\ loc'[p] = loc[p]) \/ pc'[p] \in Harmless
    BY <1>3, <2>1, <2>2
  <2>. QED
    BY <2>3, <2>4, <2>5, HarmlessKeepsPictures
<1>. QED
  BY <1>2, <1>4, <1>5, <1>6, <1>7

LEMMA NextKeepsPictures ==
  ASSUME Types, Types', Pictures, [Next]_vars
  PROVE  Pictures'
<1>1. CASE \/ Wait \/ UNCHANGED vars
           \/ \E q \in Requests :
                \/ List(q) \/ GetById(q) \/ Update(q) \/ UpsertAddress(q) \/ CacheSteps(q)
                \/ Create(q) \/ UpdateRow(q)
                \/ UpsertProfessionalProfile(q) \/ CreateAddress(q) \/ LinkAddress(q) \/ Die(q)
  BY <1>1, OtherStepsKeepPictures
<1>2. ASSUME NEW q \in Requests,
             \/ DeletePhoto(q) \/ DeletePhotoRow(q) \/ SaveVariant(q) \/ Unlink(q)
             \/ AssignPicture(q) \/ CreatePhoto(q)
      PROVE  Pictures'
  BY <1>2, DeletePhotoKeepsPictures, DeletePhotoRowKeepsPictures, SaveKeepsPictures,
     UnlinkKeepsPictures, AssignPictureKeepsPictures, CreatePhotoKeepsPictures
<1>3. ASSUME NEW q \in Requests, ReplacePicture(q) \/ AddPhotos(q)
      PROVE  Pictures'
  <2>1. CASE ReplacePicture(q)
    BY <2>1, ReplacePictureEffect, UploadsKeepPictures DEF Owners
  <2>2. CASE AddPhotos(q)
    BY <2>2, AddPhotosEffect, UploadsKeepPictures
  <2>. QED
    BY <1>3, <2>1, <2>2
<1>. QED
  BY <1>1, <1>2, <1>3 DEF Next, Handle, CacheSteps

LEMMA InitEstablishesPictures ==
  ASSUME Init
  PROVE  Pictures
<1>1. \A q \in Requests : ~Uploading(q) /\ Pending(q) = {} /\ ~Removing(q)
  BY DEF Init, RuntimeInit, Uploading, Pending, Removing
<1>2. \A r \in Rooms : Photos(r) = {}
  BY DEF Init, CatalogueInit, Photos, Exists
<1>3. \A x \in Places, o \in Owners, i \in Images : ~Shows(x, o, i)
  BY <1>2 DEF Init, CatalogueInit, Shows, Images, Owners
<1>. QED
  BY <1>1, <1>3 DEF Pictures, ShownOnce, ShownStored, UploadsApart, UploadsUnshown, SavedSoFar,
                    RemovalsApart, ShownSomewhere

LEMMA PicturesAreStored ==
  ASSUME Types, Pictures
  PROVE  PicturesStored
<1>1. ASSUME NEW i \in Shown
      PROVE  i \in Images /\ ShownSomewhere(i)
  <2>1. CASE i \in {picture[o] : o \in Rooms \cup Users} \ {0}
    <3>1. PICK o \in Owners : i = picture[o] /\ i # 0
      BY <2>1 DEF Owners
    <3>2. i \in 0..issued
      BY <3>1 DEF Types, TablesOK, Owners
    <3>. QED
      BY <3>1, <3>2, Counts DEF ShownSomewhere, Shows, Places, Images
  <2>2. CASE i \in UNION {{p.image : p \in rooms[r].photos} : r \in {r \in Rooms : Exists(r)}}
    <3>1. PICK r \in Rooms : Exists(r) /\ i \in {p.image : p \in rooms[r].photos}
      BY <2>2
    <3>2. PICK p \in rooms[r].photos : i = p.image
      BY <3>1
    <3>3. p \in Photo
      BY <3>1 DEF Types, TablesOK, RoomOK
    <3>4. Shows("photos", r, i)
      BY <3>1, <3>2 DEF Shows, Photos
    <3>. QED
      BY <3>2, <3>3, <3>4 DEF ShownSomewhere, Places, Owners, Photo
  <2>. QED
    BY <2>1, <2>2 DEF Shown
<1>2. ASSUME NEW i \in Shown, NEW s \in Sizes
      PROVE  <<i, Variants[s]>> \in files
  BY <1>1 DEF Pictures, ShownStored, Stored, Sizes
<1>. QED
  BY <1>2 DEF PicturesStored

(***************************************************************************)
(* A picture a row points at is in the store in every size: rooms.service  *)
(* and users.service save the files before the row and delete the row      *)
(* before the files, and no two requests ever hold the same image.         *)
(***************************************************************************)
THEOREM PicturesAreKept == Spec => []PicturesStored
<1>1. Init => Types /\ Pictures
  BY InitEstablishesTypes, InitEstablishesPictures
<1>2. Types /\ Pictures /\ [Next]_vars => Types' /\ Pictures'
  BY NextKeepsTypes, NextKeepsPictures
<1>3. Types /\ Pictures => PicturesStored
  BY PicturesAreStored
<1>. QED
  BY <1>1, <1>2, <1>3, PTL DEF Spec

-----------------------------------------------------------------------------
(* Staleness *)

FreshEntry(k) ==
  cache[k] # NoEntry =>
    /\ cache[k].until <= now + TtlOf[k]
    /\ \/ cache[k].value = View(k)
       \/ cache[k].until <= changed[k] + TtlOf[k] + Patience

FreshRead(q) ==
  pc[q] = "set" => loc[q].value = View(loc[q].of) \/ loc[q].since <= changed[loc[q].of]

Fresh == (\A k \in CacheKeys : FreshEntry(k)) /\ \A q \in Requests : FreshRead(q)

\* What the database says of k is what it said, or k has changed in this step.
Dated(k) == (View(k)' = View(k) /\ changed'[k] = changed[k]) \/ changed'[k] = now

LEMMA SameRowsSameViews ==
  ASSUME \A r \in Rooms : rooms'[r] = rooms[r] /\ picture'[r] = picture[r],
         NEW k \in CacheKeys
  PROVE  View(k)' = View(k)
<1>1. CASE k = Listing
  <2>1. \A r \in Rooms : Exists(r)' <=> Exists(r)
    BY DEF Exists
  <2>2. {r \in Rooms : Exists(r)}' = {r \in Rooms : Exists(r)}
    BY <2>1
  <2>3. [r \in {r \in Rooms : Exists(r)} |-> [row |-> rooms[r], image |-> picture[r]]]'
         = [r \in {r \in Rooms : Exists(r)} |-> [row |-> rooms[r], image |-> picture[r]]]
    BY <2>2
  <2>. QED
    BY <1>1, <2>3 DEF View
<1>2. CASE k # Listing
  BY <1>2, CatalogueAssumption DEF View
<1>. QED
  BY <1>1, <1>2

LEMMA NothingWritten ==
  ASSUME UNCHANGED <<rooms, picture, changed>>
  PROVE  \A k \in CacheKeys : View(k)' = View(k) /\ Dated(k)
BY SameRowsSameViews DEF Dated

LEMMA RoomTouched ==
  ASSUME Types, NEW r \in Rooms, Touch(r),
         \A x \in Rooms \ {r} : rooms'[x] = rooms[x] /\ picture'[x] = picture[x],
         NEW k \in CacheKeys
  PROVE  /\ Dated(k)
         /\ k \notin {r, Listing} => View(k)' = View(k)
<1>1. changed \in [CacheKeys -> 0..now]
  BY DEF Types, TablesOK
<1>2. CASE k \in {r, Listing}
  BY <1>1, <1>2 DEF Touch, Dated
<1>3. CASE k \notin {r, Listing}
  <2>1. k \in Rooms \ {r}
    BY <1>3, CatalogueAssumption
  <2>2. View(k)' = View(k)
    BY <1>3, <2>1 DEF View
  <2>3. changed'[k] = changed[k]
    BY <1>1, <1>3 DEF Touch
  <2>. QED
    BY <1>3, <2>2, <2>3 DEF Dated
<1>. QED
  BY <1>2, <1>3

\* A step that writes what views are made of, about the room r.
Writes(q, r) ==
  /\ r \in Rooms /\ Touch(r) /\ UNCHANGED <<now, cacheVars>>
  /\ \A x \in Rooms \ {r} : rooms'[x] = rooms[x] /\ picture'[x] = picture[x]

LEMMA WritersWrite ==
  ASSUME Types, NEW q \in Requests,
         \/ Create(q) \/ UpdateRow(q) \/ CreatePhoto(q)
         \/ DeletePhotoRow(q) \/ AssignPicture(q)
  PROVE  \/ \E r \in Rooms : Writes(q, r)
         \/ UNCHANGED <<picture, changed, now, cacheVars>> /\ rooms' = rooms
         \/ /\ UNCHANGED <<changed, now, cacheVars>>
            /\ \A r \in Rooms : rooms'[r] = rooms[r] /\ picture'[r] = picture[r]
<1>1. ASSUME NEW r \in Rooms, RoomWritten(r)
      PROVE  Writes(q, r)
  BY <1>1 DEF RoomWritten, Writes
<1>2. CASE Create(q)
  BY <1>1, <1>2, CreateEffect
<1>3. PICK o : o = loc[q].of
  OBVIOUS
<1>4. CASE UpdateRow(q)
  BY <1>1, <1>3, <1>4, UpdateRowEffect
<1>5. CASE CreatePhoto(q)
  BY <1>1, <1>3, <1>5, CreatePhotoEffect
<1>6. CASE DeletePhotoRow(q)
  <2>1. PICK gone : gone = Gone(q)
    OBVIOUS
  <2>2. CASE gone = {}
    BY <1>3, <1>6, <2>1, <2>2 DEF DeletePhotoRow, Gone, Finish, Goto
  <2>3. CASE gone # {}
    BY <1>1, <1>3, <1>6, <2>1, <2>3, DeletePhotoRowEffect
  <2>. QED
    BY <2>2, <2>3
<1>7. CASE AssignPicture(q)
  <2>1. /\ picture' = [picture EXCEPT ![o] = loc[q].image]
        /\ \/ o \in Rooms /\ Touch(o)
           \/ o \in Users /\ o \notin Rooms /\ UNCHANGED changed
        /\ UNCHANGED <<cacheVars, rooms>>
    BY <1>3, <1>7, AssignPictureEffect
  <2>2. now' = now
    BY <1>3, <1>7, AssignPictureEffect DEF Goto
  <2>3. \A x \in Rooms \ {o} : picture'[x] = picture[x]
    BY <2>1 DEF Types, TablesOK
  <2>. QED
    BY <2>1, <2>2, <2>3 DEF Writes
<1>. QED
  BY <1>2, <1>4, <1>5, <1>6, <1>7

\* Every other step leaves the views alone, and all but the cache's the cache.
LEMMA OthersWriteNothing ==
  ASSUME Types, NEW q \in Requests, Handle(q),
         ~(\/ Create(q) \/ UpdateRow(q) \/ CreatePhoto(q)
           \/ DeletePhotoRow(q) \/ AssignPicture(q))
  PROVE  /\ UNCHANGED <<now, rooms, picture, changed>>
         /\ CacheSteps(q) \/ UNCHANGED cache
<1>1. CASE CacheSteps(q)
  <2>1. now' = now
    BY <1>1 DEF CacheSteps, CacheGet, Lookup, LookedUp, Compute, Remember, Invalidate,
                FindListings, CacheKeysOf, Invalidated, SweepListings, Finish, Goto
  <2>. QED
    BY <1>1, <2>1, CacheStepEffect DEF tables
<1>2. CASE List(q) \/ GetById(q) \/ Update(q) \/ DeletePhoto(q) \/ UpsertAddress(q)
  <2>1. UNCHANGED <<tables, cacheVars, changed>>
    BY <1>2 DEF List, GetById, Update, DeletePhoto, UpsertAddress
  <2>2. now' = now
    BY <1>2 DEF List, GetById, Update, DeletePhoto, UpsertAddress, Begin
  <2>. QED
    BY <2>1, <2>2 DEF tables, cacheVars
<1>3. CASE SaveVariant(q) \/ Unlink(q)
  <2>1. UNCHANGED <<cache, rooms, picture, changed>>
    BY <1>3, SaveVariantEffect, UnlinkEffect
  <2>2. now' = now
    BY <1>3, SaveVariantEffect, UnlinkEffect DEF Goto
  <2>. QED
    BY <2>1, <2>2
<1>4. CASE ReplacePicture(q) \/ AddPhotos(q)
  <2>1. \E m, n : Uploads(q, m, n)
    BY <1>4, ReplacePictureEffect, AddPhotosEffect
  <2>. QED
    BY <2>1 DEF Uploads, Begin, cacheVars
<1>5. CASE UpsertProfessionalProfile(q) \/ CreateAddress(q) \/ LinkAddress(q)
  <2>1. UNCHANGED <<cacheVars, rooms, picture, changed>>
    BY <1>5 DEF UpsertProfessionalProfile, CreateAddress, LinkAddress
  <2>2. now' = now
    BY <1>5 DEF UpsertProfessionalProfile, CreateAddress, LinkAddress, Idle, runtimeVars, Goto, Finish
  <2>. QED
    BY <2>1, <2>2 DEF cacheVars
<1>. QED
  BY <1>1, <1>2, <1>3, <1>4, <1>5 DEF Handle, CacheSteps

LEMMA StepDates ==
  ASSUME Types, [Next]_vars
  PROVE  /\ \A k \in CacheKeys : Dated(k)
         /\ now' \in {now, now + 1}
<1>1. CASE Wait \/ UNCHANGED vars \/ \E q \in Requests : Die(q)
  <2>1. UNCHANGED <<rooms, picture, changed>> /\ now' \in {now, now + 1}
    BY <1>1 DEF Wait, Tick, vars, tables, runtimeVars, Die, Abort, Finish, Goto
  <2>. QED
    BY <2>1, NothingWritten
<1>2. ASSUME NEW q \in Requests, Handle(q)
      PROVE  (\A k \in CacheKeys : Dated(k)) /\ now' = now
  <2>1. CASE \/ Create(q) \/ UpdateRow(q) \/ CreatePhoto(q)
             \/ DeletePhotoRow(q) \/ AssignPicture(q)
    <3>1. CASE \E r \in Rooms : Writes(q, r)
      BY <3>1, RoomTouched DEF Writes
    <3>2. CASE /\ UNCHANGED <<changed, now>>
               /\ \A r \in Rooms : rooms'[r] = rooms[r] /\ picture'[r] = picture[r]
      BY <3>2, SameRowsSameViews DEF Dated
    <3>. QED
      BY <2>1, <3>1, <3>2, WritersWrite
  <2>2. CASE ~(\/ Create(q) \/ UpdateRow(q) \/ CreatePhoto(q)
               \/ DeletePhotoRow(q) \/ AssignPicture(q))
    BY <1>2, <2>2, OthersWriteNothing, NothingWritten
  <2>. QED
    BY <2>1, <2>2
<1>. QED
  BY <1>1, <1>2 DEF Next

\* A step of a handler moves its request, and holds a view only if it computed it.
LEMMA HandlerMoves ==
  ASSUME Types, NEW q \in Requests, Handle(q) \/ Die(q)
  PROVE  \/ UpsertProfessionalProfile(q) /\ UNCHANGED <<now, pc, loc>>
         \/ \E s, l : Goto(q, s, l) /\ (s = "set" => Compute(q))
<1>1. CASE Die(q)
  BY <1>1 DEF Die, Abort, Finish
<1>2. CASE CacheSteps(q) /\ ~Compute(q)
  BY <1>2 DEF CacheSteps, CacheGet, Lookup, LookedUp, Remember, Invalidate,
              FindListings, CacheKeysOf, Invalidated, SweepListings, Finish
<1>3. CASE Compute(q)
  BY <1>3 DEF Compute, Finish
<1>4. CASE \/ List(q) \/ GetById(q) \/ Update(q) \/ DeletePhoto(q) \/ UpsertAddress(q)
           \/ Create(q) \/ ReplacePicture(q) \/ AddPhotos(q)
  <2>1. \E s \in {"get", "unphoto", "address", "keys", "save"} : \E l : Begin(q, s, l)
    BY <1>4 DEF List, GetById, Update, DeletePhoto, UpsertAddress, Create, ReplacePicture,
                AddPhotos
  <2>. QED
    BY <2>1, BeginAt
<1>5. CASE UpdateRow(q) \/ CreateAddress(q) \/ LinkAddress(q)
  BY <1>5 DEF UpdateRow, CreateAddress, LinkAddress, Finish
<1>6. CASE SaveVariant(q)
  <2>1. \E s \in {"done", "save", "photo", "picture"} : \E l : Goto(q, s, l)
    BY <1>6, SaveVariantEffect
  <2>. QED
    BY <2>1
<1>7. CASE Unlink(q)
  BY <1>7, UnlinkEffect
<1>8. CASE CreatePhoto(q) \/ DeletePhotoRow(q)
  BY <1>8 DEF CreatePhoto, DeletePhotoRow, Finish
<1>9. CASE AssignPicture(q)
  BY <1>9 DEF AssignPicture, Finish
<1>10. CASE UpsertProfessionalProfile(q)
  BY <1>10 DEF UpsertProfessionalProfile, Idle, runtimeVars
<1>. QED
  BY <1>1, <1>2, <1>3, <1>4, <1>5, <1>6, <1>7, <1>8, <1>9, <1>10 DEF Handle, CacheSteps

\* Who holds a view to store has just computed it, or held it before.
LEMMA OnlyComputeHoldsViews ==
  ASSUME Types, [Next]_vars, NEW p \in Requests, pc'[p] = "set"
  PROVE  (pc'[p] = pc[p] /\ loc'[p] = loc[p]) \/ Compute(p)
<1>1. CASE Wait \/ UNCHANGED vars
  BY <1>1 DEF Wait, Tick, vars, runtimeVars
<1>2. ASSUME NEW q \in Requests, Handle(q) \/ Die(q)
      PROVE  (pc'[p] = pc[p] /\ loc'[p] = loc[p]) \/ Compute(p)
  <2>1. CASE UNCHANGED <<now, pc, loc>>
    BY <2>1
  <2>2. ASSUME NEW s, NEW l, Goto(q, s, l), s = "set" => Compute(q)
        PROVE  (pc'[p] = pc[p] /\ loc'[p] = loc[p]) \/ Compute(p)
    BY <2>2, MovedOnly
  <2>. QED
    BY <1>2, <2>1, <2>2, HandlerMoves
<1>. QED
  BY <1>1, <1>2 DEF Next

\* What the cache keeps of k is kept, and what may be said of it with it.
LEMMA EntryStaysFresh ==
  ASSUME Types, Types', Fresh, NEW k \in CacheKeys, Dated(k), now' \in {now, now + 1},
         cache'[k] = cache[k] \/ cache'[k] = NoEntry
  PROVE  FreshEntry(k)'
<1>1. now \in Nat /\ now' \in Nat /\ now <= now' /\ TtlOf[k] \in Nat /\ Patience \in Nat
  BY Counts, CacheAssumption, CatalogueAssumption
<1>2. CASE cache'[k] = NoEntry
  BY <1>2 DEF FreshEntry
<1>3. CASE cache'[k] = cache[k] /\ cache[k] # NoEntry
  <2>1. /\ cache[k].until \in Nat /\ cache[k].until <= now + TtlOf[k]
        /\ \/ cache[k].value = View(k)
           \/ cache[k].until <= changed[k] + TtlOf[k] + Patience
    BY <1>3 DEF Fresh, FreshEntry, Types, TablesOK, EntryOK
  <2>2. cache[k].until <= now' + TtlOf[k]
    BY <1>1, <2>1
  <2>3. CASE View(k)' = View(k) /\ changed'[k] = changed[k]
    BY <1>3, <2>1, <2>2, <2>3 DEF FreshEntry
  <2>4. CASE changed'[k] = now
    <3>1. cache[k].until <= changed'[k] + TtlOf[k] + Patience
      BY <1>1, <2>1, <2>4
    <3>. QED
      BY <1>3, <2>2, <3>1 DEF FreshEntry
  <2>. QED
    BY <2>3, <2>4 DEF Dated
<1>. QED
  BY <1>2, <1>3

LEMMA NextKeepsFreshReads ==
  ASSUME Types, Types', Fresh, [Next]_vars, NEW p \in Requests
  PROVE  FreshRead(p)'
<1>. SUFFICES ASSUME pc'[p] = "set"
              PROVE  FreshRead(p)'
  BY DEF FreshRead
<1>1. PICK k : k = loc[p].of
  OBVIOUS
<1>2. CASE Compute(p)
  <2>1. pc'[p] = "set" /\ loc'[p] = [loc[p] EXCEPT !.value = View(k)] /\ now' = now
    BY <1>1, <1>2, MovedOnly DEF Compute, Finish
  <2>2. IsLocals(loc[p]) /\ k \in CacheKeys
    BY <1>1, <1>2 DEF Compute, Types, RequestOK, ReadingOK, InFlight
  <2>3. loc'[p].value = View(k) /\ loc'[p].of = k
    BY <1>1, <2>1, <2>2, WithValue
  <2>4. View(k)' = View(k)
    BY <1>2, <2>2, NothingWritten DEF Compute, tables
  <2>. QED
    BY <2>3, <2>4 DEF FreshRead
<1>3. CASE pc'[p] = pc[p] /\ loc'[p] = loc[p]
  <2>1. k \in CacheKeys /\ loc[p].since <= now /\ loc[p].since \in Nat
    BY <1>1, <1>3 DEF Types, RequestOK, ReadingOK, InFlight
  <2>2. loc[p].value = View(k) \/ loc[p].since <= changed[k]
    BY <1>1, <1>3 DEF Fresh, FreshRead
  <2>3. Dated(k)
    BY <2>1, StepDates
  <2>4. loc'[p].value = View(k)' \/ loc'[p].since <= changed'[k]
    BY <1>3, <2>1, <2>2, <2>3 DEF Dated
  <2>5. loc'[p].of = k
    BY <1>1, <1>3
  <2>. QED
    BY <2>4, <2>5 DEF FreshRead
<1>. QED
  BY <1>2, <1>3, OnlyComputeHoldsViews

LEMMA NextKeepsFreshEntries ==
  ASSUME Types, Types', Fresh, [Next]_vars, NEW k \in CacheKeys
  PROVE  FreshEntry(k)'
<1>1. Dated(k) /\ now' \in {now, now + 1}
  BY StepDates
<1>2. CASE cache'[k] = cache[k] \/ cache'[k] = NoEntry
  BY <1>1, <1>2, EntryStaysFresh
<1>3. ASSUME NEW q \in Requests, pc[q] = "set", k = loc[q].of, View(k)' = View(k), now' = now,
             changed' = changed,
             cache'[k] = [value |-> loc[q].value, until |-> now + TtlOf[k]]
      PROVE  FreshEntry(k)'
  <2>1. now \in Nat /\ TtlOf[k] \in Nat /\ Patience \in Nat /\ changed[k] \in 0..now
    BY Counts, CacheAssumption, CatalogueAssumption DEF Types, TablesOK
  <2>2. loc[q].since \in Nat /\ now <= loc[q].since + Patience
    BY <1>3 DEF Types, RequestOK, InFlight
  <2>3. loc[q].value = View(k) \/ loc[q].since <= changed[k]
    BY <1>3 DEF Fresh, FreshRead
  <2>4. CASE loc[q].value = View(k)
    BY <1>3, <2>1, <2>4 DEF FreshEntry
  <2>5. CASE loc[q].since <= changed[k]
    <3>1. now + TtlOf[k] <= changed'[k] + TtlOf[k] + Patience
      BY <1>3, <2>1, <2>2, <2>5
    <3>. QED
      BY <1>3, <2>1, <3>1 DEF FreshEntry
  <2>. QED
    BY <2>3, <2>4, <2>5
<1>4. CASE Wait \/ UNCHANGED vars \/ \E q \in Requests : Die(q)
  BY <1>2, <1>4 DEF Wait, vars, cacheVars, Die
<1>5. ASSUME NEW q \in Requests, Handle(q)
      PROVE  FreshEntry(k)'
  <2>1. CASE \/ Create(q) \/ UpdateRow(q) \/ CreatePhoto(q)
             \/ DeletePhotoRow(q) \/ AssignPicture(q)
    <3>1. cache' = cache
      BY <2>1, WritersWrite DEF Writes, cacheVars
    <3>. QED
      BY <1>2, <3>1
  <2>2. CASE ~(\/ Create(q) \/ UpdateRow(q) \/ CreatePhoto(q)
               \/ DeletePhotoRow(q) \/ AssignPicture(q))
    <3>1. UNCHANGED <<now, rooms, picture, changed>> /\ (CacheSteps(q) \/ UNCHANGED cache)
      BY <1>5, <2>2, OthersWriteNothing
    <3>2. View(k)' = View(k)
      BY <3>1, NothingWritten
    <3>3. CASE CacheSteps(q)
      <4>1. CacheCall(q)
        BY <3>3, CacheStepEffect
      <4>2. \/ cache'[k] = cache[k] \/ cache'[k] = NoEntry
            \/ /\ pc[q] = "set" /\ k = loc[q].of
               /\ cache'[k] = [value |-> loc[q].value, until |-> now + TtlOf[k]]
        BY <4>1 DEF CacheCall, Types, TablesOK
      <4>. QED
        BY <1>2, <1>3, <3>1, <3>2, <4>2
    <3>. QED
      BY <1>2, <3>1, <3>3
  <2>. QED
    BY <2>1, <2>2
<1>. QED
  BY <1>4, <1>5 DEF Next

LEMMA FreshIsEnough ==
  ASSUME Types, Fresh
  PROVE  StaleNoLongerThanTtl
<1>1. ASSUME NEW k \in CacheKeys, Live(k), cache[k].value # View(k)
      PROVE  now < changed[k] + TtlOf[k] + Patience
  <2>1. cache[k].until <= changed[k] + TtlOf[k] + Patience /\ now < cache[k].until
    BY <1>1 DEF Fresh, FreshEntry, Live
  <2>2. cache[k].until \in Nat
    BY <1>1 DEF Live, Types, TablesOK, EntryOK
  <2>3. now \in Nat /\ changed[k] \in Nat
    <3>1. changed[k] \in 0..now
      BY DEF Types, TablesOK
    <3>. QED
      BY <3>1, Counts
  <2>4. TtlOf[k] \in Nat /\ Patience \in Nat
    BY CacheAssumption, CatalogueAssumption
  <2>. QED
    BY <2>1, <2>2, <2>3, <2>4
<1>. QED
  BY <1>1 DEF StaleNoLongerThanTtl

(***************************************************************************)
(* cache.service.ts wrap: a view that a slow reader stores after it was    *)
(* invalidated, or that a failed del leaves, is served no longer than its  *)
(* time to live past the change, plus the time a request may take.         *)
(***************************************************************************)
THEOREM StalenessBounded == Spec => []StaleNoLongerThanTtl
<1>1. Init => Types /\ Fresh
  <2>1. Init => Fresh
    BY DEF Init, RuntimeInit, CacheInit, Fresh, FreshEntry, FreshRead
  <2>. QED
    BY <2>1, InitEstablishesTypes
<1>2. Types /\ Fresh /\ [Next]_vars => Types' /\ Fresh'
  <2>. SUFFICES ASSUME Types, Fresh, [Next]_vars
                PROVE  Types' /\ Fresh'
    OBVIOUS
  <2>1. Types'
    BY NextKeepsTypes
  <2>. QED
    BY <2>1, NextKeepsFreshReads, NextKeepsFreshEntries DEF Fresh
<1>3. Types /\ Fresh => StaleNoLongerThanTtl
  BY FreshIsEnough
<1>. QED
  BY <1>1, <1>2, <1>3, PTL DEF Spec

-----------------------------------------------------------------------------
(* Calm *)

AtMostOne == IsFiniteSet(InFlight) /\ (calm => \A p, q \in InFlight : p = q)

\* The keys that q has still to invalidate.
Outdated(q) ==
  IF pc[q] \in {"keys", "sweep"} THEN {Listing}
  ELSE IF \/ pc[q] = "invalidate"
          \/ pc[q] \in {"save", "photo"} /\ loc[q].kind = "photos"
          \/ pc[q] = "unlink" /\ loc[q].of \in Rooms
  THEN {loc[q].of, Listing}
  ELSE {}

Stale(k) == Live(k) /\ cache[k].value # View(k)

Exact ==
  calm =>
    /\ \A k \in CacheKeys : Stale(k) => \E q \in Requests : k \in Outdated(q)
    /\ \A q \in Requests : pc[q] = "set" => loc[q].value = View(loc[q].of)

LEMMA NextKeepsAtMostOne ==
  ASSUME Types, AtMostOne, [Next]_vars
  PROVE  AtMostOne'
<1>1. ASSUME NEW q \in Requests, Handle(q) \/ Die(q)
      PROVE  InFlight' \subseteq InFlight \cup {q}
  <2>1. CASE UNCHANGED <<now, pc, loc>>
    BY <2>1 DEF InFlight
  <2>2. ASSUME NEW s, NEW l, Goto(q, s, l)
        PROVE  InFlight' \subseteq InFlight \cup {q}
    BY <2>2, MovedOnly DEF InFlight
  <2>. QED
    BY <1>1, <2>1, <2>2, HandlerMoves
<1>2. (Wait \/ UNCHANGED vars) => InFlight' = InFlight
  BY DEF Wait, Tick, vars, runtimeVars, InFlight
<1>3. IsFiniteSet(InFlight')
  <2>1. InFlight' = InFlight \/ \E q \in Requests : InFlight' \subseteq InFlight \cup {q}
    BY <1>1, <1>2 DEF Next
  <2>2. \A q \in Requests : IsFiniteSet(InFlight \cup {q})
    BY FS_AddElement DEF AtMostOne
  <2>. QED
    BY <2>1, <2>2, FS_Subset DEF AtMostOne
<1>4. ASSUME Cardinality(InFlight') <= 1, NEW p \in InFlight', NEW q \in InFlight', p # q
      PROVE  FALSE
  <2>1. {p, q} \subseteq InFlight' /\ Cardinality({p}) = 1
    BY FS_Singleton
  <2>2. IsFiniteSet({p}) /\ {p, q} = {p} \cup {q} /\ q \notin {p}
    BY <1>4, FS_Singleton
  <2>3. Cardinality({p, q}) = 2
    BY <2>1, <2>2, FS_AddElement
  <2>4. Cardinality({p, q}) <= Cardinality(InFlight') /\ Cardinality(InFlight') \in Nat
    BY <1>3, <2>1, FS_Subset, FS_CardinalityType
  <2>. QED
    BY <1>4, <2>3, <2>4
<1>5. CASE UNCHANGED vars
  <2>1. calm' = calm /\ InFlight' = InFlight
    BY <1>2, <1>5 DEF vars
  <2>. QED
    BY <2>1 DEF AtMostOne
<1>6. CASE Next
  <2>1. calm' => Cardinality(InFlight') <= 1
    BY <1>6 DEF Next, Die
  <2>2. calm' => \A p, q \in InFlight' : p = q
    BY <1>4, <2>1
  <2>. QED
    BY <1>3, <2>2 DEF AtMostOne
<1>. QED
  BY <1>5, <1>6

\* In calm, nobody else is in flight when a request moves.
Alone(q) == \A p \in InFlight : p = q

LEMMA CalmIsAlone ==
  ASSUME Types, AtMostOne, AtMostOne', calm, calm', NEW q \in Requests, Handle(q),
         ~UpsertProfessionalProfile(q)
  PROVE  Alone(q)
<1>1. InFlight \subseteq InFlight' \cup {q}
  <2>1. CASE UNCHANGED <<now, pc, loc>>
    BY <2>1 DEF InFlight
  <2>2. ASSUME NEW s, NEW l, Goto(q, s, l)
        PROVE  InFlight \subseteq InFlight' \cup {q}
    BY <2>2, MovedOnly DEF InFlight
  <2>. QED
    BY <2>1, <2>2, HandlerMoves
<1>2. q \in InFlight \/ q \in InFlight'
  <2>1. CASE \/ List(q) \/ GetById(q) \/ Update(q) \/ DeletePhoto(q) \/ UpsertAddress(q)
             \/ Create(q) \/ ReplacePicture(q) \/ AddPhotos(q)
    <3>1. PICK s \in {"get", "unphoto", "address", "keys", "save"} : \E l : Begin(q, s, l)
      BY <2>1 DEF List, GetById, Update, DeletePhoto, UpsertAddress, Create, ReplacePicture,
                  AddPhotos
    <3>2. pc'[q] = s
      BY <3>1, BeginAt, MovedOnly
    <3>. QED
      BY <3>1, <3>2 DEF InFlight
  <2>2. CASE CacheSteps(q)
    BY <2>2 DEF CacheSteps, CacheGet, Compute, Remember, Invalidate, FindListings,
                SweepListings, InFlight
  <2>3. CASE UpdateRow(q) \/ CreateAddress(q) \/ LinkAddress(q)
    BY <2>3 DEF UpdateRow, CreateAddress, LinkAddress, InFlight
  <2>4. CASE SaveVariant(q) \/ Unlink(q)
    BY <2>4 DEF SaveVariant, Unlink, InFlight
  <2>5. CASE CreatePhoto(q) \/ DeletePhotoRow(q) \/ AssignPicture(q)
    BY <2>5 DEF CreatePhoto, DeletePhotoRow, AssignPicture, InFlight
  <2>. QED
    BY <2>1, <2>2, <2>3, <2>4, <2>5 DEF Handle, CacheSteps
<1>3. ASSUME NEW p \in InFlight
      PROVE  p = q
  <2>1. CASE q \in InFlight
    BY <2>1 DEF AtMostOne
  <2>2. CASE q \in InFlight' /\ p \in InFlight'
    BY <2>2 DEF AtMostOne
  <2>. QED
    BY <1>1, <1>2, <2>1, <2>2
<1>. QED
  BY <1>3 DEF Alone

\* What a step of q keeps true of the views: it has still to invalidate what it changed.
Covers(q) ==
  \A k \in CacheKeys :
    /\ \/ View(k)' = View(k) \/ k \in Outdated(q)' \/ ~Live(k)'
    /\ \/ cache'[k] = cache[k] \/ ~Live(k)' \/ cache'[k].value = View(k)'
    /\ k \in Outdated(q) => k \in Outdated(q)' \/ ~Live(k)'

LEMMA IdleOutdatesNothing ==
  ASSUME NEW q \in Requests, q \notin InFlight
  PROVE  Outdated(q) = {}
BY DEF InFlight, Outdated

LEMMA CoveredStaysExact ==
  ASSUME Types, Types', calm, Exact, NEW q \in Requests, Alone(q), Covers(q),
         now' = now, NEW k \in CacheKeys, Stale(k)'
  PROVE  k \in Outdated(q)'
<1>1. Live(k)' /\ cache'[k].value # View(k)'
  BY DEF Stale
<1>2. CASE k \in Outdated(q)
  BY <1>1, <1>2 DEF Covers
<1>3. CASE k \notin Outdated(q)
  <2>1. \A p \in Requests : k \notin Outdated(p)
    BY <1>3, IdleOutdatesNothing DEF Alone
  <2>2. ~Stale(k)
    BY <2>1 DEF Exact
  <2>3. cache'[k] = cache[k]
    BY <1>1 DEF Covers
  <2>4. Live(k)
    BY <1>1, <2>3 DEF Live
  <2>5. View(k)' # View(k)
    BY <1>1, <2>2, <2>3, <2>4 DEF Stale
  <2>. QED
    BY <1>1, <2>5 DEF Covers
<1>. QED
  BY <1>2, <1>3

LEMMA CoversUnchangedViews ==
  ASSUME UNCHANGED <<rooms, picture, changed, cache>>, NEW q \in Requests,
         Outdated(q) \subseteq Outdated(q)'
  PROVE  Covers(q)
BY NothingWritten DEF Covers

LEMMA CoversWrites ==
  ASSUME Types, NEW q \in Requests, NEW r \in Rooms, Writes(q, r),
         Outdated(q) \subseteq {r, Listing}, Outdated(q)' = {r, Listing}
  PROVE  Covers(q)
BY RoomTouched DEF Covers, Writes, cacheVars

\* What a request that begins, ends or goes elsewhere has to invalidate.
LEMMA OutdatedAfter ==
  ASSUME Types, NEW q \in Requests, NEW s, NEW l, Goto(q, s, l)
  PROVE  Outdated(q)' = IF s \in {"keys", "sweep"} THEN {Listing}
                        ELSE IF \/ s = "invalidate"
                                \/ s \in {"save", "photo"} /\ l.kind = "photos"
                                \/ s = "unlink" /\ l.of \in Rooms
                        THEN {l.of, Listing}
                        ELSE {}
BY MovedOnly DEF Outdated

LEMMA CacheStepsCover ==
  ASSUME Types, NEW q \in Requests, CacheSteps(q), faults' = faults,
         pc[q] = "set" => loc[q].value = View(loc[q].of)
  PROVE  Covers(q)
<1>1. UNCHANGED <<rooms, picture, changed, now>> /\ \A k \in CacheKeys : View(k)' = View(k)
  <2>1. UNCHANGED <<rooms, picture, changed>>
    BY CacheStepEffect DEF tables
  <2>2. now' = now
    BY DEF CacheSteps, CacheGet, Lookup, LookedUp, Compute, Remember, Invalidate,
           FindListings, CacheKeysOf, Invalidated, SweepListings, Finish, Goto
  <2>. QED
    BY <2>1, <2>2, NothingWritten
<1>2. ~Fault
  BY CacheAssumption DEF Fault, Types, TablesOK
<1>3. cache = [k \in CacheKeys |-> cache[k]]
  BY DEF Types, TablesOK
<1>4. CASE CacheGet(q) \/ Compute(q)
  <2>1. pc[q] \in {"get", "read"} /\ cache' = cache
    BY <1>4 DEF CacheGet, Lookup, Compute, cacheVars
  <2>2. Outdated(q) = {}
    BY <2>1 DEF Outdated
  <2>. QED
    BY <1>1, <2>1, <2>2 DEF Covers
<1>6. CASE Invalidate(q)
  <2>1. pc[q] = "invalidate" /\ Goto(q, "keys", loc[q])
    BY <1>6 DEF Invalidate
  <2>2. Outdated(q) = {loc[q].of, Listing} /\ Outdated(q)' = {Listing}
    BY <2>1, OutdatedAfter DEF Outdated
  <2>3. cache' = [k \in CacheKeys |-> IF k \in {loc[q].of} THEN NoEntry ELSE cache[k]]
    BY <1>2, <1>6 DEF Invalidate, CacheDel
  <2>4. \A k \in CacheKeys : cache'[k] = cache[k] \/ (k = loc[q].of /\ cache'[k] = NoEntry)
    BY <2>3
  <2>5. ASSUME NEW k \in CacheKeys, k = loc[q].of
        PROVE  ~Live(k)'
    BY <2>3, <2>5 DEF Live
  <2>. QED
    BY <1>1, <2>2, <2>4, <2>5 DEF Covers
<1>7. CASE SweepListings(q)
  <2>1. pc[q] = "sweep"
    BY <1>7 DEF SweepListings
  <2>2. Outdated(q) = {Listing}
    BY <2>1 DEF Outdated
  <2>3. cache' = [k \in CacheKeys |-> IF k \in {Listing} THEN NoEntry ELSE cache[k]]
    BY <1>2, <1>7 DEF SweepListings, CacheDel
  <2>4. \A k \in CacheKeys : cache'[k] = cache[k] \/ (k = Listing /\ cache'[k] = NoEntry)
    BY <2>3
  <2>5. Listing \in CacheKeys => ~Live(Listing)'
    BY <2>3 DEF Live
  <2>. QED
    BY <1>1, <2>2, <2>4, <2>5 DEF Covers
<1>8. CASE FindListings(q)
  <2>1. pc[q] = "keys" /\ cache' = cache
    BY <1>8 DEF FindListings, CacheKeysOf
  <2>2. Outdated(q) = {Listing}
    BY <2>1 DEF Outdated
  <2>3. {k \in {Listing} : Live(k)} = {} \/ Goto(q, "sweep", loc[q])
    BY <1>2, <1>8 DEF FindListings, CacheKeysOf
  <2>4. CASE {k \in {Listing} : Live(k)} = {}
    <3>1. ~Live(Listing)
      BY <2>4
    <3>2. ~Live(Listing)'
      BY <3>1, <2>1, <1>1 DEF Live
    <3>. QED
      BY <1>1, <2>1, <2>2, <3>2 DEF Covers
  <2>5. CASE Goto(q, "sweep", loc[q])
    <3>1. Outdated(q)' = {Listing}
      BY <2>5, OutdatedAfter
    <3>. QED
      BY <1>1, <2>1, <2>2, <3>1 DEF Covers
  <2>. QED
    BY <2>3, <2>4, <2>5
<1>9. CASE Remember(q)
  <2>1. pc[q] = "set" /\ loc[q].of \in CacheKeys
    BY <1>9 DEF Remember, Types, RequestOK, ReadingOK
  <2>2. cache' = [cache EXCEPT ![loc[q].of] =
                    [value |-> loc[q].value, until |-> now + TtlOf[loc[q].of]]]
    BY <1>2, <1>9 DEF Remember, CacheSet
  <2>3. Outdated(q) = {}
    BY <2>1 DEF Outdated
  <2>4. PICK o : o = loc[q].of
    OBVIOUS
  <2>5. cache'[o] = [value |-> View(o), until |-> now + TtlOf[o]] /\ View(o)' = View(o)
    BY <1>1, <1>3, <2>1, <2>2, <2>4
  <2>6. cache'[o].value = View(o)'
    BY <2>5
  <2>7. \A k \in CacheKeys : k # o => cache'[k] = cache[k]
    BY <1>3, <2>2, <2>4
  <2>. QED
    BY <1>1, <2>3, <2>6, <2>7 DEF Covers
<1>. QED
  BY <1>4, <1>6, <1>7, <1>8, <1>9 DEF CacheSteps

LEMMA WritersCover ==
  ASSUME Types, NEW q \in Requests,
         Create(q) \/ UpdateRow(q) \/ CreatePhoto(q) \/ DeletePhotoRow(q) \/ AssignPicture(q)
  PROVE  Covers(q)
<1>0. PICK o : o = loc[q].of
  OBVIOUS
<1>1. CASE Create(q)
  <2>1. PICK r \in Rooms : /\ ~Exists(r) /\ RoomWritten(r)
                           /\ Begin(q, "keys", Locals("create", r))
    BY <1>1, CreateEffect
  <2>2. Outdated(q) = {} /\ Outdated(q)' = {Listing}
    BY <2>1, BeginAt, OutdatedAfter DEF Outdated
  <2>3. Writes(q, r)
    BY <2>1 DEF Writes, RoomWritten
  <2>4. r \in CacheKeys /\ EntryOK(r)
    BY CatalogueAssumption DEF Types, TablesOK
  <2>5. ~Live(r)'
    BY <2>1, <2>3, <2>4 DEF EntryOK, Live, Writes, cacheVars
  <2>. QED
    BY <2>2, <2>3, <2>5, RoomTouched DEF Covers, Writes, cacheVars
<1>2. CASE UpdateRow(q)
  <2>1. pc[q] = "update" /\ o \in Rooms /\ RoomWritten(o) /\ Goto(q, "invalidate", loc[q])
    BY <1>0, <1>2, UpdateRowEffect DEF UpdateRow
  <2>2. Outdated(q) = {} /\ Outdated(q)' = {o, Listing}
    BY <1>0, <2>1, OutdatedAfter DEF Outdated
  <2>. QED
    BY <2>1, <2>2, CoversWrites DEF Writes, RoomWritten
<1>3. CASE CreatePhoto(q)
  <2>1. /\ o \in Rooms /\ RoomWritten(o)
        /\ (\E m : NextFile(loc[q], m) /\ Goto(q, "save", m)) \/ Goto(q, "invalidate", loc[q])
    BY <1>0, <1>3, CreatePhotoEffect
  <2>2. pc[q] = "photo" /\ loc[q].kind = "photos"
    BY <1>3 DEF CreatePhoto, Types, RequestOK, UploadOK, Uploading
  <2>3. Outdated(q) = {o, Listing}
    BY <1>0, <2>2 DEF Outdated
  <2>4. Outdated(q)' = {o, Listing}
    <3>1. ASSUME NEW m, NextFile(loc[q], m), Goto(q, "save", m)
          PROVE  Outdated(q)' = {o, Listing}
      <4>1. m.kind = "photos" /\ m.of = o
        BY <1>0, <2>2, <3>1 DEF NextFile
      <4>. QED
        BY <3>1, <4>1, OutdatedAfter
    <3>2. CASE Goto(q, "invalidate", loc[q])
      BY <1>0, <3>2, OutdatedAfter
    <3>. QED
      BY <2>1, <3>1, <3>2
  <2>. QED
    BY <2>1, <2>3, <2>4, CoversWrites DEF Writes, RoomWritten
<1>4. CASE DeletePhotoRow(q)
  <2>1. pc[q] = "unphoto"
    BY <1>4 DEF DeletePhotoRow
  <2>2. Outdated(q) = {}
    BY <2>1 DEF Outdated
  <2>3. PICK gone : gone = Gone(q)
    OBVIOUS
  <2>4. CASE gone = {}
    <3>1. UNCHANGED <<rooms, picture, changed, cache>>
      BY <1>0, <1>4, <2>3, <2>4 DEF DeletePhotoRow, Gone, cacheVars
    <3>. QED
      BY <2>2, <3>1, CoversUnchangedViews
  <2>5. CASE gone # {}
    <3>1. o \in Rooms /\ RoomWritten(o) /\ Goto(q, "unlink", loc[q])
      BY <1>0, <1>4, <2>3, <2>5, DeletePhotoRowEffect
    <3>2. Outdated(q)' = {o, Listing}
      BY <1>0, <3>1, OutdatedAfter
    <3>. QED
      BY <2>2, <3>1, <3>2, CoversWrites DEF Writes, RoomWritten
  <2>. QED
    BY <2>4, <2>5
<1>5. CASE AssignPicture(q)
  <2>1. pc[q] = "picture"
    BY <1>5 DEF AssignPicture
  <2>2. Outdated(q) = {}
    BY <2>1 DEF Outdated
  <2>3. /\ picture' = [picture EXCEPT ![o] = loc[q].image]
        /\ \/ o \in Rooms /\ Touch(o)
           \/ o \in Users /\ o \notin Rooms /\ UNCHANGED changed
        /\ \/ loc[q].previous # 0 /\ Goto(q, "unlink", loc[q])
           \/ loc[q].previous = 0 /\ o \in Rooms /\ Goto(q, "invalidate", loc[q])
           \/ loc[q].previous = 0 /\ o \in Users /\ Goto(q, "done", NoLocals)
        /\ UNCHANGED <<cacheVars, rooms>>
    BY <1>0, <1>5, AssignPictureEffect
  <2>4. now' = now
    BY <2>3 DEF Goto
  <2>5. \A x \in Rooms \ {o} : picture'[x] = picture[x]
    BY <2>3 DEF Types, TablesOK
  <2>6. CASE o \in Rooms /\ Touch(o)
    <3>1. Goto(q, "unlink", loc[q]) \/ Goto(q, "invalidate", loc[q])
      BY <2>3, <2>6, CatalogueAssumption
    <3>2. Outdated(q)' = {o, Listing}
      BY <1>0, <2>6, <3>1, OutdatedAfter
    <3>3. Writes(q, o)
      BY <2>3, <2>4, <2>5, <2>6 DEF Writes
    <3>. QED
      BY <2>2, <2>6, <3>2, <3>3, CoversWrites
  <2>7. CASE o \notin Rooms
    <3>1. \A k \in CacheKeys : View(k)' = View(k)
      BY <2>3, <2>5, <2>7, SameRowsSameViews
    <3>. QED
      BY <2>2, <2>3, <3>1 DEF Covers, cacheVars
  <2>. QED
    BY <2>3, <2>6, <2>7
<1>. QED
  BY <1>1, <1>2, <1>3, <1>4, <1>5

LEMMA OthersCover ==
  ASSUME Types, NEW q \in Requests, faults' = faults, ~UpsertProfessionalProfile(q),
         \/ List(q) \/ GetById(q) \/ Update(q) \/ DeletePhoto(q) \/ UpsertAddress(q)
         \/ ReplacePicture(q) \/ AddPhotos(q) \/ SaveVariant(q) \/ Unlink(q)
         \/ CreateAddress(q) \/ LinkAddress(q)
  PROVE  Covers(q)
<1>1. CASE \/ List(q) \/ GetById(q) \/ Update(q) \/ DeletePhoto(q) \/ UpsertAddress(q)
           \/ ReplacePicture(q) \/ AddPhotos(q)
  <2>1. pc[q] = "new"
    BY <1>1 DEF List, GetById, Update, DeletePhoto, UpsertAddress, ReplacePicture, AddPhotos,
                Begin
  <2>2. Outdated(q) = {}
    BY <2>1 DEF Outdated
  <2>3. UNCHANGED <<rooms, picture, changed, cache>>
    BY <1>1 DEF List, GetById, Update, DeletePhoto, UpsertAddress, ReplacePicture, AddPhotos,
                tables, cacheVars
  <2>. QED
    BY <2>2, <2>3, CoversUnchangedViews
<1>2. CASE CreateAddress(q) \/ LinkAddress(q)
  <2>1. pc[q] \in {"address", "profile"}
    BY <1>2 DEF CreateAddress, LinkAddress
  <2>2. Outdated(q) = {}
    BY <2>1 DEF Outdated
  <2>3. UNCHANGED <<rooms, picture, changed, cache>>
    BY <1>2 DEF CreateAddress, LinkAddress, cacheVars
  <2>. QED
    BY <2>2, <2>3, CoversUnchangedViews
<1>3. ~Fault
  BY CacheAssumption DEF Fault, Types, TablesOK
<1>4. CASE SaveVariant(q)
  <2>1. pc[q] = "save"
    BY <1>4 DEF SaveVariant
  <2>2. Outdated(q) = IF loc[q].kind = "photos" THEN {loc[q].of, Listing} ELSE {}
    BY <2>1 DEF Outdated
  <2>3. UNCHANGED <<rooms, picture, changed, cache>>
    BY <1>4, SaveVariantEffect
  <2>4. Outdated(q) \subseteq Outdated(q)'
    <3>1. ASSUME NEW m, m = [loc[q] EXCEPT !.size = @ + 1], Goto(q, "save", m)
          PROVE  Outdated(q) \subseteq Outdated(q)'
      <4>1. IsLocals(loc[q])
        BY <2>1 DEF Types, RequestOK, InFlight
      <4>2. m.kind = loc[q].kind /\ m.of = loc[q].of
        BY <3>1, <4>1, WithSize
      <4>. QED
        BY <2>2, <3>1, <4>2, OutdatedAfter
    <3>2. CASE loc[q].kind = "photos" /\ Goto(q, "photo", loc[q])
      BY <2>2, <3>2, OutdatedAfter
    <3>3. CASE loc[q].kind = "picture"
      BY <2>2, <3>3
    <3>4. \/ Goto(q, "save", [loc[q] EXCEPT !.size = @ + 1])
          \/ loc[q].kind = "photos" /\ Goto(q, "photo", loc[q])
          \/ loc[q].kind = "picture"
      BY <1>3, <1>4, SaveVariantEffect
    <3>. QED
      BY <3>1, <3>2, <3>3, <3>4
  <2>. QED
    BY <2>3, <2>4, CoversUnchangedViews
<1>5. CASE Unlink(q)
  <2>1. pc[q] = "unlink"
    BY <1>5 DEF Unlink
  <2>2. Outdated(q) = IF loc[q].of \in Rooms THEN {loc[q].of, Listing} ELSE {}
    BY <2>1 DEF Outdated
  <2>3. UNCHANGED <<rooms, picture, changed, cache>>
    BY <1>5, UnlinkEffect
  <2>4. Outdated(q) \subseteq Outdated(q)'
    <3>1. CASE loc[q].of \in Rooms /\ Goto(q, "invalidate", loc[q])
      BY <2>2, <3>1, OutdatedAfter
    <3>2. CASE loc[q].of \in Users
      BY <2>2, <3>2, CatalogueAssumption
    <3>. QED
      BY <1>5, <3>1, <3>2, UnlinkEffect
  <2>. QED
    BY <2>3, <2>4, CoversUnchangedViews
<1>. QED
  BY <1>1, <1>2, <1>4, <1>5

LEMMA NextKeepsExact ==
  ASSUME Types, Types', AtMostOne, AtMostOne', Exact, [Next]_vars
  PROVE  Exact'
<1>. SUFFICES ASSUME calm'
              PROVE  Exact'
  BY DEF Exact
<1>1. CASE UNCHANGED vars
  <2>1. /\ calm' = calm /\ UNCHANGED <<pc, loc, now, cache, rooms, picture, changed>>
    BY <1>1 DEF vars, runtimeVars, cacheVars, tables
  <2>2. \A k : View(k)' = View(k) /\ Stale(k)' = Stale(k)
    BY <2>1 DEF View, Stale, Live, Exists
  <2>3. \A q \in Requests : Outdated(q)' = Outdated(q)
    BY <2>1 DEF Outdated
  <2>4. \A q \in Requests : View(loc[q].of)' = View(loc[q].of)
    BY <2>1 DEF View, Exists
  <2>. QED
    BY <2>1, <2>2, <2>3, <2>4 DEF Exact
<1>2. CASE Next
  <2>1. calm /\ (Wait \/ \E q \in Requests : Handle(q) /\ faults' = faults)
    BY <1>2 DEF Next, Die
  <2>2. CASE Wait \/ \E q \in Requests : UpsertProfessionalProfile(q)
    <3>1. /\ UNCHANGED <<pc, loc, cache, rooms, picture, changed>> /\ now' \in {now, now + 1}
          /\ now \in Nat
      BY <2>2, Counts DEF Wait, Tick, UpsertProfessionalProfile, Idle, runtimeVars, cacheVars, tables
    <3>2. \A k : View(k)' = View(k)
      BY <3>1 DEF View, Exists
    <3>3. \A k \in CacheKeys : Stale(k)' => Stale(k)
      <4>1. ASSUME NEW k \in CacheKeys, Live(k)'
            PROVE  Live(k)
        <5>1. cache[k] # NoEntry /\ now' < cache[k].until
          BY <3>1, <4>1 DEF Live
        <5>2. cache[k].until \in Nat
          BY <5>1 DEF Types, TablesOK, EntryOK
        <5>. QED
          BY <3>1, <5>1, <5>2 DEF Live
      <4>. QED
        BY <3>1, <3>2, <4>1 DEF Stale
    <3>4. \A q \in Requests : Outdated(q)' = Outdated(q)
      BY <3>1 DEF Outdated
    <3>5. \A q \in Requests : View(loc[q].of)' = View(loc[q].of)
      BY <3>1 DEF View, Exists
    <3>. QED
      BY <2>1, <3>1, <3>3, <3>4, <3>5 DEF Exact
  <2>3. ASSUME NEW q \in Requests, Handle(q), faults' = faults, ~UpsertProfessionalProfile(q)
        PROVE  Exact'
    <3>1. Alone(q)
      BY <2>1, <2>3, CalmIsAlone
    <3>2. Covers(q)
      <4>1. CASE CacheSteps(q)
        BY <2>1, <2>3, <4>1, CacheStepsCover DEF Exact
      <4>2. CASE \/ Create(q) \/ UpdateRow(q) \/ CreatePhoto(q) \/ DeletePhotoRow(q)
                 \/ AssignPicture(q)
        BY <4>2, WritersCover
      <4>3. CASE \/ List(q) \/ GetById(q) \/ Update(q) \/ DeletePhoto(q) \/ UpsertAddress(q)
                 \/ ReplacePicture(q) \/ AddPhotos(q) \/ SaveVariant(q) \/ Unlink(q)
                 \/ CreateAddress(q) \/ LinkAddress(q)
        BY <2>3, <4>3, OthersCover
      <4>. QED
        BY <2>3, <4>1, <4>2, <4>3 DEF Handle, CacheSteps
    <3>3. now' = now
      BY <2>3, HandlerMoves DEF Goto
    <3>4. \A k \in CacheKeys : Stale(k)' => k \in Outdated(q)'
      BY <2>1, <3>1, <3>2, <3>3, CoveredStaysExact
    <3>5. ASSUME NEW p \in Requests, pc'[p] = "set", NEW k, k = loc'[p].of
          PROVE  loc'[p].value = View(k)'
      <4>1. CASE Compute(p)
        <5>1. /\ Goto(p, "set", [loc[p] EXCEPT !.value = View(loc[p].of)])
              /\ UNCHANGED <<rooms, picture, changed>>
          BY <3>5, <4>1, MovedOnly DEF Compute, Finish, tables
        <5>2. IsLocals(loc[p]) /\ loc[p].of \in CacheKeys
          BY <4>1 DEF Compute, Types, RequestOK, ReadingOK, InFlight
        <5>3. PICK o : o = loc[p].of
          OBVIOUS
        <5>4. loc'[p] = [loc[p] EXCEPT !.value = View(o)]
          BY <5>1, <5>3, MovedOnly
        <5>5. k = o /\ loc'[p].value = View(k)
          BY <3>5, <5>2, <5>3, <5>4, WithValue
        <5>. QED
          BY <5>1, <5>2, <5>3, <5>5, NothingWritten
      <4>2. CASE pc'[p] = pc[p] /\ loc'[p] = loc[p]
        <5>1. pc[p] = "set" /\ p = q
          BY <3>1, <3>5, <4>2 DEF Alone, InFlight
        <5>2. loc[p].value = View(k) /\ k \in CacheKeys
          BY <2>1, <3>5, <4>2, <5>1 DEF Exact, Types, RequestOK, ReadingOK
        <5>3. ~(\/ Create(q) \/ UpdateRow(q) \/ CreatePhoto(q)
                \/ DeletePhotoRow(q) \/ AssignPicture(q))
          BY <5>1 DEF Create, UpdateRow, CreatePhoto, DeletePhotoRow, AssignPicture, Begin
        <5>4. View(k)' = View(k)
          BY <2>3, <5>2, <5>3, OthersWriteNothing, NothingWritten
        <5>. QED
          BY <3>5, <4>2, <5>2, <5>4
      <4>. QED
        BY <1>2, <3>5, <4>1, <4>2, OnlyComputeHoldsViews
    <3>6. \A p \in Requests : (pc[p] = "set" => loc[p].value = View(loc[p].of))'
      BY <3>5
    <3>. QED
      BY <3>4, <3>6 DEF Exact
  <2>. QED
    BY <2>1, <2>2, <2>3
<1>. QED
  BY <1>1, <1>2

-----------------------------------------------------------------------------
(* Tidiness *)

\* The images q has given files to and no row, or no row any more.
Unassigned(q) ==
  {i \in Images : \/ Uploading(q) /\ i = loc[q].image
                  \/ pc[q] = "unlink" /\ i = loc[q].previous}

Addressed == {u \in Users : address[u] > 0}

PhotosOrdered ==
  \A r \in Rooms : \A p, o \in Photos(r) : p.image < o.image => p.position < o.position

\* q knows the picture it replaces, and the photos before those it adds.
KnowsPictures(q) ==
  /\ Uploading(q) /\ loc[q].kind = "picture" => loc[q].previous = picture[loc[q].of]
  /\ Uploading(q) /\ loc[q].kind = "photos" =>
       \A p \in Photos(loc[q].of) : p.image < loc[q].image /\ p.position < loc[q].position

KnowsAddress(q) == pc[q] \in {"address", "profile"} => address[loc[q].of] = 0

Tidy ==
  /\ IsFiniteSet(Addressed)
  /\ calm =>
    /\ \A f \in files : ShownSomewhere(f[1]) \/ \E q \in Requests : f[1] \in Unassigned(q)
    /\ addresses = Cardinality(Addressed) + (IF \E q \in Requests : pc[q] = "profile" THEN 1 ELSE 0)
    /\ PhotosOrdered
    /\ \A q \in Requests : KnowsPictures(q) /\ KnowsAddress(q)

\* The same, of q alone.
PicturesTidy(q) ==
  /\ \A f \in files : ShownSomewhere(f[1]) \/ f[1] \in Unassigned(q)
  /\ PhotosOrdered
  /\ KnowsPictures(q)

AddressesTidy(q) ==
  /\ addresses = Cardinality(Addressed) + (IF pc[q] = "profile" THEN 1 ELSE 0)
  /\ KnowsAddress(q)

LEMMA TidyAlone ==
  ASSUME Tidy, calm, NEW q \in Requests, Alone(q)
  PROVE  PicturesTidy(q) /\ AddressesTidy(q)
<1>1. \A p \in Requests : p # q => Unassigned(p) = {} /\ pc[p] # "profile"
  BY DEF Alone, InFlight, Unassigned, Uploading
<1>2. (\E p \in Requests : pc[p] = "profile") <=> pc[q] = "profile"
  BY <1>1
<1>3. PicturesTidy(q)
  BY <1>1 DEF PicturesTidy, Tidy
<1>4. AddressesTidy(q)
  BY <1>2 DEF AddressesTidy, Tidy
<1>. QED
  BY <1>3, <1>4

LEMMA AloneIsTidy ==
  ASSUME NEW q \in Requests, Alone(q)', IsFiniteSet(Addressed)',
         PicturesTidy(q)', AddressesTidy(q)'
  PROVE  Tidy'
<1>1. \A p \in Requests : p # q => pc'[p] \in {"new", "done"}
  BY DEF Alone, InFlight
<1>2. \A p \in Requests : p # q => KnowsPictures(p)' /\ KnowsAddress(p)' /\ pc'[p] # "profile"
  BY <1>1 DEF KnowsPictures, KnowsAddress, Uploading
<1>3. (\E p \in Requests : pc'[p] = "profile") <=> pc'[q] = "profile"
  BY <1>2
<1>4. \A p \in Requests : KnowsPictures(p)' /\ KnowsAddress(p)'
  BY <1>2 DEF PicturesTidy, AddressesTidy
<1>5. addresses' = Cardinality(Addressed)'
                   + (IF \E p \in Requests : pc'[p] = "profile" THEN 1 ELSE 0)
  BY <1>3 DEF AddressesTidy
<1>6. \A f \in files' : ShownSomewhere(f[1])' \/ \E p \in Requests : f[1] \in Unassigned(p)'
  BY DEF PicturesTidy
<1>7. PhotosOrdered'
  BY DEF PicturesTidy
<1>. QED
  BY <1>4, <1>5, <1>6, <1>7 DEF Tidy

\* Stages at which a request uploads and removes nothing.
Plain == Stages \ {"save", "photo", "picture", "unlink"}

LEMMA PlainKeepsPicturesTidy ==
  ASSUME Types, NEW q \in Requests, PicturesTidy(q),
         picture' = picture, files' = files, \A r \in Rooms : Photos(r)' = Photos(r),
         pc[q] \in Plain, pc'[q] \in Plain
  PROVE  PicturesTidy(q)'
<1>1. \A i : ShownSomewhere(i)' <=> ShownSomewhere(i)
  BY ShownAsBefore
<1>2. Unassigned(q) = {} /\ ~Uploading(q)'
  BY DEF Plain, Unassigned, Uploading
<1>3. PhotosOrdered'
  BY DEF PicturesTidy, PhotosOrdered
<1>4. KnowsPictures(q)'
  BY <1>2 DEF KnowsPictures
<1>. QED
  BY <1>1, <1>2, <1>3, <1>4 DEF PicturesTidy

LEMMA SaveKeepsPicturesTidy ==
  ASSUME Types, NEW q \in Requests, PicturesTidy(q), SaveVariant(q), faults' = faults
  PROVE  PicturesTidy(q)'
<1>1. ~Fault
  BY CacheAssumption DEF Fault, Types, TablesOK
<1>2. PICK i : i = loc[q].image
  OBVIOUS
<1>3. /\ UNCHANGED <<rooms, picture>>
      /\ files' = files \cup {<<i, Variants[loc[q].size]>>}
      /\ \/ Goto(q, "save", [loc[q] EXCEPT !.size = @ + 1])
         \/ Goto(q, "photo", loc[q])
         \/ Goto(q, "picture", loc[q])
  BY <1>1, <1>2, SaveVariantEffect
<1>4. pc[q] = "save" /\ Uploading(q) /\ IsLocals(loc[q]) /\ i \in Images
  <2>1. pc[q] = "save" /\ Uploading(q)
    BY DEF SaveVariant, Uploading
  <2>. QED
    BY <1>2, <2>1, ImageNumbers DEF Types, RequestOK, InFlight
<1>5. /\ Uploading(q)' /\ loc'[q].image = i /\ loc'[q].kind = loc[q].kind
      /\ loc'[q].of = loc[q].of /\ loc'[q].previous = loc[q].previous
      /\ loc'[q].position = loc[q].position
  <2>1. CASE Goto(q, "save", [loc[q] EXCEPT !.size = @ + 1])
    BY <1>2, <1>4, <2>1, MovedOnly, WithSize DEF Uploading
  <2>2. CASE Goto(q, "photo", loc[q]) \/ Goto(q, "picture", loc[q])
    BY <1>2, <2>2, MovedOnly DEF Uploading
  <2>. QED
    BY <1>3, <2>1, <2>2
<1>6. \A r \in Rooms : Photos(r)' = Photos(r)
  BY <1>3 DEF Photos, Exists
<1>7. \A j : ShownSomewhere(j)' <=> ShownSomewhere(j)
  BY <1>3, <1>6, ShownAsBefore
<1>8. i \in Unassigned(q)' /\ Unassigned(q) \subseteq {i}
  BY <1>2, <1>4, <1>5 DEF Unassigned, Uploading
<1>9. \A f \in files' : ShownSomewhere(f[1])' \/ f[1] \in Unassigned(q)'
  BY <1>3, <1>7, <1>8 DEF PicturesTidy
<1>10. PhotosOrdered'
  BY <1>6 DEF PicturesTidy, PhotosOrdered
<1>11. KnowsPictures(q)'
  <2>1. PICK o : o = loc[q].of
    OBVIOUS
  <2>2. Photos(o)' = Photos(o)
    BY <1>3 DEF Photos, Exists
  <2>3. /\ loc[q].kind = "picture" => loc[q].previous = picture[o]
        /\ loc[q].kind = "photos" =>
             \A p \in Photos(o) : p.image < i /\ p.position < loc[q].position
    BY <1>2, <1>4, <2>1 DEF PicturesTidy, KnowsPictures
  <2>. QED
    BY <1>3, <1>5, <2>1, <2>2, <2>3 DEF KnowsPictures
<1>. QED
  BY <1>9, <1>10, <1>11 DEF PicturesTidy

LEMMA UnlinkKeepsPicturesTidy ==
  ASSUME Types, NEW q \in Requests, PicturesTidy(q), Unlink(q), faults' = faults
  PROVE  PicturesTidy(q)'
<1>1. ~Fault
  BY CacheAssumption DEF Fault, Types, TablesOK
<1>2. PICK i : i = loc[q].previous
  OBVIOUS
<1>3. /\ UNCHANGED <<rooms, picture>> /\ files' = files \ FilesOf(i)
      /\ Goto(q, "invalidate", loc[q]) \/ Goto(q, "done", NoLocals)
  BY <1>1, <1>2, UnlinkEffect
<1>4. pc[q] = "unlink" /\ pc'[q] \in {"invalidate", "done"}
  BY <1>3, MovedOnly DEF Unlink
<1>5. Unassigned(q) \subseteq {i} /\ ~Uploading(q)'
  BY <1>2, <1>4 DEF Unassigned, Uploading
<1>6. \A r \in Rooms : Photos(r)' = Photos(r)
  BY <1>3 DEF Photos, Exists
<1>7. \A j : ShownSomewhere(j)' <=> ShownSomewhere(j)
  BY <1>3, <1>6, ShownAsBefore
<1>8. \A f \in files' : f \in files /\ f[1] # i
  BY <1>3 DEF FilesOf
<1>9. \A f \in files' : ShownSomewhere(f[1])' \/ f[1] \in Unassigned(q)'
  BY <1>5, <1>7, <1>8 DEF PicturesTidy
<1>10. PhotosOrdered'
  BY <1>6 DEF PicturesTidy, PhotosOrdered
<1>11. KnowsPictures(q)'
  BY <1>5 DEF KnowsPictures
<1>. QED
  BY <1>9, <1>10, <1>11 DEF PicturesTidy

LEMMA AssignPictureKeepsPicturesTidy ==
  ASSUME Types, NEW q \in Requests, PicturesTidy(q), AssignPicture(q)
  PROVE  PicturesTidy(q)'
<1>1. PICK o, i, old : o = loc[q].of /\ i = loc[q].image /\ old = loc[q].previous
  OBVIOUS
<1>2. /\ o \in Owners /\ i \in 1..issued /\ loc[q].kind = "picture" /\ old \in 0..issued
      /\ picture' = [picture EXCEPT ![o] = i]
      /\ \/ old # 0 /\ Goto(q, "unlink", loc[q])
         \/ old = 0 /\ Goto(q, "invalidate", loc[q])
         \/ old = 0 /\ Goto(q, "done", NoLocals)
      /\ UNCHANGED <<rooms, files>>
  BY <1>1, AssignPictureEffect DEF Owners
<1>3. pc[q] = "picture" /\ Uploading(q) /\ i \in Images
  BY <1>1, ImageNumbers DEF AssignPicture, Uploading
<1>4. old = picture[o]
  BY <1>1, <1>2, <1>3 DEF PicturesTidy, KnowsPictures
<1>5. \A r \in Rooms : Photos(r)' = Photos(r)
  BY <1>2 DEF Photos, Exists
<1>6. picture'[o] = i /\ \A u \in Owners : u # o => picture'[u] = picture[u]
  BY <1>2 DEF Types, TablesOK, Owners
<1>7. ShownSomewhere(i)'
  BY <1>2, <1>6 DEF ShownSomewhere, Shows, Places
<1>8. \A j : ShownSomewhere(j) => ShownSomewhere(j)' \/ j = old
  <2>1. ASSUME NEW j, NEW x \in Places, NEW u \in Owners, Shows(x, u, j), j # old
        PROVE  Shows(x, u, j)'
    BY <1>4, <1>5, <1>6, <2>1 DEF Shows
  <2>. QED
    BY <2>1 DEF ShownSomewhere
<1>9. Unassigned(q) \subseteq {i}
  BY <1>1, <1>3 DEF Unassigned, Uploading
<1>10. ~Uploading(q)' /\ (old # 0 => pc'[q] = "unlink" /\ loc'[q] = loc[q])
  BY <1>2, MovedOnly DEF Uploading
<1>11. ASSUME NEW f \in files'
       PROVE  ShownSomewhere(f[1])' \/ f[1] \in Unassigned(q)'
  <2>1. f \in files /\ f[1] \in Images
    BY <1>2, <1>11 DEF Types, TablesOK
  <2>2. ShownSomewhere(f[1])' \/ f[1] = old
    BY <1>7, <1>8, <1>9, <2>1 DEF PicturesTidy
  <2>3. f[1] # 0
    BY <2>1 DEF Images
  <2>. QED
    BY <1>1, <1>10, <2>1, <2>2, <2>3 DEF Unassigned
<1>12. PhotosOrdered'
  BY <1>5 DEF PicturesTidy, PhotosOrdered
<1>13. KnowsPictures(q)'
  BY <1>10 DEF KnowsPictures
<1>. QED
  BY <1>11, <1>12, <1>13 DEF PicturesTidy

LEMMA CreatePhotoKeepsPicturesTidy ==
  ASSUME Types, NEW q \in Requests, PicturesTidy(q), CreatePhoto(q)
  PROVE  PicturesTidy(q)'
<1>1. PICK r, i, n : r = loc[q].of /\ i = loc[q].image /\ n = loc[q].position
  OBVIOUS
<1>2. /\ r \in Rooms /\ Exists(r) /\ Exists(r)' /\ RoomWritten(r)
      /\ rooms'[r].photos = rooms[r].photos \cup {[image |-> i, position |-> n]}
      /\ \/ \E m : NextFile(loc[q], m) /\ Goto(q, "save", m)
         \/ Goto(q, "invalidate", loc[q])
  BY <1>1, CreatePhotoEffect
<1>3. pc[q] = "photo" /\ loc[q].kind = "photos" /\ Uploading(q) /\ i \in Images
  BY <1>1, ImageNumbers DEF CreatePhoto, Types, RequestOK, UploadOK, Uploading
<1>4. i \in Nat /\ n \in Nat
  BY <1>1, <1>3, Counts DEF Types, RequestOK, UploadOK, Images
<1>5. UNCHANGED <<picture, files>>
  BY <1>2 DEF RoomWritten
<1>6. /\ Photos(r)' = Photos(r) \cup {[image |-> i, position |-> n]}
      /\ \A x \in Rooms \ {r} : Photos(x)' = Photos(x)
  BY <1>2 DEF Photos, Exists, RoomWritten
<1>7. \A p \in Photos(r) : p.image \in Nat /\ p.position \in Nat /\ p.image < i /\ p.position < n
  <2>1. \A p \in Photos(r) : p.image < i /\ p.position < n
    BY <1>1, <1>3 DEF PicturesTidy, KnowsPictures
  <2>2. \A p \in Photos(r) : p \in Photo
    BY <1>2 DEF Photos, Types, TablesOK, RoomOK
  <2>. QED
    BY <2>1, <2>2, Counts DEF Photo, Images
<1>8. ASSUME NEW j, ShownSomewhere(j)
      PROVE  ShownSomewhere(j)'
  <2>1. PICK x \in Places, u \in Owners : Shows(x, u, j)
    BY <1>8 DEF ShownSomewhere
  <2>2. u \in Rooms => \A p \in Photos(u) : p \in Photos(u)'
    BY <1>6
  <2>3. Shows(x, u, j)'
    <3>1. CASE x = "picture" /\ picture[u] = j
      BY <1>5, <3>1 DEF Shows
    <3>2. CASE x = "photos" /\ u \in Rooms /\ \E p \in Photos(u) : p.image = j
      BY <2>2, <3>2 DEF Shows
    <3>. QED
      BY <2>1, <3>1, <3>2 DEF Shows
  <2>. QED
    BY <2>3 DEF ShownSomewhere
<1>9. ShownSomewhere(i)'
  <2>1. PICK p : p = [image |-> i, position |-> n]
    OBVIOUS
  <2>2. p \in Photos(r)' /\ p.image = i
    BY <1>6, <2>1
  <2>3. Shows("photos", r, i)'
    BY <1>2, <2>2 DEF Shows
  <2>. QED
    BY <1>2, <2>3 DEF ShownSomewhere, Places, Owners
<1>10. Unassigned(q) \subseteq {i}
  BY <1>1, <1>3 DEF Unassigned, Uploading
<1>11. \A f \in files' : ShownSomewhere(f[1])'
                         \/ f[1] \in Unassigned(q)'
  BY <1>5, <1>8, <1>9, <1>10 DEF PicturesTidy
<1>12. PhotosOrdered'
  <2>1. ASSUME NEW p \in Photos(r)', NEW o \in Photos(r)', p.image < o.image
        PROVE  p.position < o.position
    <3>1. CASE p \in Photos(r) /\ o \in Photos(r)
      BY <1>2, <2>1, <3>1 DEF PicturesTidy, PhotosOrdered
    <3>2. CASE p = [image |-> i, position |-> n]
      <4>1. p.image = i /\ o.image <= i /\ o.image \in Nat
        BY <1>4, <1>6, <1>7, <3>2
      <4>. QED
        BY <1>4, <2>1, <4>1
    <3>3. CASE p \in Photos(r) /\ o = [image |-> i, position |-> n]
      BY <1>7, <3>3
    <3>. QED
      BY <1>6, <3>1, <3>2, <3>3
  <2>2. ASSUME NEW x \in Rooms \ {r}, NEW p \in Photos(x)', NEW o \in Photos(x)', p.image < o.image
        PROVE  p.position < o.position
    BY <1>6, <2>2 DEF PicturesTidy, PhotosOrdered
  <2>. QED
    BY <2>1, <2>2 DEF PhotosOrdered
<1>13. KnowsPictures(q)'
  <2>1. CASE Goto(q, "invalidate", loc[q])
    BY <2>1, MovedOnly DEF KnowsPictures, Uploading
  <2>2. ASSUME NEW m, NextFile(loc[q], m), Goto(q, "save", m)
        PROVE  KnowsPictures(q)'
    <3>1. /\ loc'[q].of = r /\ loc'[q].kind = "photos"
          /\ loc'[q].image = i + 1 /\ loc'[q].position = n + 1
      BY <1>1, <1>3, <2>2, MovedOnly DEF NextFile
    <3>2. \A p \in Photos(r)' : p.image < i + 1 /\ p.position < n + 1
      BY <1>4, <1>6, <1>7
    <3>. QED
      BY <3>1, <3>2 DEF KnowsPictures
  <2>. QED
    BY <1>2, <2>1, <2>2
<1>. QED
  BY <1>11, <1>12, <1>13 DEF PicturesTidy

LEMMA DeletePhotoRowKeepsPicturesTidy ==
  ASSUME Types, NEW q \in Requests, PicturesTidy(q), DeletePhotoRow(q)
  PROVE  PicturesTidy(q)'
<1>1. PICK r, i : r = loc[q].of /\ i = loc[q].previous
  OBVIOUS
<1>2. PICK gone : gone = Gone(q)
  OBVIOUS
<1>3. pc[q] = "unphoto"
  BY DEF DeletePhotoRow
<1>4. CASE gone = {}
  <2>1. Goto(q, "done", NoLocals) /\ UNCHANGED <<rooms, picture, files>>
    BY <1>1, <1>2, <1>4 DEF DeletePhotoRow, Gone, Finish
  <2>2. pc[q] \in Plain /\ pc'[q] \in Plain
    BY <1>3, <2>1, MovedOnly DEF Plain, Stages
  <2>3. \A x \in Rooms : Photos(x)' = Photos(x)
    BY <2>1 DEF Photos, Exists
  <2>. QED
    BY <2>1, <2>2, <2>3, PlainKeepsPicturesTidy
<1>5. CASE gone # {}
  <2>1. /\ r \in Rooms /\ Exists(r) /\ Exists(r)' /\ RoomWritten(r)
        /\ rooms'[r].photos = rooms[r].photos \ gone
        /\ Goto(q, "unlink", loc[q])
    BY <1>1, <1>2, <1>5, DeletePhotoRowEffect
  <2>2. pc'[q] = "unlink" /\ loc'[q] = loc[q] /\ ~Uploading(q)'
    BY <2>1, MovedOnly DEF Uploading
  <2>3. UNCHANGED <<picture, files>>
    BY <2>1 DEF RoomWritten
  <2>4. /\ Photos(r)' = Photos(r) \ gone
        /\ \A x \in Rooms \ {r} : Photos(x)' = Photos(x)
    BY <2>1 DEF Photos, Exists, RoomWritten
  <2>5. \A p \in gone : p.image = i
    BY <1>1, <1>2 DEF Gone
  <2>6. \A j : ShownSomewhere(j) => ShownSomewhere(j)' \/ j = i
    <3>1. ASSUME NEW j, NEW x \in Places, NEW u \in Owners, Shows(x, u, j), j # i
          PROVE  Shows(x, u, j)'
      <4>1. ASSUME u \in Rooms, NEW p \in Photos(u), p.image = j
            PROVE  p \in Photos(u)'
        BY <2>4, <2>5, <3>1, <4>1
      <4>. QED
        BY <2>3, <3>1, <4>1 DEF Shows
    <3>. QED
      BY <3>1 DEF ShownSomewhere
  <2>7. Unassigned(q) = {}
    BY <1>3 DEF Unassigned, Uploading
  <2>8. ASSUME NEW f \in files'
        PROVE  ShownSomewhere(f[1])' \/ f[1] \in Unassigned(q)'
    <3>1. f \in files /\ f[1] \in Images
      BY <2>3, <2>8 DEF Types, TablesOK
    <3>2. ShownSomewhere(f[1])
      BY <2>7, <3>1 DEF PicturesTidy
    <3>. QED
      BY <1>1, <2>2, <2>6, <3>1, <3>2 DEF Unassigned
  <2>9. PhotosOrdered'
    BY <2>4 DEF PicturesTidy, PhotosOrdered
  <2>10. KnowsPictures(q)'
    BY <2>2 DEF KnowsPictures
  <2>. QED
    BY <2>8, <2>9, <2>10 DEF PicturesTidy
<1>. QED
  BY <1>4, <1>5

LEMMA UploadsKeepPicturesTidy ==
  ASSUME Types, NEW q \in Requests, PicturesTidy(q), ReplacePicture(q) \/ AddPhotos(q)
  PROVE  PicturesTidy(q)'
<1>1. ASSUME NEW m, NEW n, Uploads(q, m, n), NEW kind, NEW o, NEW previous, NEW position,
             Upload(m, kind, o, n, previous, position),
             \/ kind = "picture" /\ previous = picture[o]
             \/ kind = "photos" /\ \A p \in Photos(o) : p.image <= issued /\ p.image \in Nat
                                                        /\ p.position < position
      PROVE  PicturesTidy(q)'
  <2>1. pc[q] = "new" /\ Goto(q, "save", m) /\ UNCHANGED <<rooms, picture, files>>
    BY <1>1, BeginAt DEF Uploads
  <2>2. pc'[q] = "save" /\ loc'[q] = m
    BY <2>1, MovedOnly
  <2>3. \A r : Photos(r)' = Photos(r)
    BY <2>1 DEF Photos, Exists
  <2>4. \A j : ShownSomewhere(j)' <=> ShownSomewhere(j)
    BY <2>1, <2>3, ShownAsBefore
  <2>5. Unassigned(q) = {}
    BY <2>1 DEF Unassigned, Uploading
  <2>6. PhotosOrdered'
    BY <2>3 DEF PicturesTidy, PhotosOrdered
  <2>7. KnowsPictures(q)'
    <3>1. loc'[q].of = o /\ loc'[q].kind = kind /\ loc'[q].previous = previous
          /\ loc'[q].image = issued + 1 /\ loc'[q].position = position
      BY <1>1, <2>2 DEF Upload
    <3>2. \A p \in Photos(o)' : kind = "photos" => p.image < issued + 1 /\ p.position < position
      BY <1>1, <2>3, Counts
    <3>. QED
      BY <1>1, <2>1, <3>1, <3>2 DEF KnowsPictures
  <2>. QED
    BY <2>1, <2>4, <2>5, <2>6, <2>7 DEF PicturesTidy
<1>2. CASE ReplacePicture(q)
  BY <1>1, <1>2, ReplacePictureEffect
<1>3. CASE AddPhotos(q)
  <2>1. PICK r \in Rooms, n \in Nat : \E m :
           /\ Exists(r)
           /\ Upload(m, "photos", r, n, 0, NextPosition(rooms[r].photos))
           /\ Uploads(q, m, n)
           /\ \A p \in rooms[r].photos : p.position < NextPosition(rooms[r].photos)
    BY <1>3, AddPhotosEffect
  <2>2. \A p \in Photos(r) : p.image <= issued /\ p.image \in Nat
                             /\ p.position < NextPosition(rooms[r].photos)
    <3>1. \A p \in rooms[r].photos : p \in Photo /\ p.image <= issued
      BY <2>1 DEF Types, TablesOK, RoomOK
    <3>. QED
      BY <2>1, <3>1, Counts DEF Photos, Photo, Images
  <2>. QED
    BY <1>1, <2>1, <2>2
<1>. QED
  BY <1>2, <1>3

LEMMA NextKeepsAddressedFinite ==
  ASSUME Types, [Next]_vars, IsFiniteSet(Addressed)
  PROVE  IsFiniteSet(Addressed)'
<1>1. address \in [Users -> -1..addresses] /\ addresses \in Nat
  BY DEF Types, TablesOK
<1>2. address' = address \/ \E u, i : address' = [address EXCEPT ![u] = i]
  <2>1. CASE Wait \/ UNCHANGED vars \/ \E q \in Requests : Die(q)
    BY <2>1 DEF Wait, vars, tables, Die
  <2>2. ASSUME NEW q \in Requests, Handle(q)
        PROVE  address' = address \/ \E u, i : address' = [address EXCEPT ![u] = i]
    <3>1. CASE UpsertProfessionalProfile(q) \/ LinkAddress(q)
      BY <3>1 DEF UpsertProfessionalProfile, LinkAddress
    <3>2. CASE CacheSteps(q)
      BY <3>2, CacheStepEffect DEF tables
    <3>3. CASE \/ List(q) \/ GetById(q) \/ Update(q) \/ DeletePhoto(q) \/ UpsertAddress(q)
      BY <3>3 DEF List, GetById, Update, DeletePhoto, UpsertAddress, tables
    <3>4. CASE \/ Create(q) \/ UpdateRow(q) \/ CreatePhoto(q) \/ DeletePhotoRow(q)
               \/ AssignPicture(q) \/ SaveVariant(q) \/ Unlink(q) \/ ReplacePicture(q)
               \/ AddPhotos(q) \/ CreateAddress(q)
      BY <3>4 DEF Create, UpdateRow, CreatePhoto, DeletePhotoRow, AssignPicture, SaveVariant,
                  Unlink, ReplacePicture, AddPhotos, CreateAddress
    <3>. QED
      BY <2>2, <3>1, <3>2, <3>3, <3>4 DEF Handle, CacheSteps
  <2>. QED
    BY <2>1, <2>2 DEF Next
<1>3. ASSUME NEW u, NEW i, address' = [address EXCEPT ![u] = i]
      PROVE  IsFiniteSet(Addressed)'
  <2>1. Addressed' \subseteq Addressed \cup {u}
    BY <1>1, <1>3 DEF Addressed
  <2>2. IsFiniteSet(Addressed \cup {u})
    BY FS_AddElement
  <2>. QED
    BY <2>1, <2>2, FS_Subset
<1>4. CASE address' = address
  <2>1. Addressed' = Addressed
    BY <1>4 DEF Addressed
  <2>. QED
    BY <2>1
<1>. QED
  BY <1>2, <1>3, <1>4

LEMMA AddressesStayTidy ==
  ASSUME NEW q \in Requests, AddressesTidy(q), UNCHANGED <<address, addresses>>,
         pc[q] # "profile", pc'[q] # "profile",
         pc'[q] = "address" => address[loc'[q].of] = 0
  PROVE  AddressesTidy(q)'
<1>1. Addressed' = Addressed
  BY DEF Addressed
<1>2. KnowsAddress(q)'
  BY DEF KnowsAddress
<1>. QED
  BY <1>1, <1>2 DEF AddressesTidy

LEMMA AddressStepsKeepTidy ==
  ASSUME Types, NEW q \in Requests, AddressesTidy(q), IsFiniteSet(Addressed),
         UpsertAddress(q) \/ CreateAddress(q) \/ LinkAddress(q)
  PROVE  AddressesTidy(q)'
<1>1. CASE UpsertAddress(q)
  <2>1. PICK u \in Users : address[u] = 0 /\ Begin(q, "address", Locals("address", u))
    BY <1>1 DEF UpsertAddress
  <2>2. pc[q] = "new" /\ pc'[q] = "address" /\ loc'[q].of = u
    BY <2>1, BeginAt, MovedOnly, FreshLocals
  <2>3. UNCHANGED <<address, addresses>>
    BY <1>1 DEF UpsertAddress, tables
  <2>. QED
    BY <2>1, <2>2, <2>3, AddressesStayTidy
<1>2. CASE CreateAddress(q)
  <2>1. PICK m : m = [loc[q] EXCEPT !.previous = addresses + 1]
    OBVIOUS
  <2>2. /\ addresses' = addresses + 1 /\ address' = address /\ pc[q] = "address"
        /\ Goto(q, "profile", m)
    BY <1>2, <2>1 DEF CreateAddress
  <2>3. pc'[q] = "profile" /\ loc'[q].of = loc[q].of
    <3>1. IsLocals(loc[q])
      BY <2>2 DEF Types, RequestOK, InFlight
    <3>. QED
      BY <2>1, <2>2, <3>1, MovedOnly, WithPrevious
  <2>4. Addressed' = Addressed /\ Cardinality(Addressed) \in Nat
    BY <2>2, FS_CardinalityType DEF Addressed
  <2>5. addresses = Cardinality(Addressed) /\ address[loc[q].of] = 0
    BY <2>2, <2>4 DEF AddressesTidy, KnowsAddress
  <2>6. KnowsAddress(q)'
    <3>1. PICK u : u = loc[q].of
      OBVIOUS
    <3>2. loc'[q].of = u /\ address'[u] = 0
      BY <2>2, <2>3, <2>5, <3>1
    <3>. QED
      BY <3>2 DEF KnowsAddress
  <2>. QED
    BY <2>2, <2>3, <2>4, <2>5, <2>6 DEF AddressesTidy
<1>3. CASE LinkAddress(q)
  <2>1. PICK u, i : u = loc[q].of /\ i = loc[q].previous
    OBVIOUS
  <2>2. /\ addresses' = addresses /\ Goto(q, "done", NoLocals) /\ pc[q] = "profile"
        /\ address' = [address EXCEPT ![u] = i]
    BY <1>3, <2>1 DEF LinkAddress, Finish
  <2>3. u \in Users /\ i \in 1..addresses /\ addresses \in Nat
    BY <2>1, <2>2, Counts DEF Types, RequestOK, RemovalOK
  <2>4. address[u] = 0 /\ address \in [Users -> -1..addresses]
    BY <2>1, <2>2 DEF AddressesTidy, KnowsAddress, Types, TablesOK
  <2>5. Addressed' = Addressed \cup {u} /\ u \notin Addressed
    BY <2>2, <2>3, <2>4 DEF Addressed
  <2>6. Cardinality(Addressed)' = Cardinality(Addressed) + 1 /\ Cardinality(Addressed) \in Nat
    BY <2>5, FS_AddElement, FS_CardinalityType
  <2>7. pc'[q] = "done"
    BY <2>2, MovedOnly
  <2>8. addresses = Cardinality(Addressed) + 1
    BY <2>2 DEF AddressesTidy
  <2>. QED
    BY <2>2, <2>6, <2>7, <2>8 DEF AddressesTidy, KnowsAddress
<1>. QED
  BY <1>1, <1>2, <1>3

LEMMA HandlerKeepsPicturesTidy ==
  ASSUME Types, NEW q \in Requests, PicturesTidy(q), Handle(q), faults' = faults,
         ~UpsertProfessionalProfile(q)
  PROVE  PicturesTidy(q)'
<1>1. ASSUME NEW s \in Plain, NEW l, Goto(q, s, l), pc[q] \in Plain,
             UNCHANGED <<picture, files>>, \A r \in Rooms : Photos(r)' = Photos(r)
      PROVE  PicturesTidy(q)'
  <2>1. pc'[q] \in Plain
    BY <1>1, MovedOnly
  <2>. QED
    BY <1>1, <2>1, PlainKeepsPicturesTidy
<1>2. {"new", "done", "get", "read", "set", "update", "invalidate", "keys", "sweep",
       "unphoto", "address", "profile"} \subseteq Plain
  BY DEF Plain, Stages
<1>3. ASSUME UNCHANGED rooms
      PROVE  \A r \in Rooms : Photos(r)' = Photos(r)
  BY <1>3 DEF Photos, Exists
<1>4. CASE CacheSteps(q)
  <2>1. UNCHANGED <<rooms, picture, files>>
    BY <1>4, CacheStepEffect DEF tables
  <2>2. pc[q] \in Plain
    BY <1>2, <1>4 DEF CacheSteps, CacheGet, Compute, Remember, Invalidate, FindListings,
                      SweepListings
  <2>3. \E s \in {"update", "done", "read", "set", "keys", "sweep", "get"} :
          \E l : Goto(q, s, l)
    BY <1>4 DEF CacheSteps, CacheGet, Lookup, LookedUp, Compute, Remember, Invalidate,
                FindListings, CacheKeysOf, Invalidated, SweepListings, Finish
  <2>. QED
    BY <1>1, <1>2, <1>3, <2>1, <2>2, <2>3
<1>5. CASE \/ List(q) \/ GetById(q) \/ Update(q) \/ DeletePhoto(q) \/ UpsertAddress(q)
  <2>1. UNCHANGED <<rooms, picture, files>>
    BY <1>5 DEF List, GetById, Update, DeletePhoto, UpsertAddress, tables
  <2>2. \E s \in {"get", "unphoto", "address"} : \E l : Begin(q, s, l)
    BY <1>5 DEF List, GetById, Update, DeletePhoto, UpsertAddress
  <2>. QED
    BY <1>1, <1>2, <1>3, <2>1, <2>2, BeginAt
<1>6. CASE CreateAddress(q) \/ LinkAddress(q)
  <2>1. UNCHANGED <<rooms, picture, files>> /\ pc[q] \in {"address", "profile"}
    BY <1>6 DEF CreateAddress, LinkAddress
  <2>2. \E s \in {"profile", "done"} : \E l : Goto(q, s, l)
    BY <1>6 DEF CreateAddress, LinkAddress, Finish
  <2>. QED
    BY <1>1, <1>2, <1>3, <2>1, <2>2
<1>7. CASE Create(q)
  <2>1. PICK r \in Rooms :
          /\ ~Exists(r) /\ RoomWritten(r) /\ Begin(q, "keys", Locals("create", r))
          /\ rooms'[r].photos = {}
    BY <1>7, CreateEffect
  <2>2. \A x \in Rooms : Photos(x)' = Photos(x)
    BY <2>1, PhotosAsBefore
  <2>3. UNCHANGED <<picture, files>> /\ pc[q] = "new"
    BY <2>1, BeginAt DEF RoomWritten
  <2>. QED
    BY <1>1, <1>2, <2>1, <2>2, <2>3, BeginAt
<1>8. CASE UpdateRow(q)
  <2>1. PICK r : r = loc[q].of
    OBVIOUS
  <2>2. /\ r \in Rooms /\ Exists(r) /\ Exists(r)' /\ RoomWritten(r)
        /\ rooms'[r].photos = rooms[r].photos /\ Goto(q, "invalidate", loc[q])
    BY <1>8, <2>1, UpdateRowEffect
  <2>3. \A x \in Rooms : Photos(x)' = Photos(x)
    BY <2>2, PhotosAsBefore
  <2>4. UNCHANGED <<picture, files>> /\ pc[q] = "update"
    BY <1>8, <2>2 DEF RoomWritten, UpdateRow
  <2>. QED
    BY <1>1, <1>2, <2>2, <2>3, <2>4
<1>9. CASE \/ SaveVariant(q) \/ Unlink(q) \/ AssignPicture(q) \/ CreatePhoto(q)
           \/ DeletePhotoRow(q) \/ ReplacePicture(q) \/ AddPhotos(q)
  BY <1>9, SaveKeepsPicturesTidy, UnlinkKeepsPicturesTidy, AssignPictureKeepsPicturesTidy,
     CreatePhotoKeepsPicturesTidy, DeletePhotoRowKeepsPicturesTidy, UploadsKeepPicturesTidy
<1>. QED
  BY <1>4, <1>5, <1>6, <1>7, <1>8, <1>9 DEF Handle, CacheSteps

LEMMA HandlerKeepsAddressesTidy ==
  ASSUME Types, NEW q \in Requests, AddressesTidy(q), IsFiniteSet(Addressed), Handle(q),
         ~UpsertProfessionalProfile(q)
  PROVE  AddressesTidy(q)'
<1>1. CASE UpsertAddress(q) \/ CreateAddress(q) \/ LinkAddress(q)
  BY <1>1, AddressStepsKeepTidy
<1>2. ASSUME UNCHANGED <<address, addresses>>, pc[q] # "profile",
             NEW s \in Stages \ {"address", "profile"}, NEW l, Goto(q, s, l)
      PROVE  AddressesTidy(q)'
  BY <1>2, MovedOnly, AddressesStayTidy
<1>3. CASE CacheSteps(q)
  <2>1. UNCHANGED <<address, addresses>>
    BY <1>3, CacheStepEffect DEF tables
  <2>2. pc[q] # "profile"
    BY <1>3 DEF CacheSteps, CacheGet, Compute, Remember, Invalidate, FindListings,
                SweepListings
  <2>3. \E s \in {"update", "done", "read", "set", "keys", "sweep", "get"} :
          \E l : Goto(q, s, l)
    BY <1>3 DEF CacheSteps, CacheGet, Lookup, LookedUp, Compute, Remember, Invalidate,
                FindListings, CacheKeysOf, Invalidated, SweepListings, Finish
  <2>. QED
    BY <1>2, <2>1, <2>2, <2>3 DEF Stages
<1>4. CASE \/ List(q) \/ GetById(q) \/ Update(q) \/ DeletePhoto(q)
           \/ Create(q) \/ ReplacePicture(q) \/ AddPhotos(q)
  <2>1. UNCHANGED <<address, addresses>>
    BY <1>4 DEF List, GetById, Update, DeletePhoto, Create, ReplacePicture, AddPhotos, tables
  <2>2. \E s \in {"get", "unphoto", "keys", "save"} : \E l : Begin(q, s, l)
    BY <1>4 DEF List, GetById, Update, DeletePhoto, Create, ReplacePicture, AddPhotos
  <2>. QED
    BY <1>2, <2>1, <2>2, BeginAt DEF Stages
<1>5. CASE \/ UpdateRow(q) \/ CreatePhoto(q) \/ DeletePhotoRow(q) \/ AssignPicture(q)
  <2>1. UNCHANGED <<address, addresses>> /\ pc[q] # "profile"
    BY <1>5 DEF UpdateRow, CreatePhoto, DeletePhotoRow, AssignPicture
  <2>2. \E s \in {"invalidate", "save", "unlink", "done"} : \E l : Goto(q, s, l)
    BY <1>5 DEF UpdateRow, CreatePhoto, DeletePhotoRow, AssignPicture, Finish
  <2>. QED
    BY <1>2, <2>1, <2>2 DEF Stages
<1>6. CASE SaveVariant(q) \/ Unlink(q)
  <2>1. UNCHANGED <<address, addresses>> /\ pc[q] # "profile"
    BY <1>6 DEF SaveVariant, Unlink
  <2>2. \E s \in {"save", "photo", "picture", "invalidate", "done"} : \E l : Goto(q, s, l)
    <3>1. CASE SaveVariant(q)
      BY <3>1, SaveVariantEffect
    <3>2. CASE Unlink(q)
      BY <3>2, UnlinkEffect
    <3>. QED
      BY <1>6, <3>1, <3>2
  <2>. QED
    BY <1>2, <2>1, <2>2 DEF Stages
<1>. QED
  BY <1>1, <1>3, <1>4, <1>5, <1>6 DEF Handle, CacheSteps

LEMMA NextKeepsTidy ==
  ASSUME Types, Types', AtMostOne, AtMostOne', Tidy, [Next]_vars
  PROVE  Tidy'
<1>0. IsFiniteSet(Addressed)'
  BY NextKeepsAddressedFinite DEF Tidy
<1>. SUFFICES ASSUME calm'
              PROVE  Tidy'
  BY <1>0 DEF Tidy
<1>1. /\ calm
      /\ \/ Wait \/ UNCHANGED vars
         \/ \E q \in Requests : Handle(q) /\ faults' = faults
  BY DEF Next, Die, vars
<1>2. CASE Wait \/ UNCHANGED vars
  <2>1. UNCHANGED <<pc, loc, rooms, picture, files, address, addresses>>
    BY <1>2 DEF Wait, Tick, vars, runtimeVars, tables
  <2>2. \A o : Photos(o)' = Photos(o)
    BY <2>1 DEF Photos, Exists
  <2>3. \A j : ShownSomewhere(j)' <=> ShownSomewhere(j)
    BY <2>1, <2>2, ShownAsBefore
  <2>4. \A q \in Requests : Unassigned(q)' = Unassigned(q)
    BY <2>1 DEF Unassigned, Uploading
  <2>5. \A q \in Requests : KnowsPictures(q)' /\ KnowsAddress(q)'
    <3>1. ASSUME NEW q \in Requests
          PROVE  KnowsPictures(q)' /\ KnowsAddress(q)'
      <4>1. KnowsPictures(q) /\ KnowsAddress(q)
        BY <1>1 DEF Tidy
      <4>2. Photos(loc[q].of)' = Photos(loc[q].of)
        BY <2>1 DEF Photos, Exists
      <4>. QED
        BY <2>1, <4>1, <4>2 DEF KnowsPictures, KnowsAddress, Uploading
    <3>. QED
      BY <3>1
  <2>6. Addressed' = Addressed
    BY <2>1 DEF Addressed
  <2>7. PhotosOrdered'
    BY <1>1, <2>2 DEF Tidy, PhotosOrdered
  <2>8. \A f \in files' : ShownSomewhere(f[1])' \/ \E q \in Requests : f[1] \in Unassigned(q)'
    BY <1>1, <2>1, <2>3, <2>4 DEF Tidy
  <2>. QED
    BY <1>0, <1>1, <2>1, <2>5, <2>6, <2>7, <2>8 DEF Tidy
<1>3. ASSUME NEW q \in Requests, UpsertProfessionalProfile(q)
      PROVE  Tidy'
  <2>1. /\ UNCHANGED <<pc, loc, rooms, picture, files, addresses>>
        /\ \E u \in Users : address[u] = -1 /\ address' = [address EXCEPT ![u] = 0]
    BY <1>3 DEF UpsertProfessionalProfile, Idle, runtimeVars
  <2>2. \A o : Photos(o)' = Photos(o)
    BY <2>1 DEF Photos, Exists
  <2>3. \A j : ShownSomewhere(j)' <=> ShownSomewhere(j)
    BY <2>1, <2>2, ShownAsBefore
  <2>4. \A p \in Requests : Unassigned(p)' = Unassigned(p)
    BY <2>1 DEF Unassigned, Uploading
  <2>5. address \in [Users -> -1..addresses] /\ addresses \in Nat
    BY DEF Types, TablesOK
  <2>6. \A u \in Users : address[u] >= 0 => address'[u] = address[u]
    BY <2>1, <2>5
  <2>7. ASSUME NEW p \in Requests
        PROVE  KnowsPictures(p)' /\ KnowsAddress(p)'
    <3>1. KnowsPictures(p) /\ KnowsAddress(p)
      BY <1>1 DEF Tidy
    <3>2. Photos(loc[p].of)' = Photos(loc[p].of)
      BY <2>1 DEF Photos, Exists
    <3>3. pc[p] \in {"address", "profile"} => loc[p].of \in Users
      BY DEF Types, RequestOK, RemovalOK
    <3>4. KnowsPictures(p)'
      BY <2>1, <3>1, <3>2 DEF KnowsPictures, Uploading
    <3>5. PICK u : u = loc[p].of
      OBVIOUS
    <3>6. pc[p] \in {"address", "profile"} => address'[u] = 0
      BY <2>6, <3>1, <3>3, <3>5 DEF KnowsAddress
    <3>. QED
      BY <2>1, <3>4, <3>5, <3>6 DEF KnowsAddress
  <2>8. Addressed' = Addressed
    BY <2>1, <2>5 DEF Addressed
  <2>9. PhotosOrdered'
    BY <1>1, <2>2 DEF Tidy, PhotosOrdered
  <2>10. \A f \in files' : ShownSomewhere(f[1])' \/ \E p \in Requests : f[1] \in Unassigned(p)'
    BY <1>1, <2>1, <2>3, <2>4 DEF Tidy
  <2>. QED
    BY <1>0, <1>1, <2>1, <2>7, <2>8, <2>9, <2>10 DEF Tidy
<1>4. ASSUME NEW q \in Requests, Handle(q), faults' = faults, ~UpsertProfessionalProfile(q)
      PROVE  Tidy'
  <2>1. Alone(q)
    BY <1>1, <1>4, CalmIsAlone
  <2>2. PicturesTidy(q) /\ AddressesTidy(q) /\ IsFiniteSet(Addressed)
    BY <1>1, <2>1, TidyAlone DEF Tidy
  <2>3. PicturesTidy(q)' /\ AddressesTidy(q)'
    BY <1>4, <2>2, HandlerKeepsPicturesTidy, HandlerKeepsAddressesTidy
  <2>4. Alone(q)'
    <3>1. CASE UNCHANGED <<now, pc, loc>>
      BY <2>1, <3>1 DEF Alone, InFlight
    <3>2. ASSUME NEW s, NEW l, Goto(q, s, l)
          PROVE  Alone(q)'
      BY <2>1, <3>2, MovedOnly DEF Alone, InFlight
    <3>. QED
      BY <1>4, <3>1, <3>2, HandlerMoves
  <2>. QED
    BY <1>0, <2>3, <2>4, AloneIsTidy
<1>. QED
  BY <1>1, <1>2, <1>3, <1>4

LEMMA ExactIsEnough ==
  ASSUME Exact
  PROVE  ExactWhenQuiet
<1>1. ASSUME Quiet, NEW k \in CacheKeys, Live(k), cache[k].value # View(k)
      PROVE  FALSE
  <2>1. calm /\ \A q \in Requests : Outdated(q) = {}
    BY <1>1, IdleOutdatesNothing DEF Quiet
  <2>. QED
    BY <1>1, <2>1 DEF Exact, Stale
<1>. QED
  BY <1>1 DEF ExactWhenQuiet

LEMMA TidyIsEnough ==
  ASSUME Types, Tidy
  PROVE  TidyWhenQuiet
<1>. SUFFICES ASSUME Quiet
              PROVE  TidyWhenQuiet
  BY DEF TidyWhenQuiet
<1>1. \A q \in Requests : pc[q] \in {"new", "done"}
  BY DEF Quiet, InFlight
<1>2. calm /\ \A q \in Requests : Unassigned(q) = {} /\ pc[q] # "profile"
  BY <1>1 DEF Quiet, Unassigned, Uploading
<1>3. files \subseteq Shown \X {Variants[i] : i \in Sizes}
  <2>1. ASSUME NEW f \in files
        PROVE  f \in Shown \X {Variants[i] : i \in Sizes}
    <3>1. f \in Images \X {Variants[i] : i \in Sizes}
      BY DEF Types, TablesOK
    <3>2. ShownSomewhere(f[1])
      BY <1>2 DEF Tidy
    <3>3. PICK x \in Places, o \in Owners : Shows(x, o, f[1])
      BY <3>2 DEF ShownSomewhere
    <3>4. f[1] # 0
      BY <3>1 DEF Images
    <3>5. f[1] \in Shown
      <4>1. CASE picture[o] = f[1]
        BY <3>4, <4>1 DEF Shown, Owners
      <4>2. CASE o \in Rooms /\ \E p \in Photos(o) : p.image = f[1]
        <5>1. Exists(o) /\ f[1] \in {p.image : p \in rooms[o].photos}
          BY <4>2 DEF Photos
        <5>2. f[1] \in UNION {{p.image : p \in rooms[r].photos} : r \in {r \in Rooms : Exists(r)}}
          BY <4>2, <5>1
        <5>. QED
          BY <5>2 DEF Shown
      <4>. QED
        BY <3>3, <4>1, <4>2 DEF Shows
    <3>. QED
      BY <3>1, <3>5
  <2>. QED
    BY <2>1
<1>4. addresses = Cardinality({u \in Users : address[u] > 0})
  <2>1. Cardinality(Addressed) \in Nat
    BY FS_CardinalityType DEF Tidy
  <2>2. addresses = Cardinality(Addressed)
    BY <1>2, <2>1 DEF Tidy
  <2>. QED
    BY <2>2 DEF Addressed
<1>5. \A r \in Rooms : Exists(r) =>
        \A p, o \in rooms[r].photos : p.image < o.image => p.position < o.position
  BY <1>2 DEF Tidy, PhotosOrdered, Photos
<1>. QED
  BY <1>3, <1>4, <1>5 DEF TidyWhenQuiet

LEMMA InitIsCalm ==
  ASSUME Init
  PROVE  AtMostOne /\ Exact /\ Tidy
<1>1. \A q \in Requests : pc[q] = "new"
  BY DEF Init, RuntimeInit
<1>2. InFlight = {}
  BY <1>1 DEF InFlight
<1>3. AtMostOne
  BY <1>2, FS_EmptySet DEF AtMostOne
<1>4. Exact
  BY <1>1 DEF Init, CacheInit, Exact, Stale, Live
<1>5. Addressed = {}
  BY DEF Init, CatalogueInit, Addressed
<1>6. \A r \in Rooms : Photos(r) = {}
  BY DEF Init, CatalogueInit, Photos, Exists
<1>7. \A q \in Requests : KnowsPictures(q) /\ KnowsAddress(q) /\ pc[q] # "profile"
  BY <1>1 DEF KnowsPictures, KnowsAddress, Uploading
<1>8. files = {} /\ addresses = 0
  BY DEF Init, CatalogueInit
<1>9. PhotosOrdered
  BY <1>6 DEF PhotosOrdered
<1>10. Tidy
  BY <1>5, <1>7, <1>8, <1>9, FS_EmptySet DEF Tidy
<1>. QED
  BY <1>3, <1>4, <1>10

(***************************************************************************)
(* Every write of rooms.service.ts invalidates every view it shows up in:  *)
(* without overlaps and failures the cache says what the database says.    *)
(***************************************************************************)
THEOREM QuietCacheIsExact == Spec => []ExactWhenQuiet
<1>1. Init => Types /\ AtMostOne /\ Exact
  BY InitEstablishesTypes, InitIsCalm
<1>2. Types /\ AtMostOne /\ Exact /\ [Next]_vars => Types' /\ AtMostOne' /\ Exact'
  BY NextKeepsTypes, NextKeepsAtMostOne, NextKeepsExact
<1>3. Exact => ExactWhenQuiet
  BY ExactIsEnough
<1>. QED
  BY <1>1, <1>2, <1>3, PTL DEF Spec

(***************************************************************************)
(* Without overlaps and failures, uploads and deletions leave no file      *)
(* without a row, upsertAddress no address without a profile, and photos   *)
(* stay in the order they were uploaded.                                   *)
(***************************************************************************)
THEOREM QuietStoreIsTidy == Spec => []TidyWhenQuiet
<1>1. Init => Types /\ AtMostOne /\ Tidy
  BY InitEstablishesTypes, InitIsCalm
<1>2. Types /\ AtMostOne /\ Tidy /\ [Next]_vars => Types' /\ AtMostOne' /\ Tidy'
  BY NextKeepsTypes, NextKeepsAtMostOne, NextKeepsTidy
<1>3. Types /\ Tidy => TidyWhenQuiet
  BY TidyIsEnough
<1>. QED
  BY <1>1, <1>2, <1>3, PTL DEF Spec

=============================================================================
