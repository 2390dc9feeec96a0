-------------------------- MODULE StorefrontProofs --------------------------
(***************************************************************************)
(* The owner's side for any sessions, restaurants, menus and pictures.     *)
(* First the pictures: a key has one home at a time, an upload that is     *)
(* still running (Pending), a row, or a request that will remove it        *)
(* (Doomed).  Then what must have come before a restaurant is activated.   *)
(* Then the menu: its order, and that every row of it has its parent.      *)
(* Last the types of all of these, where the question is whether what a    *)
(* request is about to write still fits its column.                        *)
(***************************************************************************)
EXTENDS Menus, Images, FiniteSetTheorems, TLAPS

Pending(s) == IF job[s].op \in {"upload", "stored"} THEN job[s].keys ELSE {}

Doomed(s) ==
    CASE job[s].op \in {"sweep", "delete"} -> job[s].keys
      [] job[s].op = "stored" -> Held(job[s].old)
      [] OTHER -> {}

(* The other rows never name the key that a replacing upload replaces. *)
OldIsApart(s) ==
    /\ job[s].kind = "primary" => Held(job[s].old) \intersect (GalleryKeys \union Held(itemImage)) = {}
    /\ job[s].kind = "item" => Held(job[s].old) \intersect (GalleryKeys \union Held(primaryKey)) = {}
    /\ job[s].kind \notin {"primary", "item"} => job[s].old = NoKey

UploadOK(s) ==
    /\ Pending(s) \subseteq 1..lastKey /\ Doomed(s) \subseteq 1..lastKey
    /\ Pending(s) \intersect RowKeys = {}
    /\ job[s].op = "stored" => job[s].keys \subseteq objects /\ OldIsApart(s)
    /\ job[s].op = "sweep" => job[s].keys \intersect RowKeys = {}

KeysApart ==
    \A s, t \in Sessions : /\ s # t => Pending(s) \intersect Pending(t) = {}
                           /\ Pending(s) \intersect Doomed(t) = {}

RowsApart ==
    /\ Held(primaryKey) \intersect GalleryKeys = {}
    /\ Held(itemImage) \intersect (GalleryKeys \union Held(primaryKey)) = {}

KeysOK ==
    /\ lastKey \in Nat /\ objects \subseteq 1..lastKey
    /\ gallery = [t \in ImageTypes |-> gallery[t]]
    /\ RowKeys \subseteq objects

ImagesInv ==
    /\ KeysOK /\ RowsApart /\ KeysApart
    /\ job = [s \in Sessions |-> job[s]] /\ \A s \in Sessions : UploadOK(s)

-----------------------------------------------------------------------------
(* What a step of s may do to the keys without touching another request:   *)
(* put its own keys into rows, remove its own and the doomed objects, take *)
(* fresh keys, and doom keys of rows.                                      *)
LEMMA OwnKeysOnly ==
    ASSUME ImagesInv, NEW s \in Sessions, KeysOK', RowsApart', UploadOK(s)',
           job' = [t \in Sessions |-> job'[t]], \A t \in Sessions \ {s} : job'[t] = job[t],
           GalleryKeys' \subseteq GalleryKeys \union Pending(s),
           Held(primaryKey)' \subseteq Held(primaryKey) \union Pending(s),
           Held(itemImage)' \subseteq Held(itemImage) \union Pending(s),
           objects \ objects' \subseteq Pending(s) \union Doomed(s),
           lastKey' >= lastKey,
           \A k \in Pending(s)' : k \in Pending(s) \/ k > lastKey,
           Doomed(s)' \subseteq Doomed(s) \union RowKeys
    PROVE  ImagesInv'
<1> USE DEF ImagesInv
<1>1. RowKeys' \subseteq RowKeys \union Pending(s)
  BY DEF RowKeys, RestaurantRows
<1>2. lastKey \in Nat /\ lastKey' \in Nat /\ 1..lastKey \subseteq 1..lastKey'
  BY DEF KeysOK
<1>3. \A t \in Sessions \ {s} : Pending(t)' = Pending(t) /\ Doomed(t)' = Doomed(t)
  BY DEF Pending, Doomed, Held
<1>4. \A t \in Sessions \ {s} : UploadOK(t)'
  <2> SUFFICES ASSUME NEW t \in Sessions \ {s} PROVE UploadOK(t)'
    OBVIOUS
  <2>1. UploadOK(t) /\ Pending(t) \intersect (Pending(s) \union Doomed(s)) = {}
        /\ Pending(s) \intersect Doomed(t) = {}
    BY DEF KeysApart
  <2>2. Pending(t)' \subseteq 1..lastKey' /\ Doomed(t)' \subseteq 1..lastKey'
        /\ (Pending(t) \intersect RowKeys)' = {}
    BY <1>1, <1>2, <1>3, <2>1 DEF UploadOK
  <2>3. ASSUME job[t].op = "stored"
        PROVE  (job[t].keys \subseteq objects)' /\ OldIsApart(t)'
    <3>1. Pending(t) = job[t].keys /\ Doomed(t) = Held(job[t].old)
      BY <2>3 DEF Pending, Doomed
    <3>2. job[t].keys \subseteq objects'
      BY <2>1, <2>3, <3>1 DEF UploadOK
    <3>3. Held(job[t].old) \intersect Pending(s) = {} /\ OldIsApart(t)
      BY <2>1, <2>3, <3>1 DEF UploadOK
    <3>4. Held(job[t].old)' = Held(job[t].old)
      BY DEF Held
    <3> QED
      BY <3>2, <3>3, <3>4 DEF OldIsApart
  <2>4. ASSUME job[t].op = "sweep" PROVE (job[t].keys \intersect RowKeys)' = {}
    <3>1. Doomed(t) = job[t].keys
      BY <2>4 DEF Doomed
    <3> QED
      BY <1>1, <2>1, <2>4, <3>1 DEF UploadOK
  <2> QED
    BY <2>2, <2>3, <2>4 DEF UploadOK
<1>5. KeysApart'
  <2>1. \A t \in Sessions \ {s} : /\ Pending(t) \subseteq 1..lastKey /\ Doomed(t) \subseteq 1..lastKey
                                  /\ Pending(t) \intersect RowKeys = {}
    BY DEF UploadOK
  <2>2. Doomed(s) \subseteq 1..lastKey /\ Pending(s) \intersect RowKeys = {} /\ RowKeys \subseteq 1..lastKey
    BY DEF UploadOK, KeysOK
  <2>3. \A k \in 1..lastKey : ~(k > lastKey)
    BY <1>2
  <2>4. \A t \in Sessions \ {s} : /\ Pending(s)' \intersect Pending(t) = {}
                                  /\ Pending(s)' \intersect Doomed(t) = {}
                                  /\ Pending(t) \intersect Doomed(s)' = {}
    BY <2>1, <2>3 DEF KeysApart
  <2>5. Pending(s)' \intersect Doomed(s)' = {}
    BY <2>2, <2>3 DEF KeysApart
  <2>6. ASSUME NEW t \in Sessions, NEW u \in Sessions
        PROVE  /\ t # u => Pending(t)' \intersect Pending(u)' = {}
               /\ Pending(t)' \intersect Doomed(u)' = {}
    <3>1. CASE t = s /\ u = s
      BY <2>5, <3>1
    <3>2. CASE t = s /\ u # s
      BY <1>3, <2>4, <3>2
    <3>3. CASE t # s /\ u = s
      BY <1>3, <2>4, <3>3
    <3>4. CASE t # s /\ u # s
      BY <1>3, <3>4 DEF KeysApart
    <3> QED
      BY <3>1, <3>2, <3>3, <3>4
  <2> QED
    BY <2>6 DEF KeysApart
<1> QED
  BY <1>4, <1>5

(* A step that leaves the rows alone. *)
LEMMA RowsStay ==
    ASSUME ImagesInv, NEW s \in Sessions, UNCHANGED <<gallery, primaryKey, itemImage>>,
           NEW j, job' = [job EXCEPT ![s] = j]
    PROVE  /\ job' = [t \in Sessions |-> job'[t]] /\ job'[s] = j
           /\ \A t \in Sessions \ {s} : job'[t] = job[t]
           /\ GalleryKeys' = GalleryKeys /\ RowKeys' = RowKeys /\ RowsApart'
           /\ Held(primaryKey)' = Held(primaryKey) /\ Held(itemImage)' = Held(itemImage)
           /\ gallery' = [t \in ImageTypes |-> gallery'[t]]
<1>1. job' = [t \in Sessions |-> job'[t]] /\ job'[s] = j /\ \A t \in Sessions \ {s} : job'[t] = job[t]
  BY DEF ImagesInv
<1>2. GalleryKeys' = GalleryKeys /\ Held(primaryKey)' = Held(primaryKey) /\ Held(itemImage)' = Held(itemImage)
  BY DEF GalleryKeys, Held
<1>3. RowKeys' = RowKeys
  BY <1>2 DEF RowKeys, RestaurantRows
<1>4. RowsApart'
  BY <1>2 DEF ImagesInv, RowsApart
<1> QED
  BY <1>1, <1>2, <1>3, <1>4 DEF ImagesInv, KeysOK

(* A request ends, having removed at most its own objects. *)
LEMMA EndKeeps ==
    ASSUME ImagesInv, NEW s \in Sessions, UNCHANGED <<gallery, primaryKey, itemImage, lastKey>>,
           End(s), objects' \subseteq 1..lastKey,
           objects \ objects' \subseteq Pending(s) \union Doomed(s),
           RowKeys \subseteq objects'
    PROVE  ImagesInv'
<1>1. /\ job' = [t \in Sessions |-> job'[t]] /\ job'[s] = Idle
      /\ \A t \in Sessions \ {s} : job'[t] = job[t]
      /\ GalleryKeys' = GalleryKeys /\ RowKeys' = RowKeys /\ RowsApart'
      /\ Held(primaryKey)' = Held(primaryKey) /\ Held(itemImage)' = Held(itemImage)
      /\ gallery' = [t \in ImageTypes |-> gallery'[t]]
  BY RowsStay DEF End
<1>2. Pending(s)' = {} /\ Doomed(s)' = {}
  BY <1>1 DEF Pending, Doomed, Idle
<1>3. UploadOK(s)'
  BY <1>1, <1>2 DEF UploadOK, Idle
<1>4. KeysOK'
  BY <1>1 DEF ImagesInv, KeysOK
<1>5. lastKey' >= lastKey
  BY DEF ImagesInv, KeysOK
<1> QED
  BY <1>1, <1>2, <1>3, <1>4, <1>5, OwnKeysOnly

-----------------------------------------------------------------------------
(* The steps of a request. *)
LEMMA UploadKeeps ==
    ASSUME ImagesInv, NEW s \in Sessions, NEW kind, NEW n \in Nat, Upload(s, kind, n)
    PROVE  ImagesInv'
<1> USE DEF ImagesInv, KeysOK
<1> DEFINE j == [op |-> "upload", kind |-> kind, keys |-> lastKey + 1..lastKey + n, old |-> NoKey]
<1>1. /\ job' = [job EXCEPT ![s] = j] /\ lastKey' = lastKey + n /\ objects' = objects
      /\ UNCHANGED <<gallery, primaryKey, itemImage>>
  BY DEF Upload, Begin
<1>2. /\ job' = [t \in Sessions |-> job'[t]] /\ job'[s] = j
      /\ \A t \in Sessions \ {s} : job'[t] = job[t]
      /\ GalleryKeys' = GalleryKeys /\ RowKeys' = RowKeys /\ RowsApart'
      /\ Held(primaryKey)' = Held(primaryKey) /\ Held(itemImage)' = Held(itemImage)
      /\ gallery' = [t \in ImageTypes |-> gallery'[t]]
  BY <1>1, RowsStay
<1>3. lastKey' \in Nat /\ lastKey' >= lastKey /\ 1..lastKey \subseteq 1..lastKey'
  BY <1>1
<1>4. \A k \in j.keys : k \in 1..lastKey' /\ k > lastKey /\ k \notin 1..lastKey
  BY <1>1, <1>3
<1>5. Pending(s)' = j.keys /\ Doomed(s)' = {}
  BY <1>2 DEF Pending, Doomed
<1>6. UploadOK(s)'
  BY <1>2, <1>3, <1>4, <1>5 DEF UploadOK
<1>7. KeysOK'
  BY <1>1, <1>2, <1>3
<1> QED
  BY <1>1, <1>2, <1>3, <1>4, <1>5, <1>6, <1>7, OwnKeysOnly

LEMMA StoreKeeps ==
    ASSUME ImagesInv, NEW s \in Sessions, StoreObjects(s)
    PROVE  ImagesInv'
<1> USE DEF ImagesInv, KeysOK
<1> DEFINE old == Replacing(job[s].kind)
           j == [op |-> "stored", kind |-> job[s].kind, keys |-> job[s].keys, old |-> old]
<1>0. job[s].op = "upload" /\ UploadOK(s) /\ Pending(s) = job[s].keys
  BY DEF StoreObjects, Pending
<1>1. /\ job' = [job EXCEPT ![s] = j] /\ lastKey' = lastKey /\ objects' = objects \union job[s].keys
      /\ UNCHANGED <<gallery, primaryKey, itemImage>>
  BY DEF StoreObjects, Continue, Stored
<1>2. /\ job' = [t \in Sessions |-> job'[t]] /\ job'[s] = j
      /\ \A t \in Sessions \ {s} : job'[t] = job[t]
      /\ GalleryKeys' = GalleryKeys /\ RowKeys' = RowKeys /\ RowsApart'
      /\ Held(primaryKey)' = Held(primaryKey) /\ Held(itemImage)' = Held(itemImage)
      /\ gallery' = [t \in ImageTypes |-> gallery'[t]]
  BY <1>1, RowsStay
<1>3. Pending(s)' = job[s].keys /\ Doomed(s)' = Held(old)
  BY <1>2 DEF Pending, Doomed
<1>4. Held(old) \subseteq RowKeys /\ RowKeys \subseteq 1..lastKey
  BY DEF Replacing, Held, RowKeys, RestaurantRows
<1>5. /\ job[s].kind = "primary" => old = primaryKey
      /\ job[s].kind = "item" => old = itemImage
      /\ job[s].kind \notin {"primary", "item"} => old = NoKey
  BY DEF Replacing
<1>6. OldIsApart(s)'
  <2>1. /\ job[s].kind = "primary" => Held(old) \intersect (GalleryKeys \union Held(itemImage)) = {}
        /\ job[s].kind = "item" => Held(old) \intersect (GalleryKeys \union Held(primaryKey)) = {}
    BY <1>5 DEF RowsApart
  <2>2. job'[s].kind = job[s].kind /\ job'[s].old = old /\ Held(job'[s].old) = Held(old)
    BY <1>2
  <2> QED
    BY <1>2, <1>5, <2>1, <2>2 DEF OldIsApart, Held
<1>7. UploadOK(s)'
  <2>1. Pending(s) \subseteq 1..lastKey /\ Pending(s) \intersect RowKeys = {}
    BY <1>0 DEF UploadOK
  <2>2. job'[s].op = "stored" /\ job'[s].keys = job[s].keys
    BY <1>2
  <2> QED
    BY <1>0, <1>1, <1>2, <1>3, <1>4, <1>6, <2>1, <2>2 DEF UploadOK
<1>8. KeysOK'
  BY <1>0, <1>1, <1>2 DEF UploadOK
<1>9. lastKey' >= lastKey
  BY <1>1
<1> QED
  BY <1>0, <1>1, <1>2, <1>3, <1>4, <1>7, <1>8, <1>9, OwnKeysOnly

(* The row is written: the keys of the upload move into the rows. *)
LEMMA SaveKeeps ==
    ASSUME ImagesInv, NEW s \in Sessions, Save(s)
    PROVE  ImagesInv'
<1> USE DEF ImagesInv, KeysOK
<1> DEFINE old == job[s].old
           keys == job[s].keys
           kind == job[s].kind
<1>0. /\ job[s].op = "stored" /\ UploadOK(s) /\ Pending(s) = keys /\ Doomed(s) = Held(old)
      /\ OldIsApart(s) /\ keys \subseteq objects /\ keys \intersect RowKeys = {}
      /\ keys \subseteq 1..lastKey /\ Held(old) \subseteq 1..lastKey
      /\ keys \intersect Held(old) = {}
  BY DEF Save, Pending, Doomed, UploadOK, KeysApart
<1>1. PICK k \in keys : /\ primaryKey' = IF kind = "primary" THEN k ELSE primaryKey
                        /\ itemImage' = IF kind = "item" THEN k ELSE itemImage
  BY DEF Save
<1>2. /\ gallery' = [t \in ImageTypes |-> gallery[t] \union IF t = kind THEN keys ELSE {}]
      /\ objects' = objects /\ lastKey' = lastKey
      /\ IF old = NoKey THEN End(s) ELSE Continue(s, [op |-> "sweep", keys |-> {old}])
  BY DEF Save
<1>3. /\ GalleryKeys' \subseteq GalleryKeys \union keys
      /\ kind \in {"primary", "item"} => GalleryKeys' = GalleryKeys
  <2>1. \A t \in ImageTypes : gallery'[t] \subseteq gallery[t] \union keys
    BY <1>2
  <2>2. kind \in {"primary", "item"} => \A t \in ImageTypes : gallery'[t] = gallery[t]
    BY <1>2 DEF ImageTypes
  <2> QED
    BY <2>1, <2>2 DEF GalleryKeys
<1>4. /\ Held(primaryKey)' \subseteq Held(primaryKey) \union keys
      /\ Held(itemImage)' \subseteq Held(itemImage) \union keys
      /\ kind # "primary" => Held(primaryKey)' = Held(primaryKey)
      /\ kind # "item" => Held(itemImage)' = Held(itemImage)
      /\ kind = "primary" => Held(primaryKey)' \subseteq keys
      /\ kind = "item" => Held(itemImage)' \subseteq keys
  BY <1>1 DEF Held
<1>5. RowKeys = GalleryKeys \union Held(primaryKey) \union Held(itemImage)
      /\ RowKeys' = GalleryKeys' \union Held(primaryKey)' \union Held(itemImage)'
  BY DEF RowKeys, RestaurantRows
<1>6. RowsApart'
  <2>1. CASE kind = "primary"
    BY <1>0, <1>3, <1>4, <1>5, <2>1 DEF RowsApart
  <2>2. CASE kind = "item"
    BY <1>0, <1>3, <1>4, <1>5, <2>2 DEF RowsApart
  <2>3. CASE kind \notin {"primary", "item"}
    BY <1>0, <1>3, <1>4, <1>5, <2>3 DEF RowsApart
  <2> QED
    BY <2>1, <2>2, <2>3
<1>7. KeysOK'
  BY <1>0, <1>2, <1>3, <1>4, <1>5
<1>8. /\ job' = [t \in Sessions |-> job'[t]] /\ \A t \in Sessions \ {s} : job'[t] = job[t]
      /\ job'[s] = IF old = NoKey THEN Idle ELSE [op |-> "sweep", keys |-> {old}]
  BY <1>2 DEF End, Continue
<1>9. Pending(s)' = {} /\ Doomed(s)' = Held(old)
  BY <1>8 DEF Pending, Doomed, Idle, Held
<1>10. Held(old) \intersect RowKeys' = {}
  <2>1. CASE kind = "primary"
    BY <1>0, <1>3, <1>4, <1>5, <2>1 DEF OldIsApart
  <2>2. CASE kind = "item"
    BY <1>0, <1>3, <1>4, <1>5, <2>2 DEF OldIsApart
  <2>3. CASE kind \notin {"primary", "item"}
    BY <1>0, <2>3 DEF OldIsApart, Held
  <2> QED
    BY <2>1, <2>2, <2>3
<1>11. UploadOK(s)'
  BY <1>0, <1>2, <1>8, <1>9, <1>10 DEF UploadOK, Idle, Held
<1>12. lastKey' >= lastKey
  BY <1>2
<1> QED
  BY <1>0, <1>2, <1>3, <1>4, <1>6, <1>7, <1>8, <1>9, <1>11, <1>12, OwnKeysOnly

(* A write fails, the worker dies, or what is doomed is removed. *)
LEMMA FailureKeeps ==
    ASSUME ImagesInv, NEW s \in Sessions, PutFails(s) \/ SaveFails(s) \/ _cleanup_keys(s) \/ Crash(s)
    PROVE  ImagesInv'
<1> USE DEF ImagesInv, KeysOK
<1>1. UNCHANGED <<gallery, primaryKey, itemImage, lastKey>> /\ End(s) /\ UploadOK(s)
  BY DEF PutFails, SaveFails, _cleanup_keys, Crash, imageVars
<1>2. CASE PutFails(s)
  <2>1. job[s].op = "upload" /\ Pending(s) = job[s].keys
    BY <1>2 DEF PutFails, Pending
  <2>2. objects' \subseteq objects \union Pending(s) /\ objects \subseteq objects'
    BY <1>2, <2>1 DEF PutFails
  <2> QED
    BY <1>1, <2>2, EndKeeps DEF UploadOK
<1>3. CASE SaveFails(s)
  <2>1. job[s].op = "stored" /\ Pending(s) = job[s].keys
    BY <1>3 DEF SaveFails, Pending
  <2>2. objects' \subseteq objects /\ objects \ objects' \subseteq Pending(s)
    BY <1>3, <2>1 DEF SaveFails
  <2> QED
    BY <1>1, <2>2, EndKeeps DEF UploadOK
<1>4. CASE _cleanup_keys(s)
  <2>1. job[s].op = "sweep" /\ Doomed(s) = job[s].keys /\ Doomed(s) \intersect RowKeys = {}
    BY <1>1, <1>4 DEF _cleanup_keys, Doomed, UploadOK
  <2>2. objects' \subseteq objects /\ objects \ objects' \subseteq Doomed(s)
    BY <1>4, <2>1 DEF _cleanup_keys
  <2> QED
    BY <1>1, <2>1, <2>2, EndKeeps
<1>5. CASE Crash(s)
  BY <1>1, <1>5, EndKeeps DEF Crash, imageVars
<1> QED
  BY <1>2, <1>3, <1>4, <1>5

LEMMA DeletionKeeps ==
    ASSUME ImagesInv, NEW s \in Sessions, DeleteShopRead(s) \/ delete_restaurant_images(s)
    PROVE  ImagesInv'
<1> USE DEF ImagesInv, KeysOK
<1>1. CASE DeleteShopRead(s)
  <2> DEFINE j == [op |-> "delete", keys |-> RestaurantRows]
  <2>1. job' = [job EXCEPT ![s] = j] /\ UNCHANGED <<objects, lastKey, gallery, primaryKey, itemImage>>
    BY <1>1 DEF DeleteShopRead, Begin, imageVars
  <2>2. /\ job' = [t \in Sessions |-> job'[t]] /\ job'[s] = j
        /\ \A t \in Sessions \ {s} : job'[t] = job[t]
        /\ GalleryKeys' = GalleryKeys /\ RowKeys' = RowKeys /\ RowsApart'
        /\ Held(primaryKey)' = Held(primaryKey) /\ Held(itemImage)' = Held(itemImage)
        /\ gallery' = [t \in ImageTypes |-> gallery'[t]]
    BY <2>1, RowsStay
  <2>3. Pending(s)' = {} /\ Doomed(s)' = RestaurantRows /\ RestaurantRows \subseteq RowKeys
    BY <2>2 DEF Pending, Doomed, RowKeys
  <2>4. job'[s].op = "delete"
    BY <2>2
  <2>5. UploadOK(s)'
    BY <2>1, <2>3, <2>4 DEF UploadOK
  <2>6. KeysOK' /\ lastKey' >= lastKey
    BY <2>1, <2>2
  <2> QED
    BY <2>1, <2>2, <2>3, <2>5, <2>6, OwnKeysOnly
<1>2. CASE delete_restaurant_images(s)
  <2> DEFINE keys == job[s].keys
  <2>1. /\ job[s].op = "delete" /\ job' = [job EXCEPT ![s] = [op |-> "sweep", keys |-> keys]]
        /\ objects' = objects /\ lastKey' = lastKey
        /\ gallery' = [t \in ImageTypes |-> {}] /\ primaryKey' = NoKey /\ itemImage' = NoKey
    BY <1>2 DEF delete_restaurant_images, Continue
  <2>2. GalleryKeys' = {} /\ Held(primaryKey)' = {} /\ Held(itemImage)' = {}
    BY <2>1 DEF GalleryKeys, Held
  <2>3. RowKeys' = {}
    BY <2>2 DEF RowKeys, RestaurantRows
  <2>4. /\ job' = [t \in Sessions |-> job'[t]] /\ \A t \in Sessions \ {s} : job'[t] = job[t]
        /\ job'[s] = [op |-> "sweep", keys |-> keys]
    BY <2>1
  <2>5. Doomed(s) = keys /\ Doomed(s)' = keys /\ Pending(s)' = {}
    BY <2>1, <2>4 DEF Doomed, Pending
  <2>6. UploadOK(s)'
    BY <2>1, <2>3, <2>4, <2>5 DEF UploadOK
  <2>7. KeysOK' /\ RowsApart' /\ lastKey' >= lastKey
    BY <2>1, <2>2, <2>3 DEF RowsApart
  <2> QED
    BY <2>1, <2>2, <2>4, <2>5, <2>6, <2>7, OwnKeysOnly
<1> QED
  BY <1>1, <1>2

(* The item's row goes without any request of this part. *)
LEMMA ItemGoesKeeps ==
    ASSUME ImagesInv, ItemGoes
    PROVE  ImagesInv'
<1> USE DEF ImagesInv, KeysOK
<1>1. /\ itemImage' = NoKey /\ job' = job /\ objects' = objects /\ lastKey' = lastKey
      /\ gallery' = gallery /\ primaryKey' = primaryKey
  BY DEF ItemGoes
<1>2. GalleryKeys' = GalleryKeys /\ Held(primaryKey)' = Held(primaryKey) /\ Held(itemImage)' = {}
  BY <1>1 DEF GalleryKeys, Held
<1>3. RowKeys' \subseteq RowKeys
  BY <1>2 DEF RowKeys, RestaurantRows
<1>4. \A s \in Sessions : Pending(s)' = Pending(s) /\ Doomed(s)' = Doomed(s)
  BY <1>1 DEF Pending, Doomed, Held
<1>5. \A s \in Sessions : UploadOK(s)'
  <2> SUFFICES ASSUME NEW s \in Sessions PROVE UploadOK(s)'
    OBVIOUS
  <2>1. UploadOK(s)
    OBVIOUS
  <2>2. OldIsApart(s) => OldIsApart(s)'
    BY <1>1, <1>2 DEF OldIsApart, Held
  <2> QED
    BY <1>1, <1>3, <1>4, <2>1, <2>2 DEF UploadOK
<1>6. KeysApart'
  BY <1>4 DEF KeysApart
<1>7. RowsApart'
  BY <1>2 DEF RowsApart
<1> QED
  BY <1>1, <1>3, <1>5, <1>6, <1>7

LEMMA InitImages == ImagesInit => ImagesInv
<1> SUFFICES ASSUME ImagesInit PROVE ImagesInv
  OBVIOUS
<1>1. \A s \in Sessions : job[s] = Idle
  BY DEF ImagesInit
<1>2. GalleryKeys = {} /\ Held(primaryKey) = {} /\ Held(itemImage) = {}
  BY DEF ImagesInit, NoImages, GalleryKeys, Held
<1>3. RowKeys = {}
  BY <1>2 DEF RowKeys, RestaurantRows
<1>4. \A s \in Sessions : Pending(s) = {} /\ Doomed(s) = {}
  BY <1>1 DEF Pending, Doomed, Idle
<1>5. \A s \in Sessions : UploadOK(s)
  BY <1>1, <1>4 DEF UploadOK, Idle
<1>6. KeysOK /\ RowsApart /\ KeysApart
  BY <1>2, <1>3, <1>4 DEF ImagesInit, NoImages, KeysOK, RowsApart, KeysApart
<1> QED
  BY <1>5, <1>6 DEF ImagesInit, ImagesInv

LEMMA NextKeepsImages == ImagesInv /\ [ImagesNext]_<<job, imageVars>> => ImagesInv'
<1> SUFFICES ASSUME ImagesInv, [ImagesNext]_<<job, imageVars>> PROVE ImagesInv'
  OBVIOUS
<1>1. ASSUME NEW s \in Sessions, ImageStep(s) PROVE ImagesInv'
  <2>1. CASE \E n \in 1..MaxFiles :
                \/ upload_restaurant_images(s, n)
                \/ upload_restaurant_food_images(s, n)
                \/ upload_restaurant_dining_menu_images(s, n)
    BY <2>1, UploadKeeps, ImagesAssumption
       DEF upload_restaurant_images, upload_restaurant_food_images, upload_restaurant_dining_menu_images
  <2>2. CASE upload_primary_image_for_restaurant(s) \/ upload_image_for_menu_item(s)
    BY <2>2, UploadKeeps DEF upload_primary_image_for_restaurant, upload_image_for_menu_item
  <2> QED
    BY <1>1, <2>1, <2>2, StoreKeeps, SaveKeeps, FailureKeeps, DeletionKeeps DEF ImageStep
<1>2. CASE ItemGoes
  BY <1>2, ItemGoesKeeps
<1>3. CASE UNCHANGED <<job, imageVars>>
  <2>1. /\ job' = job /\ objects' = objects /\ lastKey' = lastKey
        /\ gallery' = gallery /\ primaryKey' = primaryKey /\ itemImage' = itemImage
    BY <1>3 DEF imageVars
  <2> QED
    BY <2>1 DEF ImagesInv, KeysOK, RowsApart, KeysApart, UploadOK, OldIsApart, Pending, Doomed,
       RowKeys, RestaurantRows, GalleryKeys, Held
<1> QED
  BY <1>1, <1>2, <1>3 DEF ImagesNext

(* For any number of uploads, failures, crashes and deletions: a row names *)
(* an object that is in the storage (upload_primary_image_for_restaurant,  *)
(* _cleanup_keys and their siblings in restaurants/router.py).             *)
THEOREM NoBrokenPicture == ImagesSpec => []RowsHaveObjects
<1>1. ImagesInv => RowsHaveObjects
  BY DEF ImagesInv, KeysOK, RowsHaveObjects
<1> QED
  BY InitImages, NextKeepsImages, <1>1, PTL DEF ImagesSpec

(* What the rows name has been handed out, and the owners only go. *)
LEMMA PicturesFit == ImagesInv /\ owners \subseteq {"restaurant", "item"} => ImagesTypeOK
<1> SUFFICES ASSUME ImagesInv, owners \subseteq {"restaurant", "item"} PROVE ImagesTypeOK
  OBVIOUS
<1>1. RowKeys \subseteq 1..lastKey /\ lastKey \in Nat
  BY DEF ImagesInv, KeysOK
<1>2. /\ \A t \in ImageTypes : gallery[t] \subseteq 1..lastKey
      /\ Held(primaryKey) \subseteq 1..lastKey /\ Held(itemImage) \subseteq 1..lastKey
  BY <1>1 DEF RowKeys, RestaurantRows, GalleryKeys
<1>3. {primaryKey, itemImage} \subseteq 0..lastKey
  BY <1>1, <1>2 DEF Held, NoKey
<1> QED
  BY <1>2, <1>3 DEF ImagesTypeOK, ImagesInv, KeysOK

LEMMA OwnersShrink == [ImagesNext]_<<job, imageVars>> => owners' \subseteq owners
BY DEF ImagesNext, ImageStep, upload_restaurant_images, upload_restaurant_food_images,
   upload_restaurant_dining_menu_images, upload_primary_image_for_restaurant, upload_image_for_menu_item,
   Upload, StoreObjects, PutFails, Save, SaveFails, _cleanup_keys, DeleteShopRead,
   delete_restaurant_images, ItemGoes, Crash, imageVars

-----------------------------------------------------------------------------
(* The restaurant.  Every stale write of the status leaves it at a stage   *)
(* the restaurant has reached; a request that holds the row loses it when  *)
(* the row is deleted, and what it saw is otherwise never taken back.      *)
RowRequests == {"draft", "documents", "activate", "pause", "resume", "closure", "delete",
                "hours", "dayHours", "newItem"}

(* What a request has seen, with a and m the flags of the present. *)
Saw(j, a, m) ==
    /\ j.op \in RowRequests => "r" \in DOMAIN j /\ j.r \in Restaurants
    /\ j.op = "activate" => m[j.r]
    /\ j.op \in {"pause", "closure"} => a[j.r]
    /\ j.op \in {"hours", "dayHours"} => j.new # {}

OwnerFunctions ==
    /\ job = [s \in Sessions |-> job[s]]
    /\ stage = [r \in Restaurants |-> stage[r]]
    /\ activated = [r \in Restaurants |-> activated[r]]
    /\ paused = [r \in Restaurants |-> paused[r]]
    /\ closures = [c \in Closures |-> closures[c]]
    /\ hours = [r \in Restaurants |-> hours[r]]
    /\ menuMade = [r \in Restaurants |-> menuMade[r]]
    /\ timed = [r \in Restaurants |-> timed[r]]

StageReached ==
    \A r \in Restaurants : /\ stage[r] \in {"MENU_ADDED", "ACTIVE"} => menuMade[r]
                           /\ stage[r] = "ACTIVE" => activated[r]

ClosedWasActive == \A c \in Closures, r \in Restaurants : closures[c] = r => activated[r]

OwnerInv ==
    /\ OwnerFunctions /\ StageReached /\ ClosedWasActive
    /\ \A r \in Restaurants : (activated[r] => menuMade[r]) /\ (paused[r] => activated[r])
    /\ ScheduleStaysComplete
    /\ \A s \in Sessions : Saw(job[s], activated, menuMade)

(* A step that leaves the restaurants alone. *)
LEMMA RestaurantsStay ==
    ASSUME OwnerInv, UNCHANGED restaurantVars, job' = [t \in Sessions |-> job'[t]],
           \A t \in Sessions : job'[t] = job[t] \/ Saw(job'[t], activated, menuMade)
    PROVE  OwnerInv'
BY DEF OwnerInv, restaurantVars, OwnerFunctions, StageReached, ClosedWasActive, ScheduleStaysComplete

(* A request that arrives, goes on or ends. *)
LEMMA OneSession ==
    ASSUME OwnerInv, NEW s \in Sessions, NEW j, job' = [job EXCEPT ![s] = j],
           Saw(j, activated, menuMade), UNCHANGED restaurantVars
    PROVE  OwnerInv'
<1>1. job' = [t \in Sessions |-> job'[t]] /\ \A t \in Sessions : job'[t] = job[t] \/ job'[t] = j
  BY DEF OwnerInv, OwnerFunctions
<1> QED
  BY <1>1, RestaurantsStay

LEMMA IdleSaw == \A a, m : Saw(Idle, a, m) /\ Saw([op |-> "gone"], a, m)
BY DEF Saw, Idle, RowRequests

LEMMA EndStays ==
    ASSUME OwnerInv, NEW s \in Sessions, End(s), UNCHANGED restaurantVars
    PROVE  OwnerInv'
BY OneSession, IdleSaw DEF End

(* A request of some restaurant has read its rows. *)
LEMMA RequestStays ==
    ASSUME OwnerInv, NEW s \in Sessions, NEW r \in Restaurants, RestaurantRequest(s, r)
    PROVE  OwnerInv'
<1> DEFINE j(op) == [op |-> op, r |-> r, stage |-> stage[r]]
<1>1. ASSUME NEW op, Load(s, op, r), op = "activate" => menuMade[r],
             op \in {"pause", "closure"} => activated[r], op \notin {"hours", "dayHours"}
      PROVE  OwnerInv'
  <2>1. Saw([op |-> op, r |-> r, stage |-> stage[r]], activated, menuMade)
    BY <1>1 DEF Saw
  <2> QED
    BY <1>1, <2>1, OneSession DEF Load, Begin
<1>2. CASE DraftRead(s, r)
  <2>1. Saw([op |-> "draft", r |-> r], activated, menuMade)
    BY DEF Saw
  <2> QED
    BY <1>2, <2>1, OneSession DEF DraftRead, Begin
<1>3. CASE DocumentsRead(s, r) \/ ResumeRead(s, r) \/ DeleteRead(s, r)
  BY <1>1, <1>3 DEF DocumentsRead, ResumeRead, DeleteRead
<1>4. CASE ActivateRead(s, r)
  BY <1>1, <1>4 DEF ActivateRead, OwnerInv, StageReached
<1>5. CASE PauseRead(s, r) \/ ClosureRead(s, r)
  BY <1>1, <1>5 DEF PauseRead, ClosureRead, OwnerInv, StageReached
<1>6. ASSUME NEW h \in HoursUpload, HoursRead(s, r, h) PROVE OwnerInv'
  <2>1. Saw([op |-> "hours", r |-> r, stage |-> stage[r], old |-> hours[r], new |-> h], activated, menuMade)
    BY DEF Saw, HoursUpload
  <2> QED
    BY <1>6, <2>1, OneSession DEF HoursRead, Begin
<1>7. ASSUME NEW h \in HoursUpload, DayHoursRead(s, r, h) PROVE OwnerInv'
  <2>1. Saw([op |-> "dayHours", r |-> r, old |-> hours[r], new |-> h], activated, menuMade)
    BY DEF Saw, HoursUpload
  <2> QED
    BY <1>7, <2>1, OneSession DEF DayHoursRead, Begin
<1>8. CASE ReopenRead(s, r)
  <2>1. PICK c \in ActiveClosures(r) :
            Begin(s, [op |-> "reopen", r |-> r, closure |-> c]) /\ UNCHANGED restaurantVars
    BY <1>8 DEF ReopenRead
  <2>2. Saw([op |-> "reopen", r |-> r, closure |-> c], activated, menuMade)
    BY DEF Saw, RowRequests
  <2> QED
    BY <2>1, <2>2, OneSession DEF Begin
<1> QED
  BY <1>2, <1>3, <1>4, <1>5, <1>6, <1>7, <1>8 DEF RestaurantRequest

(* A commit that ends: flags are set, and the status only reaches stages   *)
(* that the flags allow.                                                   *)
LEMMA CommitStays ==
    ASSUME OwnerInv, NEW s \in Sessions, End(s), OwnerFunctions', StageReached', ClosedWasActive',
           \A r \in Restaurants : /\ activated[r] => activated'[r]
                                  /\ menuMade[r] => menuMade'[r]
                                  /\ activated'[r] => menuMade'[r]
                                  /\ paused'[r] => activated'[r]
                                  /\ timed'[r] => hours'[r] # {}
    PROVE  OwnerInv'
<1>1. \A t \in Sessions : job'[t] = job[t] \/ job'[t] = Idle
  BY DEF OwnerInv, OwnerFunctions, End
<1>2. \A t \in Sessions : Saw(job[t], activated', menuMade')
  BY DEF OwnerInv, Saw, RowRequests
<1>3. \A t \in Sessions : Saw(job'[t], activated', menuMade')
  BY <1>1, <1>2, IdleSaw
<1> QED
  BY <1>3 DEF OwnerInv, ScheduleStaysComplete

LEMMA RestaurantStepStays ==
    ASSUME OwnerInv, NEW s \in Sessions, RestaurantStep(s)
    PROVE  OwnerInv'
<1> DEFINE r == job[s].r
<1>0. Saw(job[s], activated, menuMade)
  BY DEF OwnerInv
<1>1. CASE DraftExists(s) \/ HoursClash(s) \/ RowGone(s)
  BY <1>1, EndStays DEF DraftExists, HoursClash, RowGone
<1>2. CASE create_restaurant_draft(s) \/ upload_restaurant_documents(s)
  <2>1. /\ r \in Restaurants /\ End(s) /\ UNCHANGED <<activated, paused, closures, hours, menuMade, timed>>
        /\ \E new \in {stage[r], "DRAFT", "DOCUMENTS_ADDED"} : stage' = [stage EXCEPT ![r] = new]
    BY <1>0, <1>2 DEF create_restaurant_draft, upload_restaurant_documents, Saw, RowRequests, Flushed
  <2>2. OwnerFunctions' /\ StageReached' /\ ClosedWasActive'
    BY <2>1 DEF OwnerInv, OwnerFunctions, StageReached, ClosedWasActive, End
  <2> QED
    BY <2>1, <2>2, CommitStays DEF OwnerInv, ScheduleStaysComplete
<1>3. CASE activate_restaurant(s)
  <2>1. /\ r \in Restaurants /\ menuMade[r] /\ End(s) /\ UNCHANGED <<paused, closures, hours, menuMade, timed>>
        /\ stage' = [stage EXCEPT ![r] = "ACTIVE"] /\ activated' = [activated EXCEPT ![r] = TRUE]
    BY <1>0, <1>3 DEF activate_restaurant, Saw, RowRequests
  <2>2. OwnerFunctions' /\ StageReached' /\ ClosedWasActive'
    BY <2>1 DEF OwnerInv, OwnerFunctions, StageReached, ClosedWasActive, End
  <2>3. \A x \in Restaurants : activated'[x] = IF x = r THEN TRUE ELSE activated[x]
    BY <2>1 DEF OwnerInv, OwnerFunctions
  <2> QED
    BY <2>1, <2>2, <2>3, CommitStays DEF OwnerInv, ScheduleStaysComplete
<1>4. CASE create_restaurant_hours(s) \/ update_day_hours(s)
  <2>1. /\ r \in Restaurants /\ job[s].new # {} /\ End(s) /\ UNCHANGED <<activated, paused, closures, menuMade>>
        /\ hours' = [hours EXCEPT ![r] = Replaced(job[s])] /\ timed' = [timed EXCEPT ![r] = TRUE]
        /\ \E new \in {stage[r], "TIMINGS_ADDED"} : stage' = [stage EXCEPT ![r] = new]
    <3>1. CASE create_restaurant_hours(s)
      BY <1>0, <3>1 DEF create_restaurant_hours, Saw, RowRequests, Flushed
    <3>2. CASE update_day_hours(s)
      <4>1. stage' = [stage EXCEPT ![r] = stage[r]]
        BY <3>2 DEF update_day_hours, OwnerInv, OwnerFunctions
      <4> QED
        BY <1>0, <3>2, <4>1 DEF update_day_hours, Saw, RowRequests
    <3> QED
      BY <1>4, <3>1, <3>2
  <2>2. OwnerFunctions' /\ StageReached' /\ ClosedWasActive'
    BY <2>1 DEF OwnerInv, OwnerFunctions, StageReached, ClosedWasActive, End
  <2>3. Replaced(job[s]) # {}
    BY <2>1 DEF Replaced
  <2>4. \A x \in Restaurants : timed'[x] => hours'[x] # {}
    BY <2>1, <2>3 DEF OwnerInv, OwnerFunctions, ScheduleStaysComplete
  <2> QED
    BY <2>1, <2>2, <2>4, CommitStays DEF OwnerInv
<1>5. CASE pause_restaurant(s) \/ resume_restaurant(s)
  <2>1. /\ r \in Restaurants /\ End(s) /\ UNCHANGED <<stage, activated, closures, hours, menuMade, timed>>
        /\ \E p \in BOOLEAN : (p => activated[r]) /\ paused' = [paused EXCEPT ![r] = p]
    BY <1>0, <1>5 DEF pause_restaurant, resume_restaurant, Saw, RowRequests
  <2>2. OwnerFunctions' /\ StageReached' /\ ClosedWasActive'
    BY <2>1 DEF OwnerInv, OwnerFunctions, StageReached, ClosedWasActive, End
  <2>3. \A x \in Restaurants : paused'[x] => activated[x]
    BY <2>1 DEF OwnerInv, OwnerFunctions
  <2> QED
    BY <2>1, <2>2, <2>3, CommitStays DEF OwnerInv, ScheduleStaysComplete
<1>6. CASE create_closure(s) \/ delete_closure(s)
  <2>1. /\ End(s) /\ UNCHANGED <<stage, activated, paused, hours, menuMade, timed>>
        /\ \E c, v : /\ closures' = [closures EXCEPT ![c] = v]
                     /\ v \in Restaurants => activated[v]
    BY <1>0, <1>6, RestaurantsAssumption DEF create_closure, delete_closure, Saw, RowRequests
  <2>2. OwnerFunctions' /\ StageReached' /\ ClosedWasActive'
    BY <2>1 DEF OwnerInv, OwnerFunctions, StageReached, ClosedWasActive, End
  <2> QED
    BY <2>1, <2>2, CommitStays DEF OwnerInv, ScheduleStaysComplete
<1>7. CASE delete_restaurant(s)
  <2>1. /\ r \in Restaurants
        /\ stage' = [stage EXCEPT ![r] = "NONE"]
        /\ activated' = [activated EXCEPT ![r] = FALSE]
        /\ paused' = [paused EXCEPT ![r] = FALSE]
        /\ closures' = [c \in Closures |-> IF closures[c] = r THEN "over" ELSE closures[c]]
        /\ hours' = [hours EXCEPT ![r] = {}]
        /\ menuMade' = [menuMade EXCEPT ![r] = FALSE]
        /\ timed' = [timed EXCEPT ![r] = FALSE]
        /\ job' = [t \in Sessions |-> IF t = s THEN Idle
                                      ELSE IF Holds(t, r) THEN [op |-> "gone"] ELSE job[t]]
    BY <1>0, <1>7 DEF delete_restaurant, Saw, RowRequests
  <2>2. OwnerFunctions'
    BY <2>1 DEF OwnerInv, OwnerFunctions
  <2>3. \A x \in Restaurants \ {r} :
            /\ stage'[x] = stage[x] /\ activated'[x] = activated[x] /\ paused'[x] = paused[x]
            /\ hours'[x] = hours[x] /\ menuMade'[x] = menuMade[x] /\ timed'[x] = timed[x]
    BY <2>1 DEF OwnerInv, OwnerFunctions
  <2>4. /\ stage'[r] = "NONE" /\ activated'[r] = FALSE /\ paused'[r] = FALSE
        /\ menuMade'[r] = FALSE /\ timed'[r] = FALSE
    BY <2>1 DEF OwnerInv, OwnerFunctions
  <2>5. StageReached' /\ ScheduleStaysComplete'
        /\ \A x \in Restaurants : (activated'[x] => menuMade'[x]) /\ (paused'[x] => activated'[x])
    BY <2>3, <2>4 DEF OwnerInv, StageReached, ScheduleStaysComplete
  <2>6. ClosedWasActive'
    <3> SUFFICES ASSUME NEW c \in Closures, NEW x \in Restaurants, closures'[c] = x
                 PROVE  activated'[x]
      BY DEF ClosedWasActive
    <3>1. closures[c] = x /\ x # r
      BY <2>1, RestaurantsAssumption
    <3> QED
      BY <2>3, <3>1 DEF OwnerInv, ClosedWasActive
  <2>7. \A t \in Sessions : Saw(job'[t], activated', menuMade')
    <3> SUFFICES ASSUME NEW t \in Sessions PROVE Saw(job'[t], activated', menuMade')
      OBVIOUS
    <3>1. job'[t] \in {Idle, [op |-> "gone"]} \/ (job'[t] = job[t] /\ ~Holds(t, r))
      BY <2>1
    <3>2. CASE job'[t] = job[t] /\ ~Holds(t, r)
      <4>1. "r" \notin DOMAIN job[t] \/ job[t].op = "draft" \/ job[t].r # r
        BY <3>2 DEF Holds
      <4> QED
        BY <2>3, <3>2, <4>1 DEF OwnerInv, Saw, RowRequests
    <3> QED
      BY <3>1, <3>2, IdleSaw
  <2> QED
    BY <2>2, <2>5, <2>6, <2>7 DEF OwnerInv
<1> QED
  BY <1>1, <1>2, <1>3, <1>4, <1>5, <1>6, <1>7 DEF RestaurantStep

-----------------------------------------------------------------------------
(* The menu reads the restaurant and, but for a new item, leaves it alone. *)
LEMMA MenuStays ==
    ASSUME OwnerInv, NEW s \in Sessions, NEW j, j.op \notin RowRequests, job' = [job EXCEPT ![s] = j],
           UNCHANGED restaurantVars
    PROVE  OwnerInv'
BY OneSession DEF Saw, RowRequests

LEMMA OrphansStay ==
    ASSUME OwnerInv, NEW s \in Sessions, UNCHANGED restaurantVars,
           job' = [t \in Sessions |-> job'[t]],
           \A t \in Sessions : job'[t] \in {job[t], Idle, [op |-> "gone"]}
    PROVE  OwnerInv'
BY RestaurantsStay, IdleSaw

LEMMA MenuRequestStays ==
    ASSUME OwnerInv, NEW s \in Sessions,
           \/ \E c \in Categories : CategoryRequest(s, c)
           \/ \E i \in Items : \/ ItemRequest(s, i)
                               \/ \E p \in Prices, d \in Prices \cup {None} : UpdateRead(s, i, p, d)
    PROVE  OwnerInv'
<1> USE DEF menuVars, RowRequests
<1>1. ASSUME NEW c \in Categories, CategoryRequest(s, c) PROVE OwnerInv'
  <2>1. CASE CategoryRead(s, c)
    <3>1. \E r, n : Begin(s, [op |-> "newCategory", r |-> r, cat |-> c, pos |-> n])
      BY <2>1 DEF CategoryRead
    <3>2. PICK r, n : job' = [job EXCEPT ![s] = [op |-> "newCategory", r |-> r, cat |-> c, pos |-> n]]
      BY <3>1 DEF Begin
    <3> QED
      BY <2>1, <3>2, MenuStays DEF CategoryRead
  <2>2. CASE ReorderCategoriesRead(s, RestaurantOf[c])
    <3>1. PICK r, rows, o, n :
              job' = [job EXCEPT ![s] = [op |-> "sortCategories", r |-> r, rows |-> rows, order |-> o, pos |-> n]]
      BY <2>2 DEF ReorderCategoriesRead, Begin
    <3> QED
      BY <2>2, <3>1, MenuStays DEF ReorderCategoriesRead
  <2>3. ASSUME NEW op \in DOMAIN CategoryOp, CategoryLoad(s, op, c) PROVE OwnerInv'
    <3>1. op \in {"archiveCat", "unarchiveCat", "deleteCat"}
      BY DEF CategoryOp
    <3>2. PICK r : job' = [job EXCEPT ![s] = [op |-> op, r |-> r, cat |-> c]]
      BY <2>3 DEF CategoryLoad, Begin
    <3> QED
      BY <2>3, <3>1, <3>2, MenuStays DEF CategoryLoad
  <2> QED
    BY <1>1, <2>1, <2>2, <2>3 DEF CategoryRequest
<1>2. ASSUME NEW i \in Items, NEW op, NEW more, ItemLoad(s, op, i, more),
             op \in {"update", "toggle", "archive", "unarchive", "deleteItem"}
      PROVE  OwnerInv'
  <2>1. PICK r, a, p, d : job' = [job EXCEPT ![s] =
            [op |-> op, r |-> r, item |-> i, available |-> a, price |-> p, discounted |-> d, new |-> more]]
    BY <1>2 DEF ItemLoad, Begin
  <2> QED
    BY <1>2, <2>1, MenuStays DEF ItemLoad
<1>3. ASSUME NEW i \in Items, ItemRequest(s, i) PROVE OwnerInv'
  <2>1. ASSUME NEW a \in BOOLEAN, ItemRead(s, i, Highest(Prices), None, a) PROVE OwnerInv'
    <3>1. RestaurantOf[HomeOf[i]] \in Restaurants
      BY MenuAssumption
    <3>2. PICK x, p, d, n : job' = [job EXCEPT ![s] =
              [op |-> "newItem", r |-> RestaurantOf[HomeOf[i]], cat |-> HomeOf[i], item |-> i,
               stage |-> x, price |-> p, discounted |-> d, available |-> a, pos |-> n]]
      BY <2>1 DEF ItemRead, Begin
    <3>3. UNCHANGED restaurantVars
      BY <2>1 DEF ItemRead
    <3> QED
      BY <3>1, <3>2, <3>3, OneSession DEF Saw
  <2>2. CASE ReorderItemsRead(s, HomeOf[i])
    <3> DEFINE c == HomeOf[i]
    <3>1. PICK o \in Orders(ItemsOf(c)) :
              job' = [job EXCEPT ![s] = [op |-> "sortItems", r |-> RestaurantOf[c], cat |-> c,
                                         rows |-> ItemsOf(c), order |-> o, pos |-> itemPos]]
      BY <2>2 DEF ReorderItemsRead, Begin
    <3> QED
      BY <2>2, <3>1, MenuStays DEF ReorderItemsRead
  <2> QED
    BY <1>2, <1>3, <2>1, <2>2 DEF ItemRequest, ToggleRead, ArchiveRead, UnarchiveRead, DeleteItemRead
<1>4. ASSUME NEW i \in Items, NEW p, NEW d, UpdateRead(s, i, p, d) PROVE OwnerInv'
  BY <1>2, <1>4 DEF UpdateRead
<1> QED
  BY <1>1, <1>3, <1>4

LEMMA MenuStepStays ==
    ASSUME OwnerInv, NEW s \in Sessions, NEW held,
           CategoryStep(s) \/ MenuRowGone(s) \/ ItemStep(s, held)
    PROVE  OwnerInv'
<1>1. CASE UNCHANGED restaurantVars /\ End(s)
  BY <1>1, EndStays
<1>2. CASE delete_menu_category(s)
  <2>1. job' = [t \in Sessions |-> job'[t]]
        /\ \A t \in Sessions : job'[t] \in {job[t], Idle, [op |-> "gone"]}
    BY <1>2 DEF delete_menu_category, Orphan
  <2> QED
    BY <1>2, <2>1, OrphansStay DEF delete_menu_category
<1>3. CASE delete_menu_item(s, held)
  <2>1. job' = [t \in Sessions |-> job'[t]]
        /\ \A t \in Sessions : job'[t] \in {job[t], Idle, [op |-> "gone"]}
    BY <1>3 DEF delete_menu_item, Orphan
  <2> QED
    BY <1>3, <2>1, OrphansStay DEF delete_menu_item
<1>4. CASE create_menu_item(s)
  <2> DEFINE r == job[s].r
  <2>1. /\ r \in Restaurants /\ End(s) /\ UNCHANGED <<activated, paused, closures, hours, timed>>
        /\ menuMade' = [menuMade EXCEPT ![r] = TRUE]
        /\ \E new \in {stage[r], "MENU_ADDED"} : stage' = [stage EXCEPT ![r] = new]
    BY <1>4 DEF create_menu_item, OwnerInv, Saw, RowRequests
  <2>2. OwnerFunctions' /\ StageReached' /\ ClosedWasActive'
    BY <2>1 DEF OwnerInv, OwnerFunctions, StageReached, ClosedWasActive, End
  <2>3. \A x \in Restaurants : menuMade'[x] = IF x = r THEN TRUE ELSE menuMade[x]
    BY <2>1 DEF OwnerInv, OwnerFunctions
  <2> QED
    BY <2>1, <2>2, <2>3, CommitStays DEF OwnerInv, ScheduleStaysComplete
<1>5. CASE CategoryStep(s) /\ ~delete_menu_category(s)
  <2>1. UNCHANGED restaurantVars /\ End(s)
    BY <1>5 DEF CategoryStep, create_menu_category, CategoryTaken, reorder_menu_categories,
       ReorderCategoriesFails, archive_menu_category, unarchive_menu_category, DeleteCategoryFails, Refused
  <2> QED
    BY <1>1, <2>1
<1>6. CASE ItemStep(s, held) /\ ~delete_menu_item(s, held) /\ ~create_menu_item(s)
  <2>1. UNCHANGED restaurantVars /\ End(s)
    BY <1>6 DEF ItemStep, ItemTaken, reorder_menu_items_for_category, ReorderItemsFails, update_menu_item,
       toggle_menu_item_availability, archive_menu_item, unarchive_menu_item, DeleteItemFails, Refused
  <2> QED
    BY <1>1, <2>1
<1> QED
  BY <1>1, <1>2, <1>3, <1>4, <1>5, <1>6 DEF MenuRowGone, Refused

-----------------------------------------------------------------------------
LEMMA InitOwner == MenusInit => OwnerInv
<1> SUFFICES ASSUME MenusInit PROVE OwnerInv
  OBVIOUS
<1>1. OwnerFunctions
  BY DEF MenusInit, NoRestaurants, OwnerFunctions
<1>2. StageReached /\ ScheduleStaysComplete
      /\ \A r \in Restaurants : (activated[r] => menuMade[r]) /\ (paused[r] => activated[r])
  BY DEF MenusInit, NoRestaurants, StageReached, ScheduleStaysComplete
<1>3. ClosedWasActive
  BY RestaurantsAssumption DEF MenusInit, NoRestaurants, ClosedWasActive
<1>4. \A s \in Sessions : Saw(job[s], activated, menuMade)
  BY IdleSaw DEF MenusInit
<1> QED
  BY <1>1, <1>2, <1>3, <1>4 DEF OwnerInv

LEMMA NextKeepsOwner == OwnerInv /\ [MenusNext]_<<job, restaurantVars, menuVars>> => OwnerInv'
<1> SUFFICES ASSUME OwnerInv, [MenusNext]_<<job, restaurantVars, menuVars>> PROVE OwnerInv'
  OBVIOUS
<1>1. ASSUME NEW s \in Sessions, OwnerStep(s) PROVE OwnerInv'
  BY <1>1, RestaurantStepStays DEF OwnerStep
<1>2. ASSUME NEW s \in Sessions, NEW r \in Restaurants, RestaurantRequest(s, r) PROVE OwnerInv'
  BY <1>2, RequestStays
<1>3. ASSUME NEW c \in Closures, ClosureEnds(c) PROVE OwnerInv'
  <2>1. /\ closures' = [closures EXCEPT ![c] = "over"] /\ job' = job
        /\ UNCHANGED <<stage, activated, paused, hours, menuMade, timed>>
    BY <1>3 DEF ClosureEnds
  <2>2. OwnerFunctions' /\ StageReached' /\ ClosedWasActive'
    BY <2>1, RestaurantsAssumption DEF OwnerInv, OwnerFunctions, StageReached, ClosedWasActive
  <2> QED
    BY <2>1, <2>2 DEF OwnerInv, ScheduleStaysComplete
<1>4. CASE UNCHANGED <<job, restaurantVars, menuVars>>
  BY <1>4, RestaurantsStay DEF OwnerInv, OwnerFunctions
<1> QED
  BY <1>1, <1>2, <1>3, <1>4, MenuStepStays, MenuRequestStays DEF MenusNext, OwnerArrives

LEMMA OwnerKeeps == MenusSpec => []OwnerInv
BY InitOwner, NextKeepsOwner, PTL DEF MenusSpec

(* For any restaurants, menus and requests in flight: nothing is activated *)
(* that never had a menu item, nothing paused or closed that was not       *)
(* activated (activate_restaurant, create_menu_item, delete_restaurant).   *)
THEOREM ActivatedInOrder == MenusSpec => []ActivationComesFirst
<1>1. OwnerInv => ActivationComesFirst
  BY DEF OwnerInv, ClosedWasActive, ActivationComesFirst, ActiveClosures
<1> QED
  BY <1>1, OwnerKeeps, PTL

(* However uploads of the weekly hours overlap, a restaurant whose hours   *)
(* were set has a shift (create_restaurant_hours, update_day_hours).       *)
THEOREM ScheduleIsNeverEmpty == MenusSpec => []ScheduleStaysComplete
<1>1. OwnerInv => ScheduleStaysComplete
  BY DEF OwnerInv
<1> QED
  BY <1>1, OwnerKeeps, PTL

-----------------------------------------------------------------------------
(* The menu.  The constraints at a commit look at the rows of one parent;  *)
(* what a request holds of the rows around it is true until a deletion,    *)
(* and a deletion leaves it nothing to write.                              *)
CategoryOps == {"archiveCat", "unarchiveCat", "deleteCat"}
MenuOps == {"newCategory", "newItem", "sortCategories", "sortItems"} \cup CategoryOps \cup ItemOps

(* What a request relies on, with the three status columns of the present. *)
Relies(j, st, cs, is) ==
    /\ j.op \in MenuOps => "r" \in DOMAIN j
    /\ j.op = "newCategory" => j.cat \in Categories /\ j.r = RestaurantOf[j.cat] /\ st[j.r] # "NONE"
    /\ j.op \in CategoryOps => j.cat \in Categories /\ j.r = RestaurantOf[j.cat] /\ cs[j.cat] # "NONE"
    /\ j.op = "newItem" => /\ j.item \in Items /\ j.cat = HomeOf[j.item]
                           /\ j.r = RestaurantOf[j.cat] /\ cs[j.cat] # "NONE"
    /\ j.op \in ItemOps => j.item \in Items /\ j.r = RestaurantOfItem(j.item) /\ is[j.item] # "NONE"
    /\ j.op = "sortCategories" => \A c \in j.rows : RestaurantOf[c] = j.r
    /\ j.op = "sortItems" => \A i \in j.rows : HomeOf[i] = j.cat

MenuFunctions ==
    /\ job = [s \in Sessions |-> job[s]]
    /\ stage = [r \in Restaurants |-> stage[r]]
    /\ catState = [c \in Categories |-> catState[c]]
    /\ catPos = [c \in Categories |-> catPos[c]]
    /\ itemState = [i \in Items |-> itemState[i]]
    /\ itemPos = [i \in Items |-> itemPos[i]]

MenuInv ==
    /\ MenuFunctions /\ MenuIsOrdered
    /\ \A s \in Sessions : Relies(job[s], stage, catState, itemState)

LEMMA NothingRelied ==
    ASSUME NEW j, j.op \notin MenuOps
    PROVE  \A st, cs, is : Relies(j, st, cs, is)
BY DEF Relies, MenuOps

LEMMA IdleRelies == \A st, cs, is : Relies(Idle, st, cs, is) /\ Relies([op |-> "gone"], st, cs, is)
BY DEF Relies, Idle, MenuOps, CategoryOps, ItemOps

(* No row goes: whoever relied on one still may. *)
RowsRemain ==
    /\ \A r \in Restaurants : stage[r] # "NONE" => stage'[r] # "NONE"
    /\ \A c \in Categories : catState[c] # "NONE" => catState'[c] # "NONE"
    /\ \A i \in Items : itemState[i] # "NONE" => itemState'[i] # "NONE"

LEMMA StillRelies ==
    ASSUME MenuInv, RowsRemain,
           \A t \in Sessions : \/ job'[t] = job[t]
                               \/ Relies(job'[t], stage', catState', itemState')
    PROVE  \A t \in Sessions : Relies(job'[t], stage', catState', itemState')
<1> SUFFICES ASSUME NEW t \in Sessions, job'[t] = job[t]
             PROVE  Relies(job'[t], stage', catState', itemState')
  OBVIOUS
<1>1. Relies(job[t], stage, catState, itemState)
  BY DEF MenuInv
<1>2. \A i \in Items : HomeOf[i] \in Categories
  BY MenuAssumption
<1>3. \A c \in Categories : RestaurantOf[c] \in Restaurants
  BY MenuAssumption
<1> QED
  BY <1>1, <1>2, <1>3 DEF Relies, RowsRemain

LEMMA OneRelies ==
    ASSUME MenuInv, RowsRemain, NEW s \in Sessions, NEW j, job' = [job EXCEPT ![s] = j],
           Relies(j, stage', catState', itemState')
    PROVE  /\ job' = [t \in Sessions |-> job'[t]]
           /\ \A t \in Sessions : Relies(job'[t], stage', catState', itemState')
<1>1. job' = [t \in Sessions |-> job'[t]] /\ \A t \in Sessions : job'[t] = job[t] \/ job'[t] = j
  BY DEF MenuInv, MenuFunctions
<1> QED
  BY <1>1, StillRelies

(* A step that leaves rows and positions alone. *)
LEMMA MenuRowsStay ==
    ASSUME MenuInv, NEW s \in Sessions, NEW j, job' = [job EXCEPT ![s] = j],
           Relies(j, stage, catState, itemState), UNCHANGED <<stage, catState, catPos, itemState, itemPos>>
    PROVE  MenuInv'
<1>1. RowsRemain
  BY DEF RowsRemain
<1>2. MenuIsOrdered' /\ stage' = stage /\ catState' = catState /\ itemState' = itemState
  BY DEF MenuInv, MenuIsOrdered, UniqueOver, CategoriesOf, ItemsOf, Exists
<1>3. /\ job' = [t \in Sessions |-> job'[t]]
      /\ \A t \in Sessions : Relies(job'[t], stage', catState', itemState')
  BY <1>1, <1>2, OneRelies
<1> QED
  BY <1>2, <1>3 DEF MenuInv, MenuFunctions

LEMMA MenuEnds ==
    ASSUME MenuInv, NEW s \in Sessions, End(s), UNCHANGED <<stage, catState, catPos, itemState, itemPos>>
    PROVE  MenuInv'
BY MenuRowsStay, IdleRelies DEF End

(* The restaurant's own requests, but for its deletion: the row stays.     *)
LEMMA StageWritten ==
    ASSUME MenuInv, NEW s \in Sessions, End(s), UNCHANGED menuVars,
           stage' = stage \/ \E r, new : new # "NONE" /\ stage' = [stage EXCEPT ![r] = new]
    PROVE  MenuInv'
<1>1. /\ stage' = [r \in Restaurants |-> stage'[r]]
      /\ \A r \in Restaurants : stage[r] # "NONE" => stage'[r] # "NONE"
  BY DEF MenuInv, MenuFunctions
<1>2. RowsRemain
  BY <1>1 DEF RowsRemain, menuVars, catVars, itemVars
<1>3. /\ job' = [t \in Sessions |-> job'[t]]
      /\ \A t \in Sessions : Relies(job'[t], stage', catState', itemState')
  BY <1>2, OneRelies, IdleRelies DEF End
<1>4. MenuIsOrdered'
  <2>1. \A c \in Categories : RestaurantOf[c] \in Restaurants
    BY MenuAssumption
  <2> QED
    BY <1>1, <2>1 DEF MenuInv, MenuIsOrdered, UniqueOver, CategoriesOf, ItemsOf, Exists, menuVars, catVars, itemVars
<1> QED
  BY <1>1, <1>3, <1>4 DEF MenuInv, MenuFunctions, menuVars, catVars, itemVars

LEMMA OwnerCommits ==
    ASSUME MenuInv, NEW s \in Sessions, RestaurantStep(s), ~delete_restaurant(s), UNCHANGED menuVars
    PROVE  MenuInv'
<1> DEFINE r == job[s].r
<1>1. \A new : stage' = [stage EXCEPT ![r] = new] /\ new = stage[r] => stage' = stage
  BY DEF MenuInv, MenuFunctions
<1>2. CASE create_restaurant_draft(s) \/ activate_restaurant(s)
  BY <1>2, StageWritten DEF create_restaurant_draft, activate_restaurant
<1>3. CASE upload_restaurant_documents(s)
  <2>1. End(s) /\ \E new \in {stage[r], "DOCUMENTS_ADDED"} : stage' = [stage EXCEPT ![r] = new]
    BY <1>3 DEF upload_restaurant_documents, Flushed
  <2> QED
    BY <1>1, <2>1, StageWritten
<1>4. CASE create_restaurant_hours(s)
  <2>1. End(s) /\ \E new \in {stage[r], "TIMINGS_ADDED"} : stage' = [stage EXCEPT ![r] = new]
    BY <1>4 DEF create_restaurant_hours, Flushed
  <2> QED
    BY <1>1, <2>1, StageWritten
<1>5. CASE DraftExists(s) \/ HoursClash(s) \/ RowGone(s)
  BY <1>5, StageWritten DEF DraftExists, HoursClash, RowGone, restaurantVars
<1>6. CASE \/ update_day_hours(s) \/ pause_restaurant(s) \/ resume_restaurant(s)
           \/ create_closure(s) \/ delete_closure(s)
  BY <1>6, StageWritten DEF update_day_hours, pause_restaurant, resume_restaurant, create_closure, delete_closure
<1> QED
  BY <1>2, <1>3, <1>4, <1>5, <1>6 DEF RestaurantStep

(* The cascade takes the whole menu, and the requests that held the row.   *)
LEMMA RestaurantGoes ==
    ASSUME MenuInv, NEW s \in Sessions, delete_restaurant(s), MenuGoesWith(s)
    PROVE  MenuInv'
<1> DEFINE r == job[s].r
<1>1. \A c \in Categories : RestaurantOf[c] \in Restaurants
  BY MenuAssumption
<1>2. \A i \in Items : HomeOf[i] \in Categories
  BY MenuAssumption
<1>3. /\ stage' = [stage EXCEPT ![r] = "NONE"]
      /\ job' = [t \in Sessions |-> IF t = s THEN Idle
                                    ELSE IF Holds(t, r) THEN [op |-> "gone"] ELSE job[t]]
  BY DEF delete_restaurant
<1>4. /\ catState' = [c \in Categories |-> IF RestaurantOf[c] = r THEN "NONE" ELSE catState[c]]
      /\ catPos' = [c \in Categories |-> IF RestaurantOf[c] = r THEN 0 ELSE catPos[c]]
      /\ itemState' = [i \in Items |-> IF RestaurantOf[HomeOf[i]] = r THEN "NONE" ELSE itemState[i]]
      /\ itemPos' = [i \in Items |-> IF RestaurantOf[HomeOf[i]] = r THEN 0 ELSE itemPos[i]]
  BY DEF MenuGoesWith, RestaurantOfItem
<1>5. MenuFunctions'
  BY <1>3, <1>4 DEF MenuInv, MenuFunctions
<1>6. \A x \in Restaurants : stage'[x] = IF x = r THEN "NONE" ELSE stage[x]
  BY <1>3 DEF MenuInv, MenuFunctions
<1>7. MenuIsOrdered'
  <2>1. \A x \in Restaurants : UniqueOver(CategoriesOf(x), catPos)'
    BY <1>4 DEF MenuInv, MenuIsOrdered, UniqueOver, CategoriesOf
  <2>2. \A c \in Categories : UniqueOver(ItemsOf(c), itemPos)'
    BY <1>4 DEF MenuInv, MenuIsOrdered, UniqueOver, ItemsOf
  <2>3. \A i \in Items : itemState'[i] # "NONE" => catState'[HomeOf[i]] # "NONE"
    BY <1>2, <1>4 DEF MenuInv, MenuIsOrdered
  <2>4. \A c \in Categories : catState'[c] # "NONE" => stage'[RestaurantOf[c]] # "NONE"
    BY <1>1, <1>4, <1>6 DEF MenuInv, MenuIsOrdered, Exists
  <2> QED
    BY <2>1, <2>2, <2>3, <2>4 DEF MenuIsOrdered, Exists
<1>8. ASSUME NEW t \in Sessions PROVE Relies(job'[t], stage', catState', itemState')
  <2>1. job'[t] \in {Idle, [op |-> "gone"]} \/ (job'[t] = job[t] /\ ~Holds(t, r))
    BY <1>3
  <2>2. CASE job'[t] = job[t] /\ ~Holds(t, r)
    <3>1. "r" \notin DOMAIN job[t] \/ job[t].op = "draft" \/ job[t].r # r
      BY <2>2 DEF Holds
    <3>2. CASE job[t].op = "draft"
      <4>1. job[t].op \notin MenuOps
        BY <3>2 DEF MenuOps, CategoryOps, ItemOps
      <4> QED
        BY <2>2, <4>1, NothingRelied
    <3>3. CASE "r" \notin DOMAIN job[t]
      <4>1. job[t].op \notin MenuOps
        BY <3>3 DEF MenuInv, Relies
      <4> QED
        BY <2>2, <4>1, NothingRelied
    <3>4. CASE job[t].r # r
      <4>1. Relies(job[t], stage, catState, itemState)
        BY DEF MenuInv
      <4> QED
        BY <1>1, <1>2, <1>4, <1>6, <2>2, <3>4, <4>1 DEF Relies, RestaurantOfItem
    <3> QED
      BY <3>1, <3>2, <3>3, <3>4
  <2> QED
    BY <2>1, <2>2, IdleRelies
<1> QED
  BY <1>5, <1>7, <1>8 DEF MenuInv

(* The requests arrive: what each has read is what it relies on. *)
LEMMA OwnerAsks ==
    ASSUME MenuInv, NEW s \in Sessions, NEW r \in Restaurants, RestaurantRequest(s, r), UNCHANGED menuVars
    PROVE  MenuInv'
<1> USE DEF menuVars, catVars, itemVars, restaurantVars
<1>1. ASSUME NEW j, job' = [job EXCEPT ![s] = j], j.op \notin MenuOps, UNCHANGED restaurantVars
      PROVE  MenuInv'
  BY <1>1, MenuRowsStay, NothingRelied
<1>2. ASSUME NEW op, op \notin MenuOps, Load(s, op, r) PROVE MenuInv'
  <2>1. [op |-> op, r |-> r, stage |-> stage[r]].op \notin MenuOps
    BY <1>2
  <2> QED
    BY <1>1, <1>2, <2>1 DEF Load, Begin
<1>3. \A op \in {"documents", "activate", "pause", "resume", "closure", "delete", "draft", "hours",
                 "dayHours", "reopen"} : op \notin MenuOps
  BY DEF MenuOps, CategoryOps, ItemOps
<1>4. CASE DraftRead(s, r)
  <2>1. [op |-> "draft", r |-> r].op \notin MenuOps
    BY <1>3
  <2> QED
    BY <1>1, <1>4, <2>1 DEF DraftRead, Begin
<1>5. ASSUME NEW h, HoursRead(s, r, h) PROVE MenuInv'
  <2>1. [op |-> "hours", r |-> r, stage |-> stage[r], old |-> hours[r], new |-> h].op \notin MenuOps
    BY <1>3
  <2> QED
    BY <1>1, <1>5, <2>1 DEF HoursRead, Begin
<1>6. ASSUME NEW h, DayHoursRead(s, r, h) PROVE MenuInv'
  <2>1. [op |-> "dayHours", r |-> r, old |-> hours[r], new |-> h].op \notin MenuOps
    BY <1>3
  <2> QED
    BY <1>1, <1>6, <2>1 DEF DayHoursRead, Begin
<1>7. CASE ReopenRead(s, r)
  <2>1. PICK c : /\ job' = [job EXCEPT ![s] = [op |-> "reopen", r |-> r, closure |-> c]]
                 /\ UNCHANGED restaurantVars
    BY <1>7 DEF ReopenRead, Begin
  <2>2. [op |-> "reopen", r |-> r, closure |-> c].op \notin MenuOps
    BY <1>3
  <2> QED
    BY <1>1, <2>1, <2>2
<1>8. CASE \/ DocumentsRead(s, r) \/ ActivateRead(s, r) \/ PauseRead(s, r) \/ ResumeRead(s, r)
           \/ ClosureRead(s, r) \/ DeleteRead(s, r)
  BY <1>2, <1>3, <1>8 DEF DocumentsRead, ActivateRead, PauseRead, ResumeRead, ClosureRead, DeleteRead
<1> QED
  BY <1>4, <1>5, <1>6, <1>7, <1>8 DEF RestaurantRequest

LEMMA CategoryAsked ==
    ASSUME MenuInv, NEW s \in Sessions, NEW c \in Categories, CategoryRequest(s, c)
    PROVE  MenuInv'
<1> USE DEF menuVars, catVars, itemVars, restaurantVars
<1> DEFINE r == RestaurantOf[c]
<1>1. CASE CategoryRead(s, c)
  <2>1. PICK n : job' = [job EXCEPT ![s] = [op |-> "newCategory", r |-> r, cat |-> c, pos |-> n]]
    BY <1>1 DEF CategoryRead, Begin
  <2>2. Relies([op |-> "newCategory", r |-> r, cat |-> c, pos |-> n], stage, catState, itemState)
    BY <1>1 DEF CategoryRead, Exists, Relies, CategoryOps, ItemOps
  <2> QED
    BY <1>1, <2>1, <2>2, MenuRowsStay DEF CategoryRead
<1>2. CASE ReorderCategoriesRead(s, r)
  <2> DEFINE J(o) == [op |-> "sortCategories", r |-> r, rows |-> CategoriesOf(r), order |-> o, pos |-> catPos]
  <2>1. PICK o \in Orders(CategoriesOf(r)) : job' = [job EXCEPT ![s] = J(o)]
    BY <1>2 DEF ReorderCategoriesRead, Begin
  <2>2. Relies(J(o), stage, catState, itemState)
    BY DEF Relies, CategoriesOf, CategoryOps, ItemOps
  <2> QED
    BY <1>2, <2>1, <2>2, MenuRowsStay DEF ReorderCategoriesRead
<1>3. ASSUME NEW op \in DOMAIN CategoryOp, CategoryLoad(s, op, c) PROVE MenuInv'
  <2>1. op \in CategoryOps /\ CategoryOp[op].from # "NONE"
    BY DEF CategoryOp, CategoryOps
  <2>2. Relies([op |-> op, r |-> r, cat |-> c], stage, catState, itemState)
    BY <1>3, <2>1 DEF CategoryLoad, Relies, CategoryOps, ItemOps
  <2> QED
    BY <1>3, <2>2, MenuRowsStay DEF CategoryLoad, Begin
<1> QED
  BY <1>1, <1>2, <1>3 DEF CategoryRequest

LEMMA ItemAsked ==
    ASSUME MenuInv, NEW s \in Sessions, NEW i \in Items,
           \/ ItemRequest(s, i)
           \/ \E p \in Prices, d \in Prices \cup {None} : UpdateRead(s, i, p, d)
    PROVE  MenuInv'
<1> USE DEF menuVars, catVars, itemVars, restaurantVars
<1> DEFINE c == HomeOf[i]
           r == RestaurantOf[c]
<1>1. ASSUME NEW op \in ItemOps, NEW more, ItemLoad(s, op, i, more), itemState[i] # "NONE" PROVE MenuInv'
  <2> DEFINE j == [op |-> op, r |-> RestaurantOfItem(i), item |-> i, available |-> available[i],
                   price |-> price[i], discounted |-> discounted[i], new |-> more]
  <2>1. Relies(j, stage, catState, itemState)
    BY <1>1 DEF Relies, CategoryOps, ItemOps
  <2> QED
    BY <1>1, <2>1, MenuRowsStay DEF ItemLoad, Begin
<1>2. ASSUME NEW a \in BOOLEAN, ItemRead(s, i, Highest(Prices), None, a) PROVE MenuInv'
  <2> DEFINE J(x, p, d, n) == [op |-> "newItem", r |-> r, cat |-> c, item |-> i, stage |-> x,
                               price |-> p, discounted |-> d, available |-> a, pos |-> n]
  <2>1. PICK x, p, d, n : job' = [job EXCEPT ![s] = J(x, p, d, n)]
    BY <1>2 DEF ItemRead, Begin
  <2>2. Relies(J(x, p, d, n), stage, catState, itemState)
    BY <1>2 DEF ItemRead, Relies, CategoryOps, ItemOps
  <2> QED
    BY <1>2, <2>1, <2>2, MenuRowsStay DEF ItemRead
<1>3. CASE ReorderItemsRead(s, c)
  <2> DEFINE J(o) == [op |-> "sortItems", r |-> r, cat |-> c, rows |-> ItemsOf(c), order |-> o, pos |-> itemPos]
  <2>1. PICK o \in Orders(ItemsOf(c)) : job' = [job EXCEPT ![s] = J(o)]
    BY <1>3 DEF ReorderItemsRead, Begin
  <2>2. Relies(J(o), stage, catState, itemState)
    BY DEF Relies, ItemsOf, CategoryOps, ItemOps
  <2> QED
    BY <1>3, <2>1, <2>2, MenuRowsStay DEF ReorderItemsRead
<1>4. CASE \/ ToggleRead(s, i) \/ ArchiveRead(s, i) \/ UnarchiveRead(s, i) \/ DeleteItemRead(s, i)
           \/ \E p, d : UpdateRead(s, i, p, d)
  BY <1>1, <1>4 DEF ToggleRead, ArchiveRead, UnarchiveRead, DeleteItemRead, UpdateRead, ItemOps
<1> QED
  BY <1>2, <1>3, <1>4 DEF ItemRequest

-----------------------------------------------------------------------------
(* The commits on a category, on an item. *)
LEMMA CategoryWrites ==
    ASSUME MenuInv, NEW s \in Sessions, CategoryStep(s)
    PROVE  MenuInv'
<1> USE DEF catVars, itemVars, restaurantVars
<1> DEFINE j == job[s]
           c == j.cat
<1>0. Relies(j, stage, catState, itemState)
  BY DEF MenuInv
<1>1. CASE CategoryTaken(s) \/ ReorderCategoriesFails(s) \/ DeleteCategoryFails(s)
  BY <1>1, MenuEnds DEF CategoryTaken, ReorderCategoriesFails, DeleteCategoryFails, Refused, menuVars
<1>2. CASE create_menu_category(s)
  <2>1. /\ c \in Categories /\ j.r = RestaurantOf[c] /\ stage[j.r] # "NONE"
        /\ UniqueOver(CategoriesOf(j.r) \cup {c}, catPos')
        /\ catState' = [catState EXCEPT ![c] = "ACTIVE"] /\ catPos' = [catPos EXCEPT ![c] = j.pos]
        /\ End(s) /\ UNCHANGED <<stage, itemState, itemPos>>
    BY <1>0, <1>2 DEF create_menu_category, Relies
  <2>2. /\ catState' = [x \in Categories |-> IF x = c THEN "ACTIVE" ELSE catState[x]]
        /\ catPos' = [x \in Categories |-> IF x = c THEN j.pos ELSE catPos[x]]
    BY <2>1 DEF MenuInv, MenuFunctions
  <2>3. RowsRemain
    BY <2>1, <2>2 DEF RowsRemain
  <2>4. /\ job' = [t \in Sessions |-> job'[t]]
        /\ \A t \in Sessions : Relies(job'[t], stage', catState', itemState')
    BY <2>1, <2>3, OneRelies, IdleRelies DEF End
  <2>5. ASSUME NEW r \in Restaurants PROVE UniqueOver(CategoriesOf(r), catPos)'
    <3>1. CASE r = j.r
      BY <2>1, <2>2, <3>1 DEF UniqueOver, CategoriesOf
    <3>2. CASE r # j.r
      <4>1. \A x \in CategoriesOf(r)' : x \in CategoriesOf(r) /\ catPos'[x] = catPos[x]
        BY <2>1, <2>2, <3>2 DEF CategoriesOf
      <4> QED
        BY <4>1 DEF MenuInv, MenuIsOrdered, UniqueOver
    <3> QED
      BY <3>1, <3>2
  <2>6. MenuIsOrdered'
    <3>1. \A x \in Categories : UniqueOver(ItemsOf(x), itemPos)'
      BY <2>1 DEF MenuInv, MenuIsOrdered, UniqueOver, ItemsOf
    <3>2. \A i \in Items : itemState'[i] # "NONE" => catState'[HomeOf[i]] # "NONE"
      BY <2>1, <2>2, MenuAssumption DEF MenuInv, MenuIsOrdered
    <3>3. \A x \in Categories : catState'[x] # "NONE" => stage'[RestaurantOf[x]] # "NONE"
      BY <2>1, <2>2 DEF MenuInv, MenuIsOrdered, Exists
    <3> QED
      BY <2>5, <3>1, <3>2, <3>3 DEF MenuIsOrdered, Exists
  <2> QED
    BY <2>1, <2>2, <2>4, <2>6 DEF MenuInv, MenuFunctions
<1>3. CASE reorder_menu_categories(s)
  <2>1. /\ \A x \in j.rows : RestaurantOf[x] = j.r
        /\ UniqueOver(CategoriesOf(j.r), catPos') /\ catPos' = Reordered(catPos, j)
        /\ End(s) /\ UNCHANGED <<stage, catState, itemState, itemPos>>
    BY <1>0, <1>3 DEF reorder_menu_categories, Relies
  <2>2. RowsRemain
    BY <2>1 DEF RowsRemain
  <2>3. /\ job' = [t \in Sessions |-> job'[t]]
        /\ \A t \in Sessions : Relies(job'[t], stage', catState', itemState')
    BY <2>1, <2>2, OneRelies, IdleRelies DEF End
  <2>4. /\ catPos' = [x \in Categories |-> catPos'[x]]
        /\ \A x \in Categories : x \notin j.rows => catPos'[x] = catPos[x]
    BY <2>1 DEF MenuInv, MenuFunctions, Reordered
  <2>5. ASSUME NEW r \in Restaurants PROVE UniqueOver(CategoriesOf(r), catPos)'
    <3>1. CASE r = j.r
      BY <2>1, <3>1 DEF UniqueOver, CategoriesOf
    <3>2. CASE r # j.r
      <4>1. \A x \in CategoriesOf(r)' : x \in CategoriesOf(r) /\ catPos'[x] = catPos[x]
        BY <2>1, <2>4, <3>2 DEF CategoriesOf
      <4> QED
        BY <4>1 DEF MenuInv, MenuIsOrdered, UniqueOver
    <3> QED
      BY <3>1, <3>2
  <2>6. MenuIsOrdered'
    BY <2>1, <2>5 DEF MenuInv, MenuIsOrdered, UniqueOver, ItemsOf, Exists
  <2> QED
    BY <2>1, <2>3, <2>4, <2>6 DEF MenuInv, MenuFunctions
<1>4. CASE archive_menu_category(s) \/ unarchive_menu_category(s)
  <2>1. /\ c \in Categories /\ catState[c] # "NONE"
        /\ \E new \in {"ACTIVE", "ARCHIVED"} : catState' = [catState EXCEPT ![c] = new]
        /\ End(s) /\ UNCHANGED <<stage, catPos, itemState, itemPos>>
    BY <1>0, <1>4 DEF archive_menu_category, unarchive_menu_category, Relies, CategoryOps
  <2>2. /\ catState' = [x \in Categories |-> catState'[x]]
        /\ \A x \in Categories : catState'[x] # "NONE" <=> catState[x] # "NONE"
    BY <2>1 DEF MenuInv, MenuFunctions
  <2>3. RowsRemain
    BY <2>1, <2>2 DEF RowsRemain
  <2>4. /\ job' = [t \in Sessions |-> job'[t]]
        /\ \A t \in Sessions : Relies(job'[t], stage', catState', itemState')
    BY <2>1, <2>3, OneRelies, IdleRelies DEF End
  <2>5. MenuIsOrdered'
    BY <2>1, <2>2, MenuAssumption DEF MenuInv, MenuIsOrdered, UniqueOver, CategoriesOf, ItemsOf, Exists
  <2> QED
    BY <2>1, <2>2, <2>4, <2>5 DEF MenuInv, MenuFunctions
<1>5. CASE delete_menu_category(s)
  <2>1. /\ c \in Categories /\ ItemsOf(c) = {}
        /\ catState' = [catState EXCEPT ![c] = "NONE"] /\ catPos' = [catPos EXCEPT ![c] = 0]
        /\ job' = [t \in Sessions |-> IF t = s THEN Idle
                                      ELSE IF WritesCategory(job[t], c) THEN [op |-> "gone"] ELSE job[t]]
        /\ UNCHANGED <<stage, itemState, itemPos>>
    BY <1>0, <1>5 DEF delete_menu_category, Orphan, Relies, CategoryOps
  <2>2. /\ catState' = [x \in Categories |-> IF x = c THEN "NONE" ELSE catState[x]]
        /\ catPos' = [x \in Categories |-> IF x = c THEN 0 ELSE catPos[x]]
    BY <2>1 DEF MenuInv, MenuFunctions
  <2>3. MenuIsOrdered'
    <3>1. \A r \in Restaurants : UniqueOver(CategoriesOf(r), catPos)'
      BY <2>2 DEF MenuInv, MenuIsOrdered, UniqueOver, CategoriesOf
    <3>2. \A x \in Categories : UniqueOver(ItemsOf(x), itemPos)'
      BY <2>1 DEF MenuInv, MenuIsOrdered, UniqueOver, ItemsOf
    <3>3. \A i \in Items : itemState'[i] # "NONE" => catState'[HomeOf[i]] # "NONE"
      BY <2>1, <2>2, MenuAssumption DEF MenuInv, MenuIsOrdered, ItemsOf
    <3>4. \A x \in Categories : catState'[x] # "NONE" => stage'[RestaurantOf[x]] # "NONE"
      BY <2>1, <2>2 DEF MenuInv, MenuIsOrdered, Exists
    <3> QED
      BY <3>1, <3>2, <3>3, <3>4 DEF MenuIsOrdered, Exists
  <2>4. ASSUME NEW t \in Sessions PROVE Relies(job'[t], stage', catState', itemState')
    <3>1. job'[t] \in {Idle, [op |-> "gone"]} \/ (job'[t] = job[t] /\ ~WritesCategory(job[t], c))
      BY <2>1
    <3>2. CASE job'[t] = job[t] /\ ~WritesCategory(job[t], c)
      <4>1. Relies(job[t], stage, catState, itemState)
        BY DEF MenuInv
      <4>2. job[t].op \in CategoryOps \cup {"newItem"} => job[t].cat # c
        BY <3>2 DEF WritesCategory, CategoryOp, CategoryOps
      <4>3. \A i \in Items : HomeOf[i] \in Categories
        BY MenuAssumption
      <4> QED
        BY <2>1, <2>2, <3>2, <4>1, <4>2, <4>3 DEF Relies
    <3> QED
      BY <3>1, <3>2, IdleRelies
  <2> QED
    BY <2>1, <2>2, <2>3, <2>4 DEF MenuInv, MenuFunctions
<1> QED
  BY <1>1, <1>2, <1>3, <1>4, <1>5 DEF CategoryStep

LEMMA ItemWrites ==
    ASSUME MenuInv, NEW s \in Sessions, NEW held, ItemStep(s, held)
    PROVE  MenuInv'
<1> USE DEF catVars, itemVars, restaurantVars
<1> DEFINE j == job[s]
           i == j.item
<1>0. Relies(j, stage, catState, itemState)
  BY DEF MenuInv
<1>1. CASE \/ ItemTaken(s) \/ ReorderItemsFails(s) \/ DeleteItemFails(s, held)
           \/ update_menu_item(s) \/ toggle_menu_item_availability(s)
  BY <1>1, MenuEnds DEF ItemTaken, ReorderItemsFails, DeleteItemFails, Refused, menuVars,
     update_menu_item, toggle_menu_item_availability
<1>2. CASE create_menu_item(s)
  <2> DEFINE c == j.cat
  <2>1. /\ i \in Items /\ c = HomeOf[i] /\ catState[c] # "NONE"
        /\ UniqueOver(ItemsOf(c) \cup {i}, itemPos')
        /\ itemState' = [itemState EXCEPT ![i] = "ACTIVE"] /\ itemPos' = [itemPos EXCEPT ![i] = j.pos]
        /\ \E new \in {stage[j.r], "MENU_ADDED"} : stage' = [stage EXCEPT ![j.r] = new]
        /\ End(s) /\ UNCHANGED <<catState, catPos>>
    BY <1>0, <1>2 DEF create_menu_item, NewPositions, Relies
  <2>2. /\ itemState' = [x \in Items |-> IF x = i THEN "ACTIVE" ELSE itemState[x]]
        /\ itemPos' = [x \in Items |-> IF x = i THEN j.pos ELSE itemPos[x]]
        /\ stage' = [r \in Restaurants |-> stage'[r]]
        /\ \A r \in Restaurants : stage[r] # "NONE" => stage'[r] # "NONE"
    BY <2>1 DEF MenuInv, MenuFunctions
  <2>3. RowsRemain
    BY <2>1, <2>2 DEF RowsRemain
  <2>4. /\ job' = [t \in Sessions |-> job'[t]]
        /\ \A t \in Sessions : Relies(job'[t], stage', catState', itemState')
    BY <2>1, <2>3, OneRelies, IdleRelies DEF End
  <2>5. ASSUME NEW x \in Categories PROVE UniqueOver(ItemsOf(x), itemPos)'
    <3>1. CASE x = c
      BY <2>1, <2>2, <3>1 DEF UniqueOver, ItemsOf
    <3>2. CASE x # c
      <4>1. \A y \in ItemsOf(x)' : y \in ItemsOf(x) /\ itemPos'[y] = itemPos[y]
        BY <2>1, <2>2, <3>2 DEF ItemsOf
      <4> QED
        BY <4>1 DEF MenuInv, MenuIsOrdered, UniqueOver
    <3> QED
      BY <3>1, <3>2
  <2>6. MenuIsOrdered'
    <3>1. \A r \in Restaurants : UniqueOver(CategoriesOf(r), catPos)'
      BY <2>1 DEF MenuInv, MenuIsOrdered, UniqueOver, CategoriesOf
    <3>2. \A y \in Items : itemState'[y] # "NONE" => catState'[HomeOf[y]] # "NONE"
      BY <2>1, <2>2 DEF MenuInv, MenuIsOrdered
    <3>3. \A x \in Categories : catState'[x] # "NONE" => stage'[RestaurantOf[x]] # "NONE"
      BY <2>1, <2>2, MenuAssumption DEF MenuInv, MenuIsOrdered, Exists
    <3> QED
      BY <2>5, <3>1, <3>2, <3>3 DEF MenuIsOrdered, Exists
  <2> QED
    BY <2>1, <2>2, <2>4, <2>6 DEF MenuInv, MenuFunctions
<1>3. CASE reorder_menu_items_for_category(s)
  <2>1. /\ \A x \in j.rows : HomeOf[x] = j.cat
        /\ UniqueOver(ItemsOf(j.cat), itemPos') /\ itemPos' = Reordered(itemPos, j)
        /\ End(s) /\ UNCHANGED <<stage, catState, catPos, itemState>>
    BY <1>0, <1>3 DEF reorder_menu_items_for_category, Relies
  <2>2. RowsRemain
    BY <2>1 DEF RowsRemain
  <2>3. /\ job' = [t \in Sessions |-> job'[t]]
        /\ \A t \in Sessions : Relies(job'[t], stage', catState', itemState')
    BY <2>1, <2>2, OneRelies, IdleRelies DEF End
  <2>4. /\ itemPos' = [x \in Items |-> itemPos'[x]]
        /\ \A x \in Items : x \notin j.rows => itemPos'[x] = itemPos[x]
    BY <2>1 DEF MenuInv, MenuFunctions, Reordered
  <2>5. ASSUME NEW x \in Categories PROVE UniqueOver(ItemsOf(x), itemPos)'
    <3>1. CASE x = j.cat
      BY <2>1, <3>1 DEF UniqueOver, ItemsOf
    <3>2. CASE x # j.cat
      <4>1. \A y \in ItemsOf(x)' : y \in ItemsOf(x) /\ itemPos'[y] = itemPos[y]
        BY <2>1, <2>4, <3>2 DEF ItemsOf
      <4> QED
        BY <4>1 DEF MenuInv, MenuIsOrdered, UniqueOver
    <3> QED
      BY <3>1, <3>2
  <2>6. MenuIsOrdered'
    BY <2>1, <2>5 DEF MenuInv, MenuIsOrdered, UniqueOver, CategoriesOf, Exists
  <2> QED
    BY <2>1, <2>3, <2>4, <2>6 DEF MenuInv, MenuFunctions
<1>4. CASE archive_menu_item(s) \/ unarchive_menu_item(s)
  <2>1. /\ i \in Items /\ itemState[i] # "NONE"
        /\ \E new \in {"ACTIVE", "ARCHIVED"} : itemState' = [itemState EXCEPT ![i] = new]
        /\ End(s) /\ UNCHANGED <<stage, catState, catPos, itemPos>>
    BY <1>0, <1>4 DEF archive_menu_item, unarchive_menu_item, Relies, ItemOps
  <2>2. /\ itemState' = [x \in Items |-> itemState'[x]]
        /\ \A x \in Items : itemState'[x] # "NONE" <=> itemState[x] # "NONE"
    BY <2>1 DEF MenuInv, MenuFunctions
  <2>3. RowsRemain
    BY <2>1, <2>2 DEF RowsRemain
  <2>4. /\ job' = [t \in Sessions |-> job'[t]]
        /\ \A t \in Sessions : Relies(job'[t], stage', catState', itemState')
    BY <2>1, <2>3, OneRelies, IdleRelies DEF End
  <2>5. MenuIsOrdered'
    BY <2>1, <2>2 DEF MenuInv, MenuIsOrdered, UniqueOver, CategoriesOf, ItemsOf, Exists
  <2> QED
    BY <2>1, <2>2, <2>4, <2>5 DEF MenuInv, MenuFunctions
<1>5. CASE delete_menu_item(s, held)
  <2>1. /\ i \in Items
        /\ itemState' = [itemState EXCEPT ![i] = "NONE"] /\ itemPos' = [itemPos EXCEPT ![i] = 0]
        /\ UNCHANGED <<stage, catState, catPos>>
    BY <1>0, <1>5 DEF delete_menu_item, Relies, ItemOps
  <2>2. job' = [t \in Sessions |->
                   IF t = s THEN Idle
                   ELSE IF \/ job[t].op \in ItemOps /\ job[t].item = i
                           \/ Moves(job[t], "sortItems", i)
                        THEN [op |-> "gone"] ELSE job[t]]
    BY <1>5 DEF delete_menu_item, Orphan
  <2>3. /\ itemState' = [x \in Items |-> IF x = i THEN "NONE" ELSE itemState[x]]
        /\ itemPos' = [x \in Items |-> IF x = i THEN 0 ELSE itemPos[x]]
    BY <2>1 DEF MenuInv, MenuFunctions
  <2>4. MenuIsOrdered'
    <3>1. \A r \in Restaurants : UniqueOver(CategoriesOf(r), catPos)'
      BY <2>1 DEF MenuInv, MenuIsOrdered, UniqueOver, CategoriesOf
    <3>2. \A c \in Categories : UniqueOver(ItemsOf(c), itemPos)'
      BY <2>3 DEF MenuInv, MenuIsOrdered, UniqueOver, ItemsOf
    <3> QED
      BY <2>1, <2>3, <3>1, <3>2 DEF MenuInv, MenuIsOrdered, Exists
  <2>5. ASSUME NEW t \in Sessions PROVE Relies(job'[t], stage', catState', itemState')
    <3>1. \/ job'[t] \in {Idle, [op |-> "gone"]}
          \/ job'[t] = job[t] /\ (job[t].op \in ItemOps => job[t].item # i)
      BY <2>2
    <3>2. CASE job'[t] = job[t] /\ (job[t].op \in ItemOps => job[t].item # i)
      <4>1. Relies(job[t], stage, catState, itemState)
        BY DEF MenuInv
      <4> QED
        BY <2>1, <2>3, <3>2, <4>1 DEF Relies
    <3> QED
      BY <3>1, <3>2, IdleRelies
  <2> QED
    BY <2>1, <2>2, <2>3, <2>4, <2>5 DEF MenuInv, MenuFunctions
<1> QED
  BY <1>1, <1>2, <1>3, <1>4, <1>5 DEF ItemStep

-----------------------------------------------------------------------------
LEMMA InitMenu == MenusInit => MenuInv
<1> SUFFICES ASSUME MenusInit PROVE MenuInv
  OBVIOUS
<1>1. MenuFunctions
  BY DEF MenusInit, NoRestaurants, NoMenu, MenuFunctions
<1>2. MenuIsOrdered
  BY DEF MenusInit, NoMenu, MenuIsOrdered, UniqueOver, CategoriesOf, ItemsOf
<1>3. \A s \in Sessions : Relies(job[s], stage, catState, itemState)
  BY IdleRelies DEF MenusInit
<1> QED
  BY <1>1, <1>2, <1>3 DEF MenuInv

LEMMA NextKeepsMenu == MenuInv /\ [MenusNext]_<<job, restaurantVars, menuVars>> => MenuInv'
<1> SUFFICES ASSUME MenuInv, [MenusNext]_<<job, restaurantVars, menuVars>> PROVE MenuInv'
  OBVIOUS
<1>1. ASSUME NEW s \in Sessions, OwnerStep(s) PROVE MenuInv'
  <2>1. CASE delete_restaurant(s)
    BY <1>1, <2>1, RestaurantGoes DEF OwnerStep, delete_restaurant
  <2>2. CASE ~delete_restaurant(s)
    <3>1. job[s].op # "delete"
      BY <1>1, <2>2 DEF OwnerStep, RestaurantStep, create_restaurant_draft, DraftExists,
         upload_restaurant_documents, activate_restaurant, create_restaurant_hours, update_day_hours,
         HoursClash, pause_restaurant, resume_restaurant, create_closure, delete_closure, RowGone
    <3> QED
      BY <1>1, <2>2, <3>1, OwnerCommits DEF OwnerStep
  <2> QED
    BY <2>1, <2>2
<1>2. ASSUME NEW s \in Sessions, MenuRowGone(s) PROVE MenuInv'
  BY <1>2, MenuEnds DEF MenuRowGone, Refused, restaurantVars, menuVars, catVars, itemVars
<1>3. ASSUME NEW c \in Closures, ClosureEnds(c), UNCHANGED menuVars PROVE MenuInv'
  BY <1>3 DEF ClosureEnds, menuVars, catVars, itemVars, MenuInv, MenuFunctions, MenuIsOrdered,
     UniqueOver, CategoriesOf, ItemsOf, Exists
<1>4. CASE UNCHANGED <<job, restaurantVars, menuVars>>
  BY <1>4 DEF restaurantVars, menuVars, catVars, itemVars, MenuInv, MenuFunctions, MenuIsOrdered,
     UniqueOver, CategoriesOf, ItemsOf, Exists
<1> QED
  BY <1>1, <1>2, <1>3, <1>4, OwnerAsks, CategoryAsked, CategoryWrites, ItemAsked, ItemWrites DEF MenusNext, OwnerArrives

LEMMA MenuKeeps == MenusSpec => []MenuInv
BY InitMenu, NextKeepsMenu, PTL DEF MenusSpec

(* For any restaurants, menus and requests in flight: no two rows of one   *)
(* parent share a position, and no row is left without its parent          *)
(* (create_menu_category, reorder_menu_items_for_category and the deletes).*)
THEOREM MenuStaysOrdered == MenusSpec => []MenuIsOrdered
<1>1. MenuInv => MenuIsOrdered
  BY DEF MenuInv
<1> QED
  BY <1>1, MenuKeeps, PTL
-----------------------------------------------------------------------------
(* Types.  A position is the highest of its parent's plus one, or a place  *)
(* in an order of its rows, which have positions of their own: never more  *)
(* than MaxPosition.                                                       *)
Below == {x \in Nat \X Nat : x[1] < x[2]}

LEMMA BelowIsWellFounded == IsWellFoundedOn(Below, Nat)
BY NatLessThanWellFounded DEF OpToRel, Below

LEMMA HighestIsThere ==
    ASSUME NEW M \in Nat, NEW S, S \subseteq 0..M, S # {}
    PROVE  Highest(S) \in S /\ \A m \in S : m <= Highest(S)
<1> DEFINE T == {n \in Nat : n <= M /\ M - n \in S}
<1>1. T # {}
  <2>1. PICK x \in S : x \in 0..M
    OBVIOUS
  <2>2. M - x \in Nat /\ M - x <= M /\ M - (M - x) = x
    BY <2>1
  <2> QED
    BY <2>1, <2>2
<1>2. PICK t \in T : \A y \in T : <<y, t>> \notin Below
  <2>1. T \subseteq Nat
    OBVIOUS
  <2> HIDE DEF T
  <2> QED
    BY <1>1, <2>1, BelowIsWellFounded, WFMin
<1>3. M - t \in S
  OBVIOUS
<1>4. ASSUME NEW m \in S PROVE m <= M - t
  <2>1. m \in Nat /\ m <= M /\ M - m \in Nat /\ M - m <= M /\ M - (M - m) = m
    OBVIOUS
  <2>2. M - m \in T
    BY <2>1
  <2>3. ~(M - m < t)
    BY <1>2, <2>1, <2>2 DEF Below
  <2> QED
    BY <2>1, <2>3
<1> QED
  BY <1>3, <1>4 DEF Highest

(* The next free position of a parent whose rows are below the bound. *)
LEMMA NextPosition ==
    ASSUME NEW S, NEW pos, \A x \in S : pos[x] \in 0..MaxPosition /\ pos[x] < MaxPosition
    PROVE  Highest({pos[x] : x \in S} \cup {0}) + 1 \in 1..MaxPosition
<1> DEFINE P == {pos[x] : x \in S} \cup {0}
<1>1. MaxPosition \in Nat /\ MaxPosition > 0
  BY MenuAssumption
<1>2. MaxPosition > 0 /\ P \subseteq 0..MaxPosition /\ P # {} /\ \A n \in P : n < MaxPosition
  BY <1>1
<1> HIDE DEF P
<1>3. Highest(P) \in P
  BY <1>1, <1>2, HighestIsThere
<1>4. Highest(P) \in 0..MaxPosition /\ Highest(P) < MaxPosition
  BY <1>2, <1>3
<1> QED
  BY <1>1, <1>4 DEF P

(* Rows that each have a position of their own can be reordered within     *)
(* the bound: there are not more rows than positions.                      *)
LEMMA OrdersFit ==
    ASSUME NEW S, NEW pos, UniqueOver(S, pos), \A x \in S : pos[x] \in 1..MaxPosition,
           NEW o \in Orders(S)
    PROVE  \A x \in S : o[x] \in 1..MaxPosition
<1>1. MaxPosition \in Nat
  BY MenuAssumption
<1>2. IsFiniteSet(1..MaxPosition) /\ Cardinality(1..MaxPosition) = MaxPosition
  BY <1>1, FS_Interval
<1> DEFINE f == [x \in S |-> pos[x]]
<1>3. f \in Injection(S, 1..MaxPosition)
  BY DEF UniqueOver, Injection, IsInjective
<1>4. IsFiniteSet(S) /\ Cardinality(S) <= MaxPosition /\ Cardinality(S) \in Nat
  <2> HIDE DEF f
  <2> QED
    BY <1>2, <1>3, FS_Injection, FS_CardinalityType
<1> QED
  BY <1>1, <1>4 DEF Orders

(* What a request writes is of the right kind. *)
Typed(j) ==
    /\ j.op \in {"hours", "dayHours"} => j.new \subseteq Shifts
    /\ j.op \in {"newCategory", "newItem"} => j.pos \in 1..MaxPosition
    /\ j.op = "newItem" => /\ j.price \in Prices /\ j.discounted \in Prices \cup {None}
                           /\ j.available \in BOOLEAN
    /\ j.op = "update" => j.new[1] \in Prices /\ j.new[2] \in Prices \cup {None}
    /\ j.op = "toggle" => j.available \in BOOLEAN
    /\ j.op \in {"sortCategories", "sortItems"} => \A x \in j.rows : j.order[x] \in 1..MaxPosition

TypedOps == {"hours", "dayHours", "newCategory", "newItem", "update", "toggle", "sortCategories", "sortItems"}

(* A row has a position; 0 is for none. *)
Numbered ==
    /\ \A c \in Categories : catState[c] # "NONE" => catPos[c] >= 1
    /\ \A i \in Items : itemState[i] # "NONE" => itemPos[i] >= 1

RowTypes == RestaurantsTypeOK /\ MenusTypeOK /\ Numbered

MenuTypes == RowTypes /\ \A s \in Sessions : Typed(job[s])

LEMMA Untyped == ASSUME NEW j, j.op \notin TypedOps PROVE Typed(j)
BY DEF Typed, TypedOps

LEMMA RowTypesStay ==
    ASSUME RowTypes, UNCHANGED <<restaurantVars, menuVars>>
    PROVE  RowTypes'
BY DEF RowTypes, RestaurantsTypeOK, MenusTypeOK, Numbered, restaurantVars, menuVars, catVars, itemVars

(* A request begins, goes on or ends. *)
LEMMA JobTyped ==
    ASSUME MenuTypes, NEW s \in Sessions, NEW j, job' = [job EXCEPT ![s] = j], Typed(j),
           job = [t \in Sessions |-> job[t]]
    PROVE  \A t \in Sessions : Typed(job'[t])
<1>1. \A t \in Sessions : job'[t] = job[t] \/ job'[t] = j
  OBVIOUS
<1> QED
  BY <1>1 DEF MenuTypes

(* Sessions whose request ends or has lost its row write nothing more. *)
LEMMA JobsTyped ==
    ASSUME MenuTypes, \A t \in Sessions : job'[t] = job[t] \/ job'[t].op \notin TypedOps
    PROVE  \A t \in Sessions : Typed(job'[t])
BY Untyped DEF MenuTypes

LEMMA BegunTyped ==
    ASSUME MenuTypes, MenuInv, NEW s \in Sessions, NEW j, Begin(s, j), Typed(j),
           UNCHANGED <<restaurantVars, menuVars>>
    PROVE  MenuTypes'
<1>1. \A t \in Sessions : Typed(job'[t])
  BY JobTyped DEF Begin, MenuInv, MenuFunctions
<1>2. RowTypes'
  BY RowTypesStay DEF MenuTypes
<1> QED
  BY <1>1, <1>2 DEF MenuTypes

(* The restaurant's requests. *)
LEMMA OwnerAsksTyped ==
    ASSUME MenuTypes, MenuInv, NEW s \in Sessions, NEW r \in Restaurants,
           RestaurantRequest(s, r), UNCHANGED menuVars
    PROVE  MenuTypes'
<1>1. ASSUME NEW j, Begin(s, j), j.op \notin TypedOps, UNCHANGED restaurantVars PROVE MenuTypes'
  BY <1>1, BegunTyped, Untyped
<1>2. ASSUME NEW op \in {"documents", "activate", "pause", "resume", "closure", "delete"}, Load(s, op, r)
      PROVE  MenuTypes'
  <2>1. [op |-> op, r |-> r, stage |-> stage[r]].op \notin TypedOps
    BY <1>2 DEF TypedOps
  <2> QED
    BY <1>1, <1>2, <2>1 DEF Load
<1>3. CASE DraftRead(s, r)
  <2>1. [op |-> "draft", r |-> r].op \notin TypedOps
    BY DEF TypedOps
  <2> QED
    BY <1>1, <1>3, <2>1 DEF DraftRead
<1>4. ASSUME NEW h \in HoursUpload, HoursRead(s, r, h) PROVE MenuTypes'
  <2>1. Typed([op |-> "hours", r |-> r, stage |-> stage[r], old |-> hours[r], new |-> h])
    BY DEF Typed, HoursUpload
  <2> QED
    BY <1>4, <2>1, BegunTyped DEF HoursRead
<1>5. ASSUME NEW h \in HoursUpload, DayHoursRead(s, r, h) PROVE MenuTypes'
  <2>1. Typed([op |-> "dayHours", r |-> r, old |-> hours[r], new |-> h])
    BY DEF Typed, HoursUpload
  <2> QED
    BY <1>5, <2>1, BegunTyped DEF DayHoursRead
<1>6. CASE ReopenRead(s, r)
  <2>1. PICK c \in ActiveClosures(r) :
            Begin(s, [op |-> "reopen", r |-> r, closure |-> c]) /\ UNCHANGED restaurantVars
    BY <1>6 DEF ReopenRead
  <2>2. [op |-> "reopen", r |-> r, closure |-> c].op \notin TypedOps
    BY DEF TypedOps
  <2> QED
    BY <1>1, <2>1, <2>2
<1> QED
  BY <1>2, <1>3, <1>4, <1>5, <1>6 DEF RestaurantRequest, DocumentsRead, ActivateRead, PauseRead,
     ResumeRead, ClosureRead, DeleteRead

(* The menu's requests. *)
LEMMA CategoryAsksTyped ==
    ASSUME MenuTypes, MenuInv, NEW s \in Sessions, NEW c \in Categories, CategoryRequest(s, c)
    PROVE  MenuTypes'
<1> DEFINE r == RestaurantOf[c]
           rows == CategoriesOf(r)
<1>1. r \in Restaurants /\ \A d \in rows : d \in Categories /\ catPos[d] \in 1..MaxPosition
  BY MenuAssumption DEF MenuTypes, RowTypes, MenusTypeOK, Numbered, CategoriesOf
<1>2. CASE CategoryRead(s, c)
  <2> DEFINE top == Highest({catPos[d] : d \in rows} \cup {0}) + 1
             j == [op |-> "newCategory", r |-> r, cat |-> c, pos |-> top]
  <2>1. top \in 1..MaxPosition
    <3>1. \A d \in rows : catPos[d] \in 0..MaxPosition /\ catPos[d] < MaxPosition
      BY <1>1, <1>2, MenuAssumption DEF CategoryRead
    <3> HIDE DEF rows
    <3> QED
      BY <3>1, NextPosition
  <2>2. Typed(j)
    <3> HIDE DEF top
    <3> QED
      BY <2>1 DEF Typed
  <2> QED
    BY <1>2, <2>2, BegunTyped DEF CategoryRead
<1>3. CASE ReorderCategoriesRead(s, r)
  <2>1. PICK o \in Orders(rows) :
            /\ Begin(s, [op |-> "sortCategories", r |-> r, rows |-> rows, order |-> o, pos |-> catPos])
            /\ UNCHANGED <<restaurantVars, menuVars>>
    BY <1>3 DEF ReorderCategoriesRead
  <2>2. UniqueOver(rows, catPos)
    BY <1>1 DEF MenuInv, MenuIsOrdered
  <2>3. \A x \in rows : o[x] \in 1..MaxPosition
    <3> HIDE DEF rows
    <3> QED
      BY <1>1, <2>2, OrdersFit
  <2>4. Typed([op |-> "sortCategories", r |-> r, rows |-> rows, order |-> o, pos |-> catPos])
    BY <2>3 DEF Typed
  <2> QED
    BY <2>1, <2>4, BegunTyped
<1>4. ASSUME NEW op \in DOMAIN CategoryOp, CategoryLoad(s, op, c) PROVE MenuTypes'
  <2>1. op \in {"archiveCat", "unarchiveCat", "deleteCat"}
    BY DEF CategoryOp
  <2>2. Typed([op |-> op, r |-> r, cat |-> c])
    BY <2>1 DEF Typed
  <2> QED
    BY <1>4, <2>2, BegunTyped DEF CategoryLoad
<1> QED
  BY <1>2, <1>3, <1>4 DEF CategoryRequest

LEMMA ItemAsksTyped ==
    ASSUME MenuTypes, MenuInv, NEW s \in Sessions, NEW i \in Items,
           \/ ItemRequest(s, i)
           \/ \E p \in Prices, d \in Prices \cup {None} : UpdateRead(s, i, p, d)
    PROVE  MenuTypes'
<1> DEFINE c == HomeOf[i]
           rows == ItemsOf(c)
<1>1. c \in Categories /\ \A x \in rows : x \in Items /\ itemPos[x] \in 1..MaxPosition
  BY MenuAssumption DEF MenuTypes, RowTypes, MenusTypeOK, Numbered, ItemsOf
<1>2. ASSUME NEW op, NEW more, ItemLoad(s, op, i, more), op \in ItemOps,
             op = "update" => more[1] \in Prices /\ more[2] \in Prices \cup {None}
      PROVE  MenuTypes'
  <2> DEFINE j == [op |-> op, r |-> RestaurantOfItem(i), item |-> i, available |-> available[i],
                   price |-> price[i], discounted |-> discounted[i], new |-> more]
  <2>1. available[i] \in BOOLEAN
    BY DEF MenuTypes, RowTypes, MenusTypeOK
  <2>2. Typed(j)
    BY <1>2, <2>1 DEF Typed, ItemOps
  <2> QED
    BY <1>2, <2>2, BegunTyped DEF ItemLoad
<1>3. ASSUME NEW a \in BOOLEAN, ItemRead(s, i, Highest(Prices), None, a) PROVE MenuTypes'
  <2> DEFINE top == Highest({itemPos[x] : x \in rows} \cup {0}) + 1
             j == [op |-> "newItem", r |-> RestaurantOf[c], cat |-> c, item |-> i,
                   stage |-> stage[RestaurantOf[c]], price |-> Highest(Prices), discounted |-> None,
                   available |-> a, pos |-> top]
  <2>1. top \in 1..MaxPosition
    <3>1. \A x \in rows : itemPos[x] \in 0..MaxPosition /\ itemPos[x] < MaxPosition
      BY <1>1, <1>3, MenuAssumption DEF ItemRead
    <3> HIDE DEF rows
    <3> QED
      BY <3>1, NextPosition
  <2>2. Highest(Prices) \in Prices
    BY MenuAssumption DEF Highest
  <2>3. Typed(j)
    <3> HIDE DEF top
    <3> QED
      BY <2>1, <2>2 DEF Typed
  <2> QED
    BY <1>3, <2>3, BegunTyped DEF ItemRead
<1>4. CASE ReorderItemsRead(s, c)
  <2>1. PICK o \in Orders(rows) :
            /\ Begin(s, [op |-> "sortItems", r |-> RestaurantOf[c], cat |-> c, rows |-> rows,
                         order |-> o, pos |-> itemPos])
            /\ UNCHANGED <<restaurantVars, menuVars>>
    BY <1>4 DEF ReorderItemsRead
  <2>2. UniqueOver(rows, itemPos)
    BY <1>1 DEF MenuInv, MenuIsOrdered
  <2>3. \A x \in rows : o[x] \in 1..MaxPosition
    <3> HIDE DEF rows
    <3> QED
      BY <1>1, <2>2, OrdersFit
  <2>4. Typed([op |-> "sortItems", r |-> RestaurantOf[c], cat |-> c, rows |-> rows,
               order |-> o, pos |-> itemPos])
    BY <2>3 DEF Typed
  <2> QED
    BY <2>1, <2>4, BegunTyped
<1>5. CASE ToggleRead(s, i) \/ ArchiveRead(s, i) \/ UnarchiveRead(s, i) \/ DeleteItemRead(s, i)
  BY <1>2, <1>5 DEF ToggleRead, ArchiveRead, UnarchiveRead, DeleteItemRead, ItemOps
<1>6. ASSUME NEW p \in Prices, NEW d \in Prices \cup {None}, UpdateRead(s, i, p, d) PROVE MenuTypes'
  <2>1. <<p, d>>[1] = p /\ <<p, d>>[2] = d
    OBVIOUS
  <2> QED
    BY <1>2, <1>6, <2>1 DEF UpdateRead, ItemOps
<1> QED
  BY <1>3, <1>4, <1>5, <1>6 DEF ItemRequest

-----------------------------------------------------------------------------
(* The commits. *)
LEMMA EndTyped ==
    ASSUME MenuTypes, MenuInv, NEW s \in Sessions, End(s), RowTypes'
    PROVE  MenuTypes'
<1>1. Typed(Idle)
  BY DEF Typed, Idle
<1>2. \A t \in Sessions : Typed(job'[t])
  BY <1>1, JobTyped DEF End, MenuInv, MenuFunctions
<1> QED
  BY <1>2 DEF MenuTypes

LEMMA RestaurantWritesTyped ==
    ASSUME MenuTypes, OwnerInv, NEW s \in Sessions, RestaurantStep(s)
    PROVE  RestaurantsTypeOK'
<1> DEFINE j == job[s]
           r == j.r
<1>0. Saw(j, activated, menuMade) /\ Typed(j) /\ RestaurantsTypeOK
  BY DEF OwnerInv, MenuTypes, RowTypes
<1>1. CASE DraftExists(s) \/ HoursClash(s) \/ RowGone(s)
  BY <1>0, <1>1 DEF DraftExists, HoursClash, RowGone, restaurantVars, RestaurantsTypeOK
<1>2. CASE create_restaurant_draft(s) \/ activate_restaurant(s)
  BY <1>0, <1>2 DEF create_restaurant_draft, activate_restaurant, RestaurantsTypeOK, RestaurantStatus
<1>3. CASE upload_restaurant_documents(s)
  BY <1>0, <1>3 DEF upload_restaurant_documents, Flushed, RestaurantsTypeOK, RestaurantStatus
<1>4. CASE create_restaurant_hours(s) \/ update_day_hours(s)
  <2>1. j.new \subseteq Shifts /\ r \in Restaurants
    BY <1>0, <1>4 DEF create_restaurant_hours, update_day_hours, Typed, Saw, RowRequests
  <2>2. Replaced(j) \subseteq Shifts
    BY <1>0, <2>1 DEF Replaced, RestaurantsTypeOK
  <2>3. CASE create_restaurant_hours(s)
    BY <1>0, <2>2, <2>3 DEF create_restaurant_hours, Flushed, RestaurantsTypeOK, RestaurantStatus
  <2>4. CASE update_day_hours(s)
    BY <1>0, <2>2, <2>4 DEF update_day_hours, RestaurantsTypeOK
  <2> QED
    BY <1>4, <2>3, <2>4
<1>5. CASE pause_restaurant(s) \/ resume_restaurant(s)
  BY <1>0, <1>5 DEF pause_restaurant, resume_restaurant, RestaurantsTypeOK
<1>6. CASE create_closure(s)
  <2>1. r \in Restaurants
    BY <1>0, <1>6 DEF create_closure, Saw, RowRequests
  <2> QED
    BY <1>0, <1>6, <2>1 DEF create_closure, RestaurantsTypeOK
<1>7. CASE delete_closure(s)
  BY <1>0, <1>7 DEF delete_closure, RestaurantsTypeOK
<1>8. CASE delete_restaurant(s)
  BY <1>0, <1>8 DEF delete_restaurant, RestaurantsTypeOK
<1> QED
  BY <1>1, <1>2, <1>3, <1>4, <1>5, <1>6, <1>7, <1>8 DEF RestaurantStep

LEMMA OwnerWritesTyped ==
    ASSUME MenuTypes, OwnerInv, MenuInv, NEW s \in Sessions, OwnerStep(s)
    PROVE  MenuTypes'
<1>1. RestaurantsTypeOK'
  BY RestaurantWritesTyped DEF OwnerStep
<1>2. MenusTypeOK' /\ Numbered'
  <2>1. CASE UNCHANGED menuVars
    BY <2>1 DEF MenuTypes, RowTypes, MenusTypeOK, Numbered, menuVars, catVars, itemVars
  <2>2. CASE MenuGoesWith(s)
    <3>1. MenusTypeOK /\ Numbered /\ 0 \in 0..MaxPosition
      BY MenuAssumption DEF MenuTypes, RowTypes
    <3>2. MenusTypeOK'
      <4>1. /\ catState' \in [Categories -> MenuStatus \cup {"NONE"}]
            /\ catPos' \in [Categories -> 0..MaxPosition]
        BY <2>2, <3>1 DEF MenuGoesWith, MenusTypeOK
      <4>2. /\ itemState' \in [Items -> MenuStatus \cup {"NONE"}]
            /\ itemPos' \in [Items -> 0..MaxPosition]
            /\ available' \in [Items -> BOOLEAN]
        BY <2>2, <3>1 DEF MenuGoesWith, MenusTypeOK
      <4>3. price' \in [Items -> Prices \cup {0}] /\ discounted' \in [Items -> Prices \cup {None}]
        BY <2>2, <3>1 DEF MenuGoesWith, MenusTypeOK
      <4> QED
        BY <4>1, <4>2, <4>3 DEF MenusTypeOK
    <3>3. Numbered'
      BY <2>2, <3>1 DEF MenuGoesWith, Numbered
    <3> QED
      BY <3>2, <3>3
  <2> QED
    BY <2>1, <2>2 DEF OwnerStep
<1>3. \A t \in Sessions : job'[t] = job[t] \/ job'[t].op \notin TypedOps
  <2>1. End(s) => \A t \in Sessions : job'[t] = job[t] \/ job'[t].op \notin TypedOps
    BY DEF End, Idle, TypedOps, MenuInv, MenuFunctions
  <2>2. delete_restaurant(s) => \A t \in Sessions : job'[t] = job[t] \/ job'[t].op \notin TypedOps
    BY DEF delete_restaurant, Idle, TypedOps
  <2>3. End(s) \/ delete_restaurant(s)
    BY DEF OwnerStep, RestaurantStep, create_restaurant_draft, DraftExists,
       upload_restaurant_documents, activate_restaurant, create_restaurant_hours, update_day_hours,
       HoursClash, pause_restaurant, resume_restaurant, create_closure, delete_closure, RowGone
  <2> QED
    BY <2>1, <2>2, <2>3
<1> QED
  BY <1>1, <1>2, <1>3, JobsTyped DEF MenuTypes, RowTypes

(* A reorder writes the places it was given, and leaves the others.        *)
LEMMA ReorderedFits ==
    ASSUME MaxPosition \in Nat, NEW D, NEW pos \in [D -> 0..MaxPosition], NEW j,
           \A x \in j.rows : j.order[x] \in 1..MaxPosition
    PROVE  /\ Reordered(pos, j) \in [D -> 0..MaxPosition]
           /\ \A x \in D : pos[x] >= 1 => Reordered(pos, j)[x] >= 1
<1>1. DOMAIN pos = D
  OBVIOUS
<1>2. Reordered(pos, j) = [x \in D |-> IF x \in j.rows THEN Flushed(pos[x], j.pos[x], j.order[x]) ELSE pos[x]]
  BY <1>1 DEF Reordered
<1>3. \A x \in D : Reordered(pos, j)[x] = pos[x] \/ Reordered(pos, j)[x] \in 1..MaxPosition
  BY <1>2 DEF Flushed
<1> QED
  BY <1>2, <1>3

LEMMA CategoryWritesTyped ==
    ASSUME MenuTypes, MenuInv, NEW s \in Sessions, CategoryStep(s)
    PROVE  MenuTypes'
<1> USE DEF catVars, itemVars, menuVars
<1> DEFINE j == job[s]
           c == j.cat
<1>0. /\ Typed(j) /\ Relies(j, stage, catState, itemState)
      /\ RestaurantsTypeOK /\ MenusTypeOK /\ Numbered /\ MaxPosition \in Nat
  BY MenuAssumption DEF MenuTypes, MenuInv, RowTypes
<1>1. ASSUME UNCHANGED restaurantVars, MenusTypeOK', Numbered' PROVE RowTypes'
  BY <1>0, <1>1 DEF RowTypes, RestaurantsTypeOK, restaurantVars
<1>2. CASE CategoryTaken(s) \/ ReorderCategoriesFails(s) \/ DeleteCategoryFails(s)
  <2>1. End(s) /\ UNCHANGED <<restaurantVars, menuVars>>
    BY <1>2 DEF CategoryTaken, ReorderCategoriesFails, DeleteCategoryFails, Refused
  <2>2. RowTypes
    BY DEF MenuTypes
  <2> QED
    BY <2>1, <2>2, RowTypesStay, EndTyped
<1>3. CASE create_menu_category(s)
  <2>1. /\ j.pos \in 1..MaxPosition /\ End(s) /\ UNCHANGED <<itemVars, restaurantVars>>
        /\ catState' = [catState EXCEPT ![c] = "ACTIVE"] /\ catPos' = [catPos EXCEPT ![c] = j.pos]
    BY <1>0, <1>3 DEF create_menu_category, Typed
  <2>2. j.pos \in 0..MaxPosition /\ j.pos >= 1 /\ "ACTIVE" \in MenuStatus \cup {"NONE"}
    BY <1>0, <2>1 DEF MenuStatus
  <2>3. MenusTypeOK'
    BY <1>0, <2>1, <2>2 DEF MenusTypeOK
  <2>4. Numbered'
    BY <1>0, <2>1, <2>2 DEF MenusTypeOK, Numbered
  <2> QED
    BY <1>1, <2>1, <2>3, <2>4, EndTyped
<1>4. CASE reorder_menu_categories(s)
  <2>1. /\ \A x \in j.rows : j.order[x] \in 1..MaxPosition
        /\ End(s) /\ UNCHANGED <<catState, itemVars, restaurantVars>> /\ catPos' = Reordered(catPos, j)
    BY <1>0, <1>4 DEF reorder_menu_categories, Typed
  <2>2. catPos \in [Categories -> 0..MaxPosition]
    BY <1>0 DEF MenusTypeOK
  <2>3. /\ catPos' \in [Categories -> 0..MaxPosition]
        /\ \A x \in Categories : catPos[x] >= 1 => catPos'[x] >= 1
    BY <1>0, <2>1, <2>2, ReorderedFits
  <2>4. MenusTypeOK' /\ Numbered'
    BY <1>0, <2>1, <2>3 DEF MenusTypeOK, Numbered
  <2> QED
    BY <1>1, <2>1, <2>4, EndTyped
<1>5. CASE archive_menu_category(s) \/ unarchive_menu_category(s)
  <2>1. /\ \E new \in MenuStatus : catState' = [catState EXCEPT ![c] = new]
        /\ c \in Categories /\ catState[c] # "NONE"
        /\ End(s) /\ UNCHANGED <<catPos, itemVars, restaurantVars>>
    BY <1>0, <1>5 DEF archive_menu_category, unarchive_menu_category, MenuStatus, Relies, CategoryOps
  <2>2. MenusTypeOK'
    BY <1>0, <2>1 DEF MenusTypeOK
  <2>3. Numbered'
    BY <1>0, <2>1 DEF MenusTypeOK, Numbered
  <2> QED
    BY <1>1, <2>1, <2>2, <2>3, EndTyped
<1>6. CASE delete_menu_category(s)
  <2>1. /\ catState' = [catState EXCEPT ![c] = "NONE"] /\ catPos' = [catPos EXCEPT ![c] = 0]
        /\ UNCHANGED <<itemVars, restaurantVars>>
        /\ job' = [t \in Sessions |-> IF t = s THEN Idle
                                      ELSE IF WritesCategory(job[t], c) THEN [op |-> "gone"] ELSE job[t]]
    BY <1>6 DEF delete_menu_category, Orphan
  <2>2. MenusTypeOK' /\ Numbered'
    <3>1. 0 \in 0..MaxPosition
      BY <1>0
    <3>2. MenusTypeOK'
      BY <1>0, <2>1, <3>1 DEF MenusTypeOK
    <3>3. Numbered'
      BY <1>0, <2>1 DEF MenusTypeOK, Numbered
    <3> QED
      BY <3>2, <3>3
  <2>3. \A t \in Sessions : job'[t] = job[t] \/ job'[t].op \notin TypedOps
    BY <2>1 DEF Idle, TypedOps
  <2> QED
    BY <1>1, <2>1, <2>2, <2>3, JobsTyped DEF MenuTypes
<1> QED
  BY <1>2, <1>3, <1>4, <1>5, <1>6 DEF CategoryStep

LEMMA ItemWritesTyped ==
    ASSUME MenuTypes, OwnerInv, MenuInv, NEW s \in Sessions, NEW held, ItemStep(s, held)
    PROVE  MenuTypes'
<1> USE DEF catVars, itemVars, menuVars
<1> DEFINE j == job[s]
           i == j.item
<1>0. /\ Typed(j) /\ Relies(j, stage, catState, itemState) /\ Saw(j, activated, menuMade)
      /\ RestaurantsTypeOK /\ MenusTypeOK /\ Numbered /\ MaxPosition \in Nat
      /\ 0 \in 0..MaxPosition /\ "ACTIVE" \in MenuStatus /\ "ARCHIVED" \in MenuStatus
  BY MenuAssumption DEF MenuTypes, MenuInv, OwnerInv, RowTypes, MenuStatus
<1>1. ASSUME UNCHANGED restaurantVars, MenusTypeOK', Numbered' PROVE RowTypes'
  BY <1>0, <1>1 DEF RowTypes, RestaurantsTypeOK, restaurantVars
<1>2. CASE ItemTaken(s) \/ ReorderItemsFails(s) \/ DeleteItemFails(s, held)
  <2>1. End(s) /\ UNCHANGED <<restaurantVars, menuVars>>
    BY <1>2 DEF ItemTaken, ReorderItemsFails, DeleteItemFails, Refused
  <2>2. RowTypes
    BY DEF MenuTypes
  <2> QED
    BY <2>1, <2>2, RowTypesStay, EndTyped
<1>3. CASE create_menu_item(s)
  <2>1. /\ j.pos \in 0..MaxPosition /\ j.pos >= 1 /\ j.available \in BOOLEAN
        /\ j.price \in Prices /\ j.discounted \in Prices \cup {None}
    BY <1>0, <1>3 DEF create_menu_item, Typed
  <2>2. MenusTypeOK'
    <3>1. /\ itemState' \in [Items -> MenuStatus \cup {"NONE"}]
          /\ itemPos' \in [Items -> 0..MaxPosition]
          /\ available' \in [Items -> BOOLEAN]
      BY <1>0, <1>3, <2>1 DEF create_menu_item, NewPositions, MenusTypeOK
    <3>2. price' \in [Items -> Prices \cup {0}] /\ discounted' \in [Items -> Prices \cup {None}]
      BY <1>0, <1>3, <2>1 DEF create_menu_item, MenusTypeOK
    <3> QED
      BY <1>0, <1>3, <3>1, <3>2 DEF create_menu_item, MenusTypeOK
  <2>3. Numbered'
    BY <1>0, <1>3, <2>1 DEF create_menu_item, NewPositions, MenusTypeOK, Numbered
  <2>4. RestaurantsTypeOK'
    BY <1>0, <1>3 DEF create_menu_item, RestaurantsTypeOK, RestaurantStatus
  <2> QED
    BY <1>3, <2>2, <2>3, <2>4, EndTyped DEF create_menu_item, RowTypes
<1>4. CASE reorder_menu_items_for_category(s)
  <2>1. /\ \A x \in j.rows : j.order[x] \in 1..MaxPosition
        /\ End(s) /\ UNCHANGED <<catVars, itemState, available, price, discounted, restaurantVars>>
        /\ itemPos' = Reordered(itemPos, j)
    BY <1>0, <1>4 DEF reorder_menu_items_for_category, Typed
  <2>2. itemPos \in [Items -> 0..MaxPosition]
    BY <1>0 DEF MenusTypeOK
  <2>3. /\ itemPos' \in [Items -> 0..MaxPosition]
        /\ \A x \in Items : itemPos[x] >= 1 => itemPos'[x] >= 1
    BY <1>0, <2>1, <2>2, ReorderedFits
  <2>4. MenusTypeOK' /\ Numbered'
    BY <1>0, <2>1, <2>3 DEF MenusTypeOK, Numbered
  <2> QED
    BY <1>1, <2>1, <2>4, EndTyped
<1>5. CASE update_menu_item(s)
  <2>1. j.new[1] \in Prices /\ j.new[2] \in Prices \cup {None}
    BY <1>0, <1>5 DEF update_menu_item, Typed
  <2>2. MenusTypeOK' /\ Numbered'
    BY <1>0, <1>5, <2>1 DEF update_menu_item, Flushed, MenusTypeOK, Numbered
  <2> QED
    BY <1>1, <1>5, <2>2, EndTyped DEF update_menu_item
<1>6. CASE toggle_menu_item_availability(s)
  <2>1. j.available \in BOOLEAN
    BY <1>0, <1>6 DEF toggle_menu_item_availability, Typed
  <2>2. MenusTypeOK' /\ Numbered'
    BY <1>0, <1>6, <2>1 DEF toggle_menu_item_availability, MenusTypeOK, Numbered
  <2> QED
    BY <1>1, <1>6, <2>2, EndTyped DEF toggle_menu_item_availability
<1>7. CASE archive_menu_item(s) \/ unarchive_menu_item(s)
  <2>1. /\ \E new \in MenuStatus : itemState' = [itemState EXCEPT ![i] = new]
        /\ i \in Items /\ itemState[i] # "NONE"
        /\ \E a \in {available[i], FALSE} : available' = [available EXCEPT ![i] = a]
        /\ End(s) /\ UNCHANGED <<itemPos, price, discounted, catVars, restaurantVars>>
    BY <1>0, <1>7 DEF archive_menu_item, unarchive_menu_item, Relies, ItemOps, Flushed
  <2>2. MenusTypeOK'
    <3>1. itemState' \in [Items -> MenuStatus \cup {"NONE"}] /\ available[i] \in BOOLEAN
      BY <1>0, <2>1 DEF MenusTypeOK
    <3>2. available' \in [Items -> BOOLEAN]
      BY <1>0, <2>1, <3>1 DEF MenusTypeOK
    <3> QED
      BY <1>0, <2>1, <3>1, <3>2 DEF MenusTypeOK
  <2>3. Numbered'
    BY <1>0, <2>1 DEF MenusTypeOK, Numbered
  <2> QED
    BY <1>1, <2>1, <2>2, <2>3, EndTyped
<1>8. CASE delete_menu_item(s, held)
  <2>1. job' = [t \in Sessions |->
                   IF t = s THEN Idle
                   ELSE IF \/ job[t].op \in ItemOps /\ job[t].item = i
                           \/ Moves(job[t], "sortItems", i)
                        THEN [op |-> "gone"] ELSE job[t]]
    BY <1>8 DEF delete_menu_item, Orphan
  <2>2. MenusTypeOK'
    BY <1>0, <1>8 DEF delete_menu_item, MenusTypeOK
  <2>3. Numbered'
    BY <1>0, <1>8 DEF delete_menu_item, MenusTypeOK, Numbered
  <2>4. \A t \in Sessions : job'[t] = job[t] \/ job'[t].op \notin TypedOps
    BY <2>1 DEF Idle, TypedOps
  <2> QED
    BY <1>1, <1>8, <2>2, <2>3, <2>4, JobsTyped DEF delete_menu_item, MenuTypes
<1> QED
  BY <1>2, <1>3, <1>4, <1>5, <1>6, <1>7, <1>8 DEF ItemStep

-----------------------------------------------------------------------------
LEMMA InitMenuTypes == MenusInit => MenuTypes
<1> SUFFICES ASSUME MenusInit PROVE MenuTypes
  OBVIOUS
<1>1. RestaurantsTypeOK
  BY DEF MenusInit, NoRestaurants, RestaurantsTypeOK
<1>2. MenusTypeOK /\ Numbered
  BY MenuAssumption DEF MenusInit, NoMenu, MenusTypeOK, Numbered
<1>3. \A s \in Sessions : Typed(job[s])
  BY DEF MenusInit, Idle, Typed
<1> QED
  BY <1>1, <1>2, <1>3 DEF MenuTypes, RowTypes

LEMMA NextKeepsMenuTypes ==
    MenuTypes /\ OwnerInv /\ MenuInv /\ [MenusNext]_<<job, restaurantVars, menuVars>> => MenuTypes'
<1> SUFFICES ASSUME MenuTypes, OwnerInv, MenuInv, [MenusNext]_<<job, restaurantVars, menuVars>>
             PROVE  MenuTypes'
  OBVIOUS
<1>1. ASSUME NEW s \in Sessions, MenuRowGone(s) PROVE MenuTypes'
  <2>1. RowTypes'
    BY <1>1, RowTypesStay DEF MenuTypes, MenuRowGone, Refused
  <2> QED
    BY <1>1, <2>1, EndTyped DEF MenuRowGone, Refused
<1>2. ASSUME NEW c \in Closures, ClosureEnds(c), UNCHANGED menuVars PROVE MenuTypes'
  BY <1>2 DEF ClosureEnds, MenuTypes, RowTypes, RestaurantsTypeOK, MenusTypeOK, Numbered,
     menuVars, catVars, itemVars
<1>3. CASE UNCHANGED <<job, restaurantVars, menuVars>>
  BY <1>3, RowTypesStay DEF MenuTypes
<1> QED
  BY <1>1, <1>2, <1>3, OwnerWritesTyped, CategoryWritesTyped, ItemWritesTyped, OwnerAsksTyped,
     CategoryAsksTyped, ItemAsksTyped DEF MenusNext, OwnerArrives

=============================================================================
