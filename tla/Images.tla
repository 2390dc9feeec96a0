------------------------------- MODULE Images -------------------------------
(***************************************************************************)
(* Pictures of one restaurant and one of its items.  A picture is an       *)
(* object in the public storage and a row that holds its key; the two are  *)
(* written one after the other, and either write may fail or the process   *)
(* may die in between.  Keys are fresh (uuid4 file names), so the next     *)
(* upload takes the next numbers.                                          *)
(***************************************************************************)
EXTENDS Handlers

CONSTANTS
    LastKey,        \* bound on the keys ever handed out
    MaxFiles,       \* MAX_FILES_PER_REQUEST
    ImageCap        \* the three limits of the settings, by image type

ASSUME ImagesAssumption == LastKey \in Nat /\ MaxFiles \in Nat

VARIABLES
    objects,        \* keys present in the storage
    lastKey,        \* keys 1..lastKey have been handed out
    gallery,        \* keys of the RestaurantImage rows that are not primary
    primaryKey,     \* key of the primary row, NoKey when there is none
    itemImage,      \* key of the item's MenuItemImage row
    owners          \* the rows the pictures hang from that still exist

imageVars == <<objects, lastKey, gallery, primaryKey, itemImage, owners>>

NoKey == 0
ImageTypes == {"RESTAURANT_PHOTO", "FOOD_GALLERY", "DINING_MENU"}
Held(key) == {key} \ {NoKey}

(* Every RestaurantImage row; the primary one is a restaurant photo. *)
GalleryKeys == UNION {gallery[t] : t \in ImageTypes}
RestaurantRows == GalleryKeys \union Held(primaryKey)
RowKeys == RestaurantRows \union Held(itemImage)

NoImages ==
    /\ objects = {} /\ lastKey = 0
    /\ gallery = [t \in ImageTypes |-> {}]
    /\ primaryKey = NoKey /\ itemImage = NoKey
    /\ owners = {"restaurant", "item"}

-----------------------------------------------------------------------------
(* Checks and image processing; kind is an image type, "primary" or "item".*)
Upload(s, kind, n) ==
    /\ "restaurant" \in owners
    /\ lastKey + n <= LastKey
    /\ Begin(s, [op |-> "upload", kind |-> kind, keys |-> lastKey + 1..lastKey + n, old |-> NoKey])
    /\ lastKey' = lastKey + n
    /\ UNCHANGED <<objects, gallery, primaryKey, itemImage, owners>>

(* The photo and the food limit count every image of the restaurant. *)
upload_restaurant_images(s, n) ==
    /\ Cardinality(RestaurantRows) + n <= ImageCap["RESTAURANT_PHOTO"]
    /\ Upload(s, "RESTAURANT_PHOTO", n)

upload_restaurant_food_images(s, n) ==
    /\ Cardinality(RestaurantRows) + n <= ImageCap["FOOD_GALLERY"]
    /\ Upload(s, "FOOD_GALLERY", n)

upload_restaurant_dining_menu_images(s, n) ==
    /\ Cardinality(gallery["DINING_MENU"]) + n <= ImageCap["DINING_MENU"]
    /\ Upload(s, "DINING_MENU", n)

upload_primary_image_for_restaurant(s) == Upload(s, "primary", 1)

upload_image_for_menu_item(s) == "item" \in owners /\ Upload(s, "item", 1)

Replacing(kind) ==
    CASE kind = "primary" -> primaryKey [] kind = "item" -> itemImage [] OTHER -> NoKey

(* The upload goes on with the key of the row it replaces. *)
Stored(j) == [op |-> "stored", kind |-> j.kind, keys |-> j.keys, old |-> Replacing(j.kind)]

(* An upload that makes room before its row is committed. *)
StoreAndRemoveOld(s) ==
    /\ job[s].op = "upload"
    /\ objects' = (objects \union job[s].keys) \ Held(Replacing(job[s].kind))
    /\ Continue(s, Stored(job[s]))
    /\ UNCHANGED <<lastKey, gallery, primaryKey, itemImage, owners>>

(* All puts succeed; a replacing upload then reads the row it replaces. *)
StoreObjects(s) ==
    /\ job[s].op = "upload"
    /\ objects' = objects \union job[s].keys
    /\ Continue(s, Stored(job[s]))
    /\ UNCHANGED <<lastKey, gallery, primaryKey, itemImage, owners>>

(* One put of the gather fails: uploaded_keys is still empty, so the       *)
(* cleanup deletes nothing and the other puts stay.                        *)
PutFails(s) ==
    /\ job[s].op = "upload"
    /\ \E K \in SUBSET job[s].keys : K # job[s].keys /\ objects' = objects \union K
    /\ End(s)
    /\ UNCHANGED <<lastKey, gallery, primaryKey, itemImage, owners>>

(* unique_primary_per_restaurant, uq_menu_item_image and the foreign keys; *)
(* an UPDATE of a row that has gone raises as well.                        *)
Accepted(j) ==
    /\ "restaurant" \in owners
    /\ j.kind = "primary" => primaryKey \in {j.old, NoKey}
    /\ j.kind = "item" => "item" \in owners /\ (itemImage = NoKey) = (j.old = NoKey)

Save(s) ==
    /\ job[s].op = "stored"
    /\ Accepted(job[s])
    /\ LET j == job[s] IN
        /\ gallery' = [t \in ImageTypes |-> gallery[t] \union IF t = j.kind THEN j.keys ELSE {}]
        /\ \E k \in j.keys :
            /\ primaryKey' = IF j.kind = "primary" THEN k ELSE primaryKey
            /\ itemImage' = IF j.kind = "item" THEN k ELSE itemImage
        /\ IF j.old = NoKey THEN End(s) ELSE Continue(s, [op |-> "sweep", keys |-> {j.old}])
    /\ UNCHANGED <<objects, lastKey, owners>>

(* The commit raises: rollback, then a best-effort removal of the objects. *)
SaveFails(s) ==
    /\ job[s].op = "stored"
    /\ \E K \in SUBSET job[s].keys : objects' = objects \ K
    /\ End(s)
    /\ UNCHANGED <<lastKey, gallery, primaryKey, itemImage, owners>>

(* After the commit the objects no row needs are removed, best effort. *)
_cleanup_keys(s) ==
    /\ job[s].op = "sweep"
    /\ \E K \in SUBSET job[s].keys : objects' = objects \ K
    /\ End(s)
    /\ UNCHANGED <<lastKey, gallery, primaryKey, itemImage, owners>>

DeleteShopRead(s) ==
    /\ "restaurant" \in owners
    /\ Begin(s, [op |-> "delete", keys |-> RestaurantRows])
    /\ UNCHANGED imageVars

(* The rows cascade; the keys read before the delete are swept. *)
delete_restaurant_images(s) ==
    /\ job[s].op = "delete"
    /\ owners' = {}
    /\ gallery' = [t \in ImageTypes |-> {}]
    /\ primaryKey' = NoKey /\ itemImage' = NoKey
    /\ Continue(s, [op |-> "sweep", keys |-> job[s].keys])
    /\ UNCHANGED <<objects, lastKey>>

(* delete_menu_item: the image row cascades, its object is left behind. *)
ItemGoes ==
    /\ "item" \in owners
    /\ owners' = owners \ {"item"}
    /\ itemImage' = NoKey
    /\ UNCHANGED <<job, objects, lastKey, gallery, primaryKey>>

(* The worker dies at one of its awaits. *)
Crash(s) ==
    /\ job[s] # Idle
    /\ End(s)
    /\ UNCHANGED imageVars

ImageStep(s) ==
    \/ \E n \in 1..MaxFiles :
        \/ upload_restaurant_images(s, n)
        \/ upload_restaurant_food_images(s, n)
        \/ upload_restaurant_dining_menu_images(s, n)
    \/ upload_primary_image_for_restaurant(s) \/ upload_image_for_menu_item(s)
    \/ StoreObjects(s) \/ PutFails(s) \/ Save(s) \/ SaveFails(s) \/ _cleanup_keys(s)
    \/ DeleteShopRead(s) \/ delete_restaurant_images(s)
    \/ Crash(s)

ImagesInit == NoImages /\ job = [s \in Sessions |-> Idle]

ImagesNext == (\E s \in Sessions : ImageStep(s)) \/ ItemGoes

ImagesSpec == ImagesInit /\ [][ImagesNext]_<<job, imageVars>>

ImagesTypeOK ==
    /\ objects \subseteq 1..lastKey
    /\ gallery \in [ImageTypes -> SUBSET (1..lastKey)]
    /\ {primaryKey, itemImage} \subseteq 0..lastKey
    /\ owners \subseteq {"restaurant", "item"}

-----------------------------------------------------------------------------
(* No page ever shows a broken picture: whatever fails or dies half-way,   *)
(* and however two uploads of one picture or a deletion overlap, a row     *)
(* names an object that is in the storage (upload first, row second, old   *)
(* object last).                                                           *)
RowsHaveObjects == RowKeys \subseteq objects
=============================================================================
