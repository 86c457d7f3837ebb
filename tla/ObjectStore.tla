---------------------------- MODULE ObjectStore -----------------------------
(***************************************************************************)
(* The directories of a bucket (pkg/objectstore/directory.go).  A bucket   *)
(* has objects and no directories: a directory is what the names of some   *)
(* objects begin with, and the object whose name ends in "/" is its        *)
(* marker.  A handle of a directory is its path, and stays usable when the *)
(* objects are gone.  A client works with handles; others put and delete   *)
(* objects while it deletes a directory object by object.                  *)
(***************************************************************************)
EXTENDS Naturals, Sequences, FiniteSets

CONSTANTS
  Segments,     \* the parts of names
  Starts(_, _), \* which of them is, as a string, a prefix of which
  Paths,        \* the paths that are looked at: sequences of parts
  MaxKeys,      \* how many objects there may be
  MaxPuts       \* how many objects others put while a directory is deleted

ASSUME PathsAssumption == Paths \subseteq Seq(Segments)
ASSUME StartsAssumption == \A n \in Segments : Starts(n, n)

\* A directory is a path; the bucket is the empty one.  An object's name is a
\* path that ends in "/", or not.
Key(path, slash) == [path |-> path, slash |-> slash]
Keys == [path : Paths \ {<< >>}, slash : BOOLEAN]

VARIABLES
  keys,     \* the objects of the bucket
  walk      \* the client's deletion: where it is, of which directory or
            \* prefix, the objects still to be removed, and those that others
            \* have put since the listing

storeVars == <<keys, walk>>

Idle == [at |-> "idle", kind |-> "directory", dir |-> << >>, todo |-> {}, fresh |-> {}]

StoreInit == keys = {} /\ walk = Idle

\* strings.HasPrefix(name, cloudName(d.path)), where d.path ends in "/".
Below(k, d) ==
  /\ Len(d) <= Len(k.path) /\ \A i \in 1..Len(d) : k.path[i] = d[i]
  /\ Len(k.path) > Len(d) \/ k.slash

\* The same for a prefix that does not end in "/".
HasPrefix(k, d) ==
  \/ d = << >>
  \/ LET n == Len(d) IN
       /\ n <= Len(k.path) /\ \A i \in 1..(n - 1) : k.path[i] = d[i]
       /\ Starts(d[n], k.path[n])

---------------------------------------------------------------------------
(* What the client reads *)

\* GetDirectory: the marker, or, as not every store gives it out, any object.
DirectoryExists(d) == Key(d, TRUE) \in keys \/ \E k \in keys : Below(k, d)

\* getFirstDirectoryMarker: what comes before the first "/" of the rest.
IsNested(k, d) == Len(k.path) > Len(d) + 1 \/ (Len(k.path) = Len(d) + 1 /\ k.slash)

\* A fault: only the markers are looked at.
ListMarkers(d) ==
  {k.path[Len(d) + 1] : k \in {k \in keys : Below(k, d) /\ Len(k.path) = Len(d) + 1 /\ k.slash}}

ListDirectories(d) ==
  {k.path[Len(d) + 1] : k \in {k \in keys : Below(k, d) /\ IsNested(k, d)}}

ListObjects(d) ==
  {k.path[Len(d) + 1] :
     k \in {k \in keys : Below(k, d) /\ Len(k.path) = Len(d) + 1 /\ ~k.slash}}

---------------------------------------------------------------------------
(* What the client does *)

Resting == walk.at # "removing"

\* Put replaces an object of the name.
PutItem(k) ==
  /\ Cardinality(keys \cup {k}) <= MaxKeys
  /\ keys' = keys \cup {k}

\* CreateDirectory puts the marker; the names are relative to the handle d.
CreateDirectory(d, name) ==
  /\ Resting /\ d \o name \in Paths
  /\ PutItem(Key(d \o name, TRUE)) /\ walk' = Idle

Put(d, name) ==
  /\ Resting /\ d \o name \in Paths
  /\ PutItem(Key(d \o name, FALSE)) /\ walk' = Idle

Delete(d, name) ==
  /\ Resting /\ Key(d \o name, FALSE) \in keys
  /\ keys' = keys \ {Key(d \o name, FALSE)} /\ walk' = Idle

\* stow.Walk lists up to 10000 objects and calls the function for each.
Walk(kind, d, listed) ==
  walk' = [at |-> IF listed = {} THEN "ok" ELSE "removing",
           kind |-> kind, dir |-> d, todo |-> listed, fresh |-> {}]

DeleteDirectory(d) ==
  /\ Resting /\ Walk("directory", d, {k \in keys : Below(k, d)}) /\ UNCHANGED keys

\* filepath.Join removes a "/" at the end, so that names which only begin alike
\* are deleted too.
DeleteAllWithPrefix(d, name) ==
  /\ Resting /\ d \o name \in Paths
  /\ Walk("prefix", d \o name, {k \in keys : HasPrefix(k, d \o name)})
  /\ UNCHANGED keys

\* A fault: what could not be removed is skipped.
RemoveItemOrSkip(k) ==
  /\ walk.at = "removing" /\ k \in walk.todo
  /\ walk' = [walk EXCEPT !.todo = @ \ {k}, !.at = IF walk.todo = {k} THEN "ok" ELSE @]
  /\ keys' = keys \ {k} \/ UNCHANGED keys

\* deleteWithPrefix: the first object that cannot be removed ends the walk.
RemoveItem(k) ==
  /\ walk.at = "removing" /\ k \in walk.todo
  /\ \/ /\ keys' = keys \ {k}
        /\ walk' = [walk EXCEPT !.todo = @ \ {k}, !.fresh = @ \ {k},
                                !.at = IF walk.todo = {k} THEN "ok" ELSE @]
     \/ walk' = Idle /\ UNCHANGED keys

\* Another client puts an object while the deletion goes on, or removes one
\* that is about to be removed.
OtherPuts(k) ==
  /\ walk.at = "removing" /\ Cardinality(walk.fresh) < MaxPuts /\ PutItem(k)
  /\ walk' = [walk EXCEPT !.fresh = @ \cup {k}]

OtherDeletes(k) ==
  /\ walk.at = "removing" /\ k \in walk.todo \cap keys /\ keys' = keys \ {k}
  /\ UNCHANGED walk

StoreNext ==
  \/ \E d \in Paths :
       \/ \E name \in Paths \ {<< >>} : CreateDirectory(d, name) \/ Put(d, name) \/ Delete(d, name)
       \/ DeleteDirectory(d)
       \/ \E name \in Paths : DeleteAllWithPrefix(d, name)
  \/ \E k \in Keys : RemoveItem(k) \/ OtherPuts(k) \/ OtherDeletes(k)

StoreSpec == StoreInit /\ [][StoreNext]_storeVars

---------------------------------------------------------------------------

\* The listings of a directory are complete and lead on: every object below it
\* other than its marker is listed, or is below a directory that is listed, and
\* every directory that is listed can be opened, with a marker or without.
ListingsLead ==
  \A d \in Paths :
    /\ \A k \in keys : Below(k, d) /\ k # Key(d, TRUE) =>
         \/ ~k.slash /\ Len(k.path) = Len(d) + 1 /\ k.path[Len(d) + 1] \in ListObjects(d)
         \/ \E n \in ListDirectories(d) : Below(k, Append(d, n))
    /\ \A n \in ListDirectories(d) : DirectoryExists(Append(d, n))

\* A deletion is exact.  When it returns without an error, only objects that
\* were put since it listed the directory are in it; and DeleteDirectory removes
\* only what is below the directory, not an object with a name that begins alike
\* (which DeleteAllWithPrefix, that location.Delete uses, removes too).
DeletionIsExact ==
  /\ walk.at = "ok" => \A k \in keys : Below(k, walk.dir) => k \in walk.fresh
  /\ walk.at = "removing" /\ walk.kind = "directory" => \A k \in walk.todo : Below(k, walk.dir)

=============================================================================
