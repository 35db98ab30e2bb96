------------------------------ MODULE Library ------------------------------
(***************************************************************************)
(* The media libraries: Scanner.Scan                                       *)
(* (src/internal/adapters/filesystem/scanner.go) as it runs in several     *)
(* goroutines at once - the initial and periodic scans, scans asked for by *)
(* POST /api/v1/libraries/<name>/scan, scans of the watcher - over the     *)
(* file system, the table item_identity and the media store in memory.     *)
(* Nothing orders the goroutines: each reads a row, keeps the copy, and    *)
(* saves it whole later.                                                   *)
(*                                                                         *)
(* A record's uuid is a hash of its identity and never changes, so ids and *)
(* identities are the same here.  A row's hierarchy_key is always that of  *)
(* its path: every Save writes both, or finds the key right.  Titles, last *)
(* seen times and picture URLs are left out.  A movie's directory with one *)
(* video is one path with that video.                                      *)
(***************************************************************************)
EXTENDS Faults, FiniteSets

CONSTANTS
  Libs,        \* configured libraries
  Paths,       \* directories and videos that a scan resolves
  Root,        \* above the topmost paths of a library
  Within,      \* the path that a path lies in, or Root
  LibOf,       \* the library a path lies in
  KeyOf,       \* HierarchyKey of a path: names, without the library's
  Identities,  \* what a metadata provider answers
  Plain,       \* a file that the provider knows nothing of
  Gone,        \* no such file
  Disks,       \* what may be on disk at the start
  Volatile,    \* the paths that come and go
  Arrivals,    \* what new files may be
  NoId,        \* no parent
  Scanners,    \* goroutines that scan
  Tickers,     \* those of the initial and periodic scans
  LibsOf       \* the libraries a goroutine may scan

Ids == Identities \cup {KeyOf[p] : p \in Paths}

Contents == Identities \cup {Plain, Gone}

ASSUME LibraryAssumption ==
  /\ Libs # {}
  /\ Within \in [Paths -> Paths \cup {Root}] /\ Root \notin Paths
  /\ LibOf \in [Paths -> Libs]
  /\ \A p \in Paths : Within[p] # Root => LibOf[p] = LibOf[Within[p]]
  /\ {Plain, Gone} \cap Identities = {} /\ Plain # Gone
  /\ Disks \subseteq [Paths -> Contents]
  /\ Volatile \subseteq Paths /\ Arrivals \subseteq Contents \ {Gone}
  /\ NoId \notin Ids
  /\ Tickers \subseteq Scanners
  /\ LibsOf \in [Scanners -> SUBSET Libs]

VARIABLES
  disk,     \* what the provider would answer at each path
  table,    \* item_identity
  items,    \* MediaStore, lost when the control plane stops
  scan      \* per goroutine: the locals of Scan and resolveItem

libraryVars == <<disk, table, items, scan, faults>>

NoRow == [path |-> Root, lib |-> "none", status |-> "absent"]

Rows == {NoRow} \cup
        [path : Paths, lib : Libs, status : {"active", "missing"}]

NoItem == [path |-> Root, parent |-> NoId]

Items == {NoItem} \cup [path : Paths, parent : Ids \cup {NoId}]

\* pc     where the scan is;  lib: what it scans
\* todo   paths listed and not resolved yet, each with its parent's id
\* at     the one being resolved
\* id, owner   the copy of its record: uuid and library_id
\* seen   seenUUIDs;  doomed: records still to be marked missing
Scan == [pc     : {"idle", "path", "key", "rekey", "discover", "save", "add",
                   "list", "mark"},
         lib    : Libs,
         todo   : SUBSET (Paths \X (Ids \cup {NoId})),
         at     : (Paths \cup {Root}) \X (Ids \cup {NoId}),
         id     : Ids \cup {NoId},
         owner  : Libs,
         seen   : SUBSET Ids,
         doomed : SUBSET Ids]

NoScan == [pc |-> "idle", lib |-> CHOOSE l \in Libs : TRUE, todo |-> {},
           at |-> <<Root, NoId>>, id |-> NoId,
           owner |-> CHOOSE l \in Libs : TRUE, seen |-> {}, doomed |-> {}]

Present(p) == disk[p] # Gone

InTable(id) == table[id].status # "absent"

Becomes(s, state) == scan' = [scan EXCEPT ![s] = state]

ScanAt(s, pc) == scan[s].pc = pc

Here(s) == scan[s].at[1]
-----------------------------------------------------------------------------
(* Scan *)

\* The directory entries, or none if the directory cannot be read - a disk
\* that is not mounted, say.  (An error on the root ends the scan at once.)
Listing(dir, lib) ==
  {p \in Paths : Within[p] = dir /\ LibOf[p] = lib /\ Present(p)}

Reads(listing, entries) == \/ listing = entries /\ NoFault
                           \/ listing = {} /\ entries # {} /\ Fault("unreadable")

Resolving(state) ==
  [state EXCEPT !.pc = IF state.todo = {} THEN "list" ELSE "path",
                !.at = <<Root, NoId>>, !.id = NoId]

StartScan(s, lib) ==
  /\ ScanAt(s, "idle")
  /\ \E listing \in SUBSET Paths :
       /\ Reads(listing, Listing(Root, lib))
       /\ Becomes(s, Resolving([NoScan EXCEPT !.lib = lib,
                                              !.todo = listing \X {NoId}]))
  /\ UNCHANGED <<disk, table, items>>

\* Rows a query finds; a query that fails finds none.
Found(s, rows, hit, miss) ==
  \/ /\ rows # {}
     /\ \E id \in rows : Becomes(s, [hit EXCEPT !.id = id,
                                                !.owner = table[id].lib])
     /\ NoFault
  \/ /\ Becomes(s, miss)
     /\ IF rows = {} THEN NoFault ELSE Fault("query")

\* GetByPathHash; of several rows with the path any is returned.
ByPath(s) ==
  /\ ScanAt(s, "path")
  /\ \E next \in scan[s].todo :
       LET taken == [scan[s] EXCEPT !.todo = @ \ {next}, !.at = next] IN
         Found(s, {id \in Ids : table[id].path = next[1]},
               [taken EXCEPT !.pc = "save"], [taken EXCEPT !.pc = "key"])
  /\ UNCHANGED <<disk, table, items>>

\* Mutant: a key is looked for as a prefix, so that a series finds its episodes.
HasKeyBelow(id, key) ==
  InTable(id) /\ LET p == table[id].path IN
    key \in {KeyOf[q] : q \in {p, Within[p]} \ {Root}}

HasKey(id, key) == InTable(id) /\ KeyOf[table[id].path] = key

\* GetByHierarchyKey: the file has moved, perhaps from another library.
ByKey(s) ==
  /\ ScanAt(s, "key")
  /\ Found(s, {id \in Ids : HasKey(id, KeyOf[Here(s)])},
           [scan[s] EXCEPT !.pc = "rekey"], [scan[s] EXCEPT !.pc = "discover"])
  /\ UNCHANGED <<disk, table, items>>

\* The provider's answer; none, or an error, makes the key the identity.
Answers(p) == IF disk[p] \in Identities THEN disk[p] ELSE KeyOf[p]

\* A record found by its identity keeps its library.
OwnerOf(s, id) == IF InTable(id) THEN table[id].lib ELSE scan[s].lib

\* Mutant: a new record gets a random uuid.
DiscoverRandom(s) ==
  /\ ScanAt(s, "discover")
  /\ \E id \in {i \in Ids : ~ InTable(i)} :
       Becomes(s, [scan[s] EXCEPT !.pc = "save", !.id = id,
                                  !.owner = OwnerOf(s, id)])
  /\ NoFault /\ UNCHANGED <<disk, table, items>>

\* Discover, then GetByIdentity, whose outcome only decides on the owner.
Discover(s) ==
  /\ ScanAt(s, "discover")
  /\ LET Identified(id, owner) ==
           Becomes(s, [scan[s] EXCEPT !.pc = "save", !.id = id, !.owner = owner])
         answer == Answers(Here(s))
         key    == KeyOf[Here(s)] IN
       \/ Identified(answer, OwnerOf(s, answer)) /\ NoFault
       \/ Identified(answer, scan[s].lib) /\ InTable(answer) /\ Fault("query")
       \/ Identified(key, OwnerOf(s, key)) /\ key # answer /\ Fault("provider")
  /\ UNCHANGED <<disk, table, items>>

\* Mutant: a record that is missing stays so.
SavedAsIs(s) ==
  [path |-> Here(s), lib |-> scan[s].owner,
   status |-> IF InTable(scan[s].id) THEN table[scan[s].id].status ELSE "active"]

\* What Save writes: the copy, made active, at this path.
SavedRow(s) == [path |-> Here(s), lib |-> scan[s].owner, status |-> "active"]

\* A Save that fails is ignored.
Save(s, from, to) ==
  /\ ScanAt(s, from)
  /\ \/ table' = [table EXCEPT ![scan[s].id] = SavedRow(s)] /\ NoFault
     \/ UNCHANGED table /\ Fault("query")
  /\ Becomes(s, [scan[s] EXCEPT !.pc = to])
  /\ UNCHANGED <<disk, items>>

\* Mutant: the two strings, path and parentID, are swapped for the children.
AddSwapped(s) ==
  /\ ScanAt(s, "add")
  /\ LET id == scan[s].id IN
       /\ items' = [items EXCEPT ![id] = [path   |-> Here(s),
                                          parent |-> scan[s].at[2]]]
       /\ Becomes(s, Resolving([scan[s] EXCEPT
            !.todo = @ \cup (Listing(Here(s), scan[s].lib) \X {Here(s)}),
            !.seen = @ \cup {id}]))
  /\ NoFault /\ UNCHANGED <<disk, table>>

\* AddOrUpdate; then the directory's entries are read.
Add(s) ==
  /\ ScanAt(s, "add")
  /\ LET id == scan[s].id IN
       /\ items' = [items EXCEPT ![id] = [path   |-> Here(s),
                                          parent |-> scan[s].at[2]]]
       /\ \E listing \in SUBSET Paths :
            /\ Reads(listing, Listing(Here(s), scan[s].lib))
            /\ Becomes(s, Resolving([scan[s] EXCEPT
                                       !.todo = @ \cup (listing \X {id}),
                                       !.seen = @ \cup {id}]))
  /\ UNCHANGED <<disk, table>>

\* Mutant: what is still in the media store counts as seen.
UnseenAndUnlisted(s) == {id \in Ids : /\ table[id].status = "active"
                                     /\ items[id] = NoItem
                                     /\ id \notin scan[s].seen}

\* The records of the library that are to be marked missing.
Unseen(s) == {id \in Ids : /\ table[id].status = "active"
                           /\ table[id].lib = scan[s].lib
                           /\ id \notin scan[s].seen}

\* markMissing: ListAll, whose failure ends the scan; then an UPDATE each.
ListRecords(s) ==
  /\ ScanAt(s, "list")
  /\ \/ /\ Unseen(s) # {} /\ NoFault
        /\ Becomes(s, [scan[s] EXCEPT !.pc = "mark", !.seen = {},
                                       !.doomed = Unseen(s)])
     \/ /\ Becomes(s, NoScan)
        /\ IF Unseen(s) = {} THEN NoFault ELSE Fault("query")
  /\ UNCHANGED <<disk, table, items>>

MarkMissing(s) ==
  /\ ScanAt(s, "mark")
  /\ \E id \in scan[s].doomed :
       /\ \/ table' = [table EXCEPT ![id].status = "missing"] /\ NoFault
          \/ UNCHANGED table /\ Fault("query")
       /\ Becomes(s, IF scan[s].doomed = {id} THEN NoScan
                     ELSE [scan[s] EXCEPT !.doomed = @ \ {id}])
  /\ UNCHANGED <<disk, items>>

ScanStep(s) ==
  \/ ByPath(s) \/ ByKey(s) \/ Discover(s)
  \/ Save(s, "rekey", "save") \/ Save(s, "save", "add") \/ Add(s)
  \/ ListRecords(s) \/ MarkMissing(s)
-----------------------------------------------------------------------------
(* The environment: files come, go and move; the control plane restarts *)

Below(p) == {q \in Paths : q = p \/ Within[q] = p}

Appear(p, content) ==
  /\ p \in Volatile /\ disk[p] = Gone
  /\ Within[p] # Root => Present(Within[p])
  /\ disk' = [disk EXCEPT ![p] = content]
  /\ Fault("appear")

Vanish(p) ==
  /\ p \in Volatile /\ Present(p)
  /\ disk' = [q \in Paths |-> IF q \in Below(p) THEN Gone ELSE disk[q]]
  /\ Fault("vanish")

\* A video renamed, or put elsewhere, over another one perhaps.
Move(p, q) ==
  /\ {p, q} \subseteq Volatile /\ Present(p) /\ p # q
  /\ Below(p) = {p} /\ Below(q) = {q}
  /\ Within[q] # Root => Present(Within[q])
  /\ disk' = [disk EXCEPT ![p] = Gone, ![q] = disk[p]]
  /\ Fault("move")

DiskChanges ==
  /\ \/ \E p \in Paths : Vanish(p) \/ \E c \in Arrivals : Appear(p, c)
     \/ \E p, q \in Paths : Move(p, q)
  /\ UNCHANGED <<table, items, scan>>

\* The initial scans begin again.
Restart ==
  /\ Fault("restart")
  /\ items' = [id \in Ids |-> NoItem]
  /\ scan' = [s \in Scanners |-> NoScan]
  /\ UNCHANGED <<disk, table>>
-----------------------------------------------------------------------------
LibraryInit ==
  /\ disk \in Disks
  /\ table = [id \in Ids |-> NoRow]
  /\ items = [id \in Ids |-> NoItem]
  /\ scan = [s \in Scanners |-> NoScan]
  /\ faults = 0

Starts(s) == \E lib \in LibsOf[s] : StartScan(s, lib)

LibraryNext == \/ \E s \in Scanners : Starts(s) \/ ScanStep(s)
               \/ DiskChanges
               \/ Restart

\* Scans go on, and the periodic ones begin again and again; nobody need ask
\* for another.
ScansRun == /\ \A s \in Scanners : WF_libraryVars(ScanStep(s))
            /\ \A s \in Tickers : WF_libraryVars(Starts(s))

LibrarySpec == LibraryInit /\ [][LibraryNext]_libraryVars /\ ScansRun
-----------------------------------------------------------------------------
(* Correctness *)

LibraryTypeOK ==
  /\ disk \in [Paths -> Contents]
  /\ table \in [Ids -> Rows]
  /\ items \in [Ids -> Items]
  /\ scan \in [Scanners -> Scan]

\* An item's parent is listed too, whichever scan has listed it, and after a
\* restart.  The parent may be the item itself.
ParentsListed ==
  \A id \in Ids : items[id].parent # NoId => items[items[id].parent] # NoItem

InView == {id \in Ids : items[id] # NoItem}

\* Whatever is in the library view can be reached from its top: parents are
\* listed too, and no items keep each other, or themselves, below one another
\* without an end.  Scans that move an item from path to path, and save the
\* parent they noted for a path long ago, do not tie such a loop.
ReachableFromTop ==
  /\ ParentsListed
  /\ \A loop \in (SUBSET InView) \ {{}} :
       \E id \in loop : items[id].parent \notin loop

\* Keys and identities each belong to one level of the tree, counted from the top:
\* what lies in a directory has the key of a level below that of the directory, no
\* provider answers with what belongs to another level, no file moves to another.
Leveled(level) ==
  /\ level \in [Ids -> Nat]
  /\ \A p \in Paths : Within[p] # Root => level[KeyOf[Within[p]]] < level[KeyOf[p]]
  /\ \A files \in Disks, p \in Paths :
       files[p] \in Identities => level[files[p]] = level[KeyOf[p]]
  /\ \A p \in Volatile :
       /\ \A c \in Arrivals \cap Identities : level[c] = level[KeyOf[p]]
       /\ \A q \in Volatile : Below(p) = {p} /\ Below(q) = {q} =>
                                level[KeyOf[q]] = level[KeyOf[p]]

\* The paths nobody touches.
Steady == Paths \ Volatile

\* An untouched path keeps its uuid across rescans, restarts and scans that
\* run at the same time: "UUID stability across rescans", interfaces.go:64.
UntouchedKeepId ==
  [][\A p \in Steady, a, b \in Ids :
       table[a].path = p /\ table'[b].path = p => a = b]_libraryVars

\* Two files that the scanner takes for one: they share an identity (one
\* movie.nfo for the variants in a directory, two copies) or a key.
Alike(p, q) == Answers(p) = Answers(q) \/ KeyOf[p] = KeyOf[q]

Findable(p) == Present(p) /\ \A q \in Paths \ {p} : Present(q) => ~ Alike(p, q)

\* With the periodic scans left to themselves, a file that stays is listed and
\* its record active for good, whatever earlier scans have made of it: even two
\* records for its path do not keep each other missing.
PresentFilesListed ==
  <>[](\A s \in Scanners \ Tickers : ScanAt(s, "idle")) =>
    \A p \in Paths :
      <>[]Findable(p) =>
        <>[](\E id \in Ids : /\ items[id].path = p
                             /\ table[id].path = p /\ table[id].status = "active")

\* A file that is gone for good ends up missing, and stays so.
GoneFilesMissing ==
  \A p \in Paths :
    <>[]~Present(p) =>
      <>[](\A id \in Ids : table[id].path = p => table[id].status = "missing")
=============================================================================
