--------------------------- MODULE LibraryProofs ---------------------------
(***************************************************************************)
(* The libraries, for any tree of paths, identities and keys and any       *)
(* number of goroutines that scan: the table, the media store and what     *)
(* each scan keeps of them fit together, and a path that nobody touches    *)
(* keeps its uuid.  The lemmas are about one step of a scan, whoever has   *)
(* asked for it, and serve the watcher's scans as well.                    *)
(***************************************************************************)
EXTENDS Library, WellFoundedInduction, TLAPS

\* A scan that is at a path, or has found or made a record for it.
Purposeful(st) ==
  /\ st.pc \in {"key", "rekey", "discover", "save", "add"} => st.at[1] \in Paths
  /\ st.pc \in {"rekey", "save", "add"} => st.id \in Ids

PurposefulScans == {st \in Scan : Purposeful(st)}

\* Scans are so, and mark only records that are in the table.
LibraryInv ==
  /\ LibraryTypeOK
  /\ \A s \in Scanners :
       /\ Purposeful(scan[s])
       /\ \A id \in scan[s].doomed : InTable(id)

\* What moves the libraries: a step of a scan, or the start of one, changes of
\* the files, and a restart.
ScanTurn(s) == ScanStep(s) \/ \E lib \in Libs : StartScan(s, lib)

LibraryMove ==
  \/ \E s \in Scanners : ScanTurn(s)
  \/ DiskChanges
  \/ Restart
  \/ UNCHANGED <<disk, table, items, scan>>

\* A scan at rest.
LEMMA NoScanTyped == NoScan \in PurposefulScans
<1>1. (CHOOSE l \in Libs : TRUE) \in Libs
  BY LibraryAssumption
<1> QED BY <1>1 DEF NoScan, PurposefulScans, Purposeful, Scan

\* The identity of what is discovered is an id.
LEMMA AnswersTyped ==
  ASSUME NEW p \in Paths
  PROVE  Answers(p) \in Ids /\ KeyOf[p] \in Ids
BY DEF Answers, Ids

\* Going on with the rest of the list.
LEMMA ResolvingTyped ==
  ASSUME NEW st \in Scan
  PROVE  /\ Resolving(st) \in PurposefulScans
         /\ Resolving(st).doomed = st.doomed /\ Resolving(st).todo = st.todo
         /\ Resolving(st).at = <<Root, NoId>>
<1>1. /\ Resolving(st).pc \in {"list", "path"}
      /\ Resolving(st).at = <<Root, NoId>> /\ Resolving(st).id = NoId
      /\ Resolving(st).doomed = st.doomed /\ Resolving(st).todo = st.todo
  BY DEF Resolving, Scan
<1>2. Resolving(st) \in Scan
  <2> DEFINE pc == IF st.todo = {} THEN "list" ELSE "path"
  <2>1. pc \in {"list", "path"}
    OBVIOUS
  <2> HIDE DEF pc
  <2>2. [st EXCEPT !.pc = pc, !.at = <<Root, NoId>>, !.id = NoId] \in Scan
    BY <2>1 DEF Scan
  <2> QED BY <2>2 DEF Resolving, pc
<1> QED BY <1>1, <1>2 DEF PurposefulScans, Purposeful

\* A row that has a path is one of the table; records are never taken out of it.
LEMMA RowsOfPaths ==
  ASSUME LibraryInv, NEW id \in Ids
  PROVE  /\ table[id].path \in Paths => InTable(id)
         /\ InTable(id) => table[id].lib \in Libs /\ table[id].path \in Paths
<1>1. table[id] \in Rows
  BY DEF LibraryInv, LibraryTypeOK
<1> QED BY <1>1, LibraryAssumption DEF Rows, NoRow, InTable

\* What a lookup by path or by key leaves of a scan.
LEMMA FoundTyped ==
  ASSUME LibraryInv, NEW s \in Scanners, NEW rows \in SUBSET Ids,
         \A id \in rows : InTable(id),
         NEW hit \in Scan, NEW miss \in PurposefulScans,
         hit.pc \in {"save", "rekey"}, hit.at[1] \in Paths,
         hit.doomed = scan[s].doomed, miss.doomed = scan[s].doomed,
         Found(s, rows, hit, miss)
  PROVE  \E st \in PurposefulScans :
           Becomes(s, st) /\ st.doomed = scan[s].doomed
<1>1. ASSUME NEW id \in rows
      PROVE  /\ [hit EXCEPT !.id = id, !.owner = table[id].lib] \in PurposefulScans
             /\ [hit EXCEPT !.id = id, !.owner = table[id].lib].doomed = hit.doomed
  <2>1. table[id].lib \in Libs
    BY RowsOfPaths
  <2> QED BY <2>1 DEF PurposefulScans, Purposeful, Scan
<1> QED BY <1>1 DEF Found

\* A lookup is at the same path, whatever it finds.
LEMMA FoundThere ==
  ASSUME NEW s, NEW rows, NEW hit \in Scan, NEW miss,
         miss.todo = hit.todo, miss.at = hit.at, Found(s, rows, hit, miss)
  PROVE  \E st : Becomes(s, st) /\ st.todo = hit.todo /\ st.at = hit.at
<1>1. CASE Becomes(s, miss)
  BY <1>1
<1>2. ASSUME NEW id \in rows,
             Becomes(s, [hit EXCEPT !.id = id, !.owner = table[id].lib])
      PROVE  \E st : Becomes(s, st) /\ st.todo = hit.todo /\ st.at = hit.at
  <2> DEFINE st == [hit EXCEPT !.id = id, !.owner = table[id].lib]
  <2>1. st.todo = hit.todo /\ st.at = hit.at
    BY DEF Scan
  <2> QED BY <1>2, <2>1
<1> QED BY <1>1, <1>2 DEF Found

\* A discovery ends with the provider's answer, or the key if it has none, and the
\* library of a record with that identity, or the one scanned.
Identified(s, id, owner) ==
  [scan[s] EXCEPT !.pc = "save", !.id = id, !.owner = owner]

LEMMA Discovered ==
  ASSUME NEW s, Discover(s)
  PROVE  \E id \in {Answers(Here(s)), KeyOf[Here(s)]} :
           /\ \E owner \in {OwnerOf(s, id), scan[s].lib} :
                Becomes(s, Identified(s, id, owner))
           /\ id = Answers(Here(s)) \/ Fault("provider")
BY DEF Discover, Identified

\* One turn of a scan.
LEMMA ScanTurnTyped ==
  ASSUME LibraryInv, NEW s \in Scanners, ScanTurn(s)
  PROVE  LibraryInv'
<1>1. /\ disk \in [Paths -> Contents] /\ table \in [Ids -> Rows]
      /\ items \in [Ids -> Items] /\ scan \in [Scanners -> Scan]
  BY DEF LibraryInv, LibraryTypeOK
<1>2. /\ scan[s] \in Scan /\ Purposeful(scan[s])
      /\ \A id \in scan[s].doomed : id \in Ids /\ InTable(id)
  BY <1>1 DEF LibraryInv, Scan
\* Whatever becomes of the scan, it has the table's records to mark.
<1>3. ASSUME NEW st \in PurposefulScans, Becomes(s, st), UNCHANGED disk,
             table' \in [Ids -> Rows], items' \in [Ids -> Items],
             \A id \in Ids : InTable(id) => InTable(id)',
             \A id \in st.doomed : id \in Ids /\ InTable(id)
      PROVE  LibraryInv'
  <2>1. st \in Scan /\ Purposeful(st)
    BY DEF PurposefulScans
  <2>2. scan' = [scan EXCEPT ![s] = st]
    BY <1>3 DEF Becomes
  <2>3. LibraryTypeOK'
    BY <1>1, <1>3, <2>1, <2>2 DEF LibraryTypeOK
  <2>4. ASSUME NEW r \in Scanners
        PROVE  Purposeful(scan[r])' /\ \A id \in scan'[r].doomed : InTable(id)'
    <3>1. CASE r = s
      BY <1>1, <1>3, <2>1, <2>2, <3>1 DEF Purposeful
    <3>2. CASE r # s
      <4>1. scan'[r] = scan[r] /\ Purposeful(scan[r])
        BY <1>1, <2>2, <3>2 DEF LibraryInv
      <4>2. \A id \in scan[r].doomed : id \in Ids /\ InTable(id)
        BY <1>1 DEF LibraryInv, Scan
      <4> QED BY <1>3, <4>1, <4>2 DEF Purposeful
    <3> QED BY <3>1, <3>2
  <2> QED BY <2>3, <2>4 DEF LibraryInv
\* A turn that writes neither table nor media store.
<1>4. ASSUME NEW st \in PurposefulScans, Becomes(s, st), UNCHANGED <<disk, table, items>>,
             \A id \in st.doomed : id \in Ids /\ InTable(id)
      PROVE  LibraryInv'
  BY <1>1, <1>3, <1>4 DEF InTable
<1>5. ASSUME NEW lib \in Libs, StartScan(s, lib)
      PROVE  LibraryInv'
  <2>1. PICK listing \in SUBSET Paths :
          Becomes(s, Resolving([NoScan EXCEPT !.lib = lib, !.todo = listing \X {NoId}]))
    BY <1>5 DEF StartScan
  <2>2. /\ [NoScan EXCEPT !.lib = lib, !.todo = listing \X {NoId}] \in Scan
        /\ [NoScan EXCEPT !.lib = lib, !.todo = listing \X {NoId}].doomed = {}
    <3>1. listing \X {NoId} \in SUBSET (Paths \X (Ids \cup {NoId}))
      OBVIOUS
    <3>2. NoScan \in Scan /\ NoScan.doomed = {}
      BY NoScanTyped DEF PurposefulScans, NoScan
    <3> QED BY <3>1, <3>2 DEF Scan
  <2> QED BY <1>4, <1>5, <2>1, <2>2, ResolvingTyped DEF StartScan
<1>6. CASE ByPath(s)
  <2>1. PICK next \in scan[s].todo :
          LET taken == [scan[s] EXCEPT !.todo = @ \ {next}, !.at = next] IN
            Found(s, {id \in Ids : table[id].path = next[1]},
                  [taken EXCEPT !.pc = "save"], [taken EXCEPT !.pc = "key"])
    BY <1>6 DEF ByPath
  <2> DEFINE taken == [scan[s] EXCEPT !.todo = @ \ {next}, !.at = next]
  <2>2. next \in Paths \X (Ids \cup {NoId}) /\ next[1] \in Paths
    BY <1>2 DEF Scan
  <2>3. taken \in Scan /\ taken.at = next /\ taken.doomed = scan[s].doomed
    BY <1>2, <2>2 DEF Scan
  <2>4. \A id \in {i \in Ids : table[i].path = next[1]} : InTable(id)
    BY <2>2, RowsOfPaths
  <2> HIDE DEF taken
  <2>5. /\ [taken EXCEPT !.pc = "save"] \in Scan
        /\ [taken EXCEPT !.pc = "save"].pc = "save"
        /\ [taken EXCEPT !.pc = "save"].at = next
        /\ [taken EXCEPT !.pc = "save"].doomed = scan[s].doomed
    BY <2>3 DEF Scan
  <2>6. /\ [taken EXCEPT !.pc = "key"] \in PurposefulScans
        /\ [taken EXCEPT !.pc = "key"].doomed = scan[s].doomed
    BY <2>2, <2>3 DEF Scan, PurposefulScans, Purposeful
  <2>7. Found(s, {id \in Ids : table[id].path = next[1]},
              [taken EXCEPT !.pc = "save"], [taken EXCEPT !.pc = "key"])
    BY <2>1 DEF taken
  <2>8. \E st \in PurposefulScans : Becomes(s, st) /\ st.doomed = scan[s].doomed
    BY <2>2, <2>4, <2>5, <2>6, <2>7, FoundTyped
  <2> QED BY <1>2, <1>4, <1>6, <2>8 DEF ByPath
<1>7. CASE ByKey(s)
  <2>1. scan[s].pc = "key" /\ scan[s].at[1] \in Paths
    BY <1>2, <1>7 DEF ByKey, ScanAt, Purposeful
  <2>2. /\ [scan[s] EXCEPT !.pc = "rekey"] \in Scan
        /\ [scan[s] EXCEPT !.pc = "rekey"].pc = "rekey"
        /\ [scan[s] EXCEPT !.pc = "rekey"].at = scan[s].at
        /\ [scan[s] EXCEPT !.pc = "rekey"].doomed = scan[s].doomed
    BY <1>2 DEF Scan
  <2>3. /\ [scan[s] EXCEPT !.pc = "discover"] \in PurposefulScans
        /\ [scan[s] EXCEPT !.pc = "discover"].doomed = scan[s].doomed
    BY <1>2, <2>1 DEF Scan, PurposefulScans, Purposeful
  <2>4. \A id \in {i \in Ids : HasKey(i, KeyOf[Here(s)])} : InTable(id)
    BY DEF HasKey
  <2>5. \E st \in PurposefulScans : Becomes(s, st) /\ st.doomed = scan[s].doomed
    BY <1>7, <2>1, <2>2, <2>3, <2>4, FoundTyped DEF ByKey
  <2> QED BY <1>2, <1>4, <1>7, <2>5 DEF ByKey
<1>8. CASE Discover(s)
  <2>1. Here(s) \in Paths
    BY <1>2, <1>8 DEF Discover, ScanAt, Purposeful, Here
  <2>2. PICK id \in Ids, owner \in Libs : Becomes(s, Identified(s, id, owner))
    <3>1. scan[s].lib \in Libs
      BY <1>2 DEF Scan
    <3>2. \A id \in Ids : OwnerOf(s, id) \in Libs
      BY <3>1, RowsOfPaths DEF OwnerOf
    <3> QED BY <1>8, <2>1, <3>1, <3>2, AnswersTyped, Discovered
  <2>3. /\ Identified(s, id, owner) \in PurposefulScans
        /\ Identified(s, id, owner).doomed = scan[s].doomed
    BY <1>2, <2>1 DEF PurposefulScans, Purposeful, Scan, Here, Identified
  <2> QED BY <1>2, <1>4, <1>8, <2>2, <2>3 DEF Discover
<1>9. ASSUME NEW from \in {"rekey", "save"}, NEW to \in {"save", "add"}, Save(s, from, to)
      PROVE  LibraryInv'
  <2>1. Here(s) \in Paths /\ scan[s].id \in Ids /\ scan[s].owner \in Libs
    BY <1>2, <1>9 DEF Save, ScanAt, Purposeful, Here, Scan
  <2>2. SavedRow(s) \in Rows /\ SavedRow(s).status = "active"
    BY <2>1 DEF SavedRow, Rows
  <2>3. /\ table' \in [Ids -> Rows]
        /\ \A id \in Ids : InTable(id) => InTable(id)'
    BY <1>1, <1>9, <2>1, <2>2 DEF Save, InTable
  <2>4. [scan[s] EXCEPT !.pc = to] \in PurposefulScans
        /\ [scan[s] EXCEPT !.pc = to].doomed = scan[s].doomed
    BY <1>2, <2>1 DEF PurposefulScans, Purposeful, Scan, Here
  <2> QED BY <1>1, <1>2, <1>3, <1>9, <2>3, <2>4 DEF Save
<1>10. CASE Add(s)
  <2>1. Here(s) \in Paths /\ scan[s].id \in Ids /\ scan[s].at[2] \in Ids \cup {NoId}
    BY <1>2, <1>10 DEF Add, ScanAt, Purposeful, Here, Scan
  <2>2. [path |-> Here(s), parent |-> scan[s].at[2]] \in Items
    BY <2>1 DEF Items
  <2>3. items' \in [Ids -> Items]
    BY <1>1, <1>10, <2>1, <2>2 DEF Add
  <2>4. PICK listing \in SUBSET Paths :
          Becomes(s, Resolving([scan[s] EXCEPT
                                  !.todo = @ \cup (listing \X {scan[s].id}),
                                  !.seen = @ \cup {scan[s].id}]))
    BY <1>10 DEF Add
  <2> DEFINE st == [scan[s] EXCEPT !.todo = @ \cup (listing \X {scan[s].id}),
                                   !.seen = @ \cup {scan[s].id}]
  <2>5. listing \X {scan[s].id} \in SUBSET (Paths \X (Ids \cup {NoId}))
    BY <2>1
  <2>6. st \in Scan /\ st.doomed = scan[s].doomed
    BY <1>2, <2>1, <2>5 DEF Scan
  <2> HIDE DEF st
  <2>7. Becomes(s, Resolving(st))
    BY <2>4 DEF st
  <2>8. \A id \in Ids : InTable(id) => InTable(id)'
    BY <1>10 DEF Add, InTable
  <2> QED BY <1>1, <1>2, <1>3, <1>10, <2>3, <2>6, <2>7, <2>8, ResolvingTyped DEF Add
<1>11. CASE ListRecords(s)
  <2>1. /\ Unseen(s) \in SUBSET Ids
        /\ \A id \in Unseen(s) : InTable(id)
    BY DEF Unseen, InTable
  <2>2. /\ [scan[s] EXCEPT !.pc = "mark", !.seen = {}, !.doomed = Unseen(s)]
             \in PurposefulScans
        /\ [scan[s] EXCEPT !.pc = "mark", !.seen = {}, !.doomed = Unseen(s)].doomed
             = Unseen(s)
    BY <1>2, <2>1 DEF PurposefulScans, Purposeful, Scan
  <2>3. NoScan.doomed = {}
    BY DEF NoScan
  <2> QED BY <1>4, <1>11, <2>1, <2>2, <2>3, NoScanTyped DEF ListRecords
<1>12. CASE MarkMissing(s)
  <2>1. PICK id \in scan[s].doomed :
          /\ table' = [table EXCEPT ![id].status = "missing"] \/ UNCHANGED table
          /\ Becomes(s, IF scan[s].doomed = {id} THEN NoScan
                        ELSE [scan[s] EXCEPT !.doomed = @ \ {id}])
    BY <1>12 DEF MarkMissing
  <2>2. id \in Ids /\ InTable(id) /\ table[id] \in Rows
    BY <1>1, <1>2
  <2>3. [table[id] EXCEPT !.status = "missing"] \in Rows
        /\ [table[id] EXCEPT !.status = "missing"].status = "missing"
    BY <2>2 DEF Rows, NoRow, InTable
  <2>4. /\ table' \in [Ids -> Rows]
        /\ \A i \in Ids : InTable(i) => InTable(i)'
    BY <1>1, <2>1, <2>2, <2>3 DEF InTable
  <2>5. /\ [scan[s] EXCEPT !.doomed = @ \ {id}] \in PurposefulScans
        /\ [scan[s] EXCEPT !.doomed = @ \ {id}].doomed = scan[s].doomed \ {id}
    BY <1>2 DEF PurposefulScans, Purposeful, Scan
  <2>6. NoScan.doomed = {}
    BY DEF NoScan
  <2>7. UNCHANGED <<disk, items>>
    BY <1>12 DEF MarkMissing
  <2>8. CASE Becomes(s, NoScan)
    BY <1>1, <1>3, <2>4, <2>6, <2>7, <2>8, NoScanTyped
  <2>9. CASE Becomes(s, [scan[s] EXCEPT !.doomed = @ \ {id}])
    BY <1>1, <1>2, <1>3, <2>4, <2>5, <2>7, <2>9
  <2> QED BY <2>1, <2>8, <2>9
<1> QED BY <1>5, <1>6, <1>7, <1>8, <1>9, <1>10, <1>11, <1>12 DEF ScanTurn, ScanStep

\* The files change, the control plane restarts, or nothing happens to a library.
LEMMA MoveTyped ==
  ASSUME LibraryInv, LibraryMove
  PROVE  LibraryInv'
<1>1. /\ disk \in [Paths -> Contents] /\ table \in [Ids -> Rows]
      /\ items \in [Ids -> Items] /\ scan \in [Scanners -> Scan]
  BY DEF LibraryInv, LibraryTypeOK
<1>2. CASE DiskChanges
  <2>1. disk' \in [Paths -> Contents]
    <3>1. ASSUME NEW p \in Paths, Vanish(p)
          PROVE  disk' \in [Paths -> Contents]
      BY <1>1, <3>1 DEF Vanish, Contents
    <3>2. ASSUME NEW p \in Paths, NEW c \in Arrivals, Appear(p, c)
          PROVE  disk' \in [Paths -> Contents]
      BY <1>1, <3>2, LibraryAssumption DEF Appear
    <3>3. ASSUME NEW p \in Paths, NEW q \in Paths, Move(p, q)
          PROVE  disk' \in [Paths -> Contents]
      BY <1>1, <3>3 DEF Move, Contents
    <3> QED BY <1>2, <3>1, <3>2, <3>3 DEF DiskChanges
  <2> QED BY <1>1, <1>2, <2>1 DEF DiskChanges, LibraryInv, LibraryTypeOK, Purposeful,
                                  InTable
<1>3. CASE Restart
  <2>1. NoItem \in Items /\ NoScan \in Scan /\ Purposeful(NoScan) /\ NoScan.doomed = {}
    BY NoScanTyped DEF Items, PurposefulScans, NoScan
  <2>2. ASSUME NEW s \in Scanners
        PROVE  Purposeful(scan[s])' /\ scan'[s].doomed = {}
    BY <1>3, <2>1 DEF Restart, Purposeful
  <2> QED BY <1>1, <1>3, <2>1, <2>2 DEF Restart, LibraryInv, LibraryTypeOK
<1>4. CASE UNCHANGED <<disk, table, items, scan>>
  BY <1>4 DEF LibraryInv, LibraryTypeOK, Purposeful, InTable
<1> QED BY <1>2, <1>3, <1>4, ScanTurnTyped DEF LibraryMove

\* At the start nothing is known and no scan runs.
LEMMA InitTyped ==
  ASSUME LibraryInit
  PROVE  LibraryInv
<1>1. NoItem \in Items /\ NoRow \in Rows
  BY DEF Items, Rows
<1>2. NoScan \in Scan /\ Purposeful(NoScan) /\ NoScan.doomed = {}
  BY NoScanTyped DEF PurposefulScans, NoScan
<1> QED BY <1>1, <1>2, LibraryAssumption DEF LibraryInit, LibraryInv, LibraryTypeOK
-----------------------------------------------------------------------------
(* Parents are listed *)

\* A parent that a scan remembers, for the path at hand or for those still to come,
\* is listed already: a directory is listed before its entries are read.
ParentsKnown ==
  \A s \in Scanners :
    /\ \A entry \in scan[s].todo : entry[2] # NoId => items[entry[2]] # NoItem
    /\ scan[s].at[2] # NoId => items[scan[s].at[2]] # NoItem

\* One move keeps every parent listed.
LEMMA ParentsStep ==
  ASSUME LibraryInv, ParentsListed, ParentsKnown, LibraryMove
  PROVE  ParentsListed' /\ ParentsKnown'
<1> DEFINE Good == ParentsListed' /\ ParentsKnown'
           KnownTo(st) ==
             /\ \A entry \in st.todo : entry[2] # NoId => items[entry[2]] # NoItem
             /\ st.at[2] # NoId => items[st.at[2]] # NoItem
<1>1. /\ items \in [Ids -> Items] /\ scan \in [Scanners -> Scan]
  BY DEF LibraryInv, LibraryTypeOK
<1>2. ASSUME NEW s \in Scanners
      PROVE  scan[s] \in Scan /\ Purposeful(scan[s]) /\ KnownTo(scan[s])
  BY <1>1 DEF LibraryInv, ParentsKnown
<1>3. \A id \in Ids : items[id].parent # NoId => items[items[id].parent] # NoItem
  BY DEF ParentsListed
\* A turn that leaves the media store alone.
<1>4. ASSUME NEW s \in Scanners, NEW st, Becomes(s, st), UNCHANGED items, KnownTo(st)
      PROVE  Good
  <2>1. ASSUME NEW r \in Scanners
        PROVE  scan'[r] = st \/ scan'[r] = scan[r]
    BY <1>1, <1>4 DEF Becomes
  <2>2. ParentsKnown'
    BY <1>2, <1>4, <2>1 DEF ParentsKnown
  <2> QED BY <1>4, <2>2 DEF ParentsListed
<1>5. KnownTo(NoScan)
  BY DEF NoScan
<1>6. ASSUME NEW s \in Scanners, ScanTurn(s)
      PROVE  Good
  <2>1. scan[s] \in Scan /\ Purposeful(scan[s]) /\ KnownTo(scan[s])
    BY <1>2
  <2>2. ASSUME NEW st, st.todo = scan[s].todo, st.at = scan[s].at
        PROVE  KnownTo(st)
    BY <2>1, <2>2
  <2>3. ASSUME NEW lib \in Libs, StartScan(s, lib)
        PROVE  Good
    <3>1. PICK listing \in SUBSET Paths :
            Becomes(s, Resolving([NoScan EXCEPT !.lib = lib, !.todo = listing \X {NoId}]))
      BY <2>3 DEF StartScan
    <3>2. /\ Resolving([NoScan EXCEPT !.lib = lib, !.todo = listing \X {NoId}]).todo
               = listing \X {NoId}
          /\ Resolving([NoScan EXCEPT !.lib = lib, !.todo = listing \X {NoId}]).at
               = <<Root, NoId>>
      BY DEF Resolving, NoScan
    <3> QED BY <1>4, <2>3, <3>1, <3>2 DEF StartScan
  <2>4. CASE ByPath(s)
    <3>1. PICK next \in scan[s].todo :
            LET taken == [scan[s] EXCEPT !.todo = @ \ {next}, !.at = next] IN
              Found(s, {id \in Ids : table[id].path = next[1]},
                    [taken EXCEPT !.pc = "save"], [taken EXCEPT !.pc = "key"])
      BY <2>4 DEF ByPath
    <3> DEFINE taken == [scan[s] EXCEPT !.todo = @ \ {next}, !.at = next]
               hit == [taken EXCEPT !.pc = "save"]
               miss == [taken EXCEPT !.pc = "key"]
    <3>2. next \in Paths \X (Ids \cup {NoId})
      BY <2>1 DEF Scan
    <3>3. /\ hit \in Scan
          /\ hit.todo = scan[s].todo \ {next} /\ hit.at = next
          /\ miss.todo = hit.todo /\ miss.at = hit.at
      BY <2>1, <3>2 DEF Scan
    <3>4. Found(s, {id \in Ids : table[id].path = next[1]}, hit, miss)
      BY <3>1
    <3> HIDE DEF hit, miss
    <3>5. hit \in Scan /\ miss.todo = hit.todo /\ miss.at = hit.at
      BY <3>3
    <3>6. PICK st : Becomes(s, st) /\ st.todo = hit.todo /\ st.at = hit.at
      BY <3>4, <3>5, FoundThere
    <3>7. KnownTo(st)
      BY <2>1, <3>3, <3>6
    <3> QED BY <1>4, <2>4, <3>6, <3>7 DEF ByPath
  <2>5. CASE ByKey(s)
    <3> DEFINE hit == [scan[s] EXCEPT !.pc = "rekey"]
               miss == [scan[s] EXCEPT !.pc = "discover"]
    <3>1. /\ hit \in Scan /\ hit.todo = scan[s].todo /\ hit.at = scan[s].at
          /\ miss.todo = hit.todo /\ miss.at = hit.at
      BY <2>1 DEF Scan
    <3>2. Found(s, {id \in Ids : HasKey(id, KeyOf[Here(s)])}, hit, miss)
      BY <2>5 DEF ByKey
    <3> HIDE DEF hit, miss
    <3>3. PICK st : Becomes(s, st) /\ st.todo = hit.todo /\ st.at = hit.at
      BY <3>1, <3>2, FoundThere
    <3> QED BY <1>4, <2>2, <2>5, <3>1, <3>3 DEF ByKey
  <2>6. CASE Discover(s)
    <3>1. PICK id, owner : Becomes(s, Identified(s, id, owner))
      BY <2>6, Discovered
    <3>2. /\ Identified(s, id, owner).todo = scan[s].todo
          /\ Identified(s, id, owner).at = scan[s].at
      BY <2>1 DEF Scan, Identified
    <3> QED BY <1>4, <2>2, <2>6, <3>1, <3>2 DEF Discover
  <2>7. ASSUME NEW from, NEW to, Save(s, from, to)
        PROVE  Good
    <3>1. /\ [scan[s] EXCEPT !.pc = to].todo = scan[s].todo
          /\ [scan[s] EXCEPT !.pc = to].at = scan[s].at
      BY <2>1 DEF Scan
    <3> QED BY <1>4, <2>2, <2>7, <3>1 DEF Save
  <2>8. CASE Add(s)
    <3>1. Here(s) \in Paths /\ scan[s].id \in Ids /\ scan[s].at[2] \in Ids \cup {NoId}
      BY <2>1, <2>8 DEF Add, ScanAt, Purposeful, Here, Scan
    <3> DEFINE item == [path |-> Here(s), parent |-> scan[s].at[2]]
    <3>2. items' = [items EXCEPT ![scan[s].id] = item]
      BY <2>8 DEF Add
    <3>3. item # NoItem
      BY <3>1, LibraryAssumption DEF NoItem
    <3>4. \A id \in Ids : items[id] # NoItem => items'[id] # NoItem
      BY <1>1, <3>2, <3>3
    <3>5. items'[scan[s].id] # NoItem
      BY <1>1, <3>1, <3>2, <3>3
    <3>6. ParentsListed'
      <4>1. ASSUME NEW id \in Ids, items'[id].parent # NoId
            PROVE  items'[items'[id].parent] # NoItem
        <5>1. CASE id = scan[s].id
          <6>1. items'[id].parent = scan[s].at[2]
            BY <1>1, <3>1, <3>2, <5>1
          <6> QED BY <2>1, <3>1, <3>4, <4>1, <6>1
        <5>2. CASE id # scan[s].id
          <6>1. items'[id] = items[id]
            BY <1>1, <3>2, <5>2
          <6>2. items[id].parent \in Ids \/ items[id].parent = NoId
            BY <1>1 DEF Items, NoItem
          <6> QED BY <1>3, <3>4, <4>1, <6>1, <6>2
        <5> QED BY <5>1, <5>2
      <4> QED BY <4>1 DEF ParentsListed
    <3>7. PICK listing \in SUBSET Paths :
            Becomes(s, Resolving([scan[s] EXCEPT
                                    !.todo = @ \cup (listing \X {scan[s].id}),
                                    !.seen = @ \cup {scan[s].id}]))
      BY <2>8 DEF Add
    <3> DEFINE st == [scan[s] EXCEPT !.todo = @ \cup (listing \X {scan[s].id}),
                                     !.seen = @ \cup {scan[s].id}]
    <3>8. /\ Resolving(st).todo = scan[s].todo \cup (listing \X {scan[s].id})
          /\ Resolving(st).at = <<Root, NoId>>
      BY <2>1 DEF Resolving, Scan
    <3>9. ASSUME NEW r \in Scanners
          PROVE  scan'[r] = Resolving(st) \/ scan'[r] = scan[r]
      BY <1>1, <3>7 DEF Becomes
    <3> HIDE DEF st, item
    <3>10. ASSUME NEW r \in Scanners
           PROVE  /\ \A entry \in scan'[r].todo :
                       entry[2] # NoId => items'[entry[2]] # NoItem
                  /\ scan'[r].at[2] # NoId => items'[scan'[r].at[2]] # NoItem
      <4>1. ASSUME NEW q \in Scanners
            PROVE  /\ \A entry \in scan[q].todo : entry[2] \in Ids \cup {NoId}
                   /\ scan[q].at[2] \in Ids \cup {NoId}
        BY <1>2 DEF Scan
      <4>2. CASE scan'[r] = scan[r]
        BY <1>2, <3>4, <4>1, <4>2
      <4>3. CASE scan'[r] = Resolving(st)
        BY <2>1, <3>4, <3>5, <3>8, <4>1, <4>3
      <4> QED BY <3>9, <4>2, <4>3
    <3> QED BY <3>6, <3>10 DEF ParentsKnown
  <2>9. CASE ListRecords(s)
    <3>1. /\ [scan[s] EXCEPT !.pc = "mark", !.seen = {}, !.doomed = Unseen(s)].todo
               = scan[s].todo
          /\ [scan[s] EXCEPT !.pc = "mark", !.seen = {}, !.doomed = Unseen(s)].at
               = scan[s].at
      BY <2>1 DEF Scan
    <3> QED BY <1>4, <1>5, <2>2, <2>9, <3>1 DEF ListRecords
  <2>10. CASE MarkMissing(s)
    <3>1. PICK id : Becomes(s, IF scan[s].doomed = {id} THEN NoScan
                               ELSE [scan[s] EXCEPT !.doomed = @ \ {id}])
      BY <2>10 DEF MarkMissing
    <3>2. /\ [scan[s] EXCEPT !.doomed = @ \ {id}].todo = scan[s].todo
          /\ [scan[s] EXCEPT !.doomed = @ \ {id}].at = scan[s].at
      BY <2>1 DEF Scan
    <3> QED BY <1>4, <1>5, <2>2, <2>10, <3>1, <3>2 DEF MarkMissing
  <2> QED BY <1>6, <2>3, <2>4, <2>5, <2>6, <2>7, <2>8, <2>9, <2>10
          DEF ScanTurn, ScanStep
<1>7. CASE DiskChanges \/ UNCHANGED <<disk, table, items, scan>>
  BY <1>7 DEF DiskChanges, ParentsListed, ParentsKnown
<1>8. CASE Restart
  BY <1>8 DEF Restart, ParentsListed, ParentsKnown, NoItem, NoScan
<1> QED BY <1>6, <1>7, <1>8 DEF LibraryMove
-----------------------------------------------------------------------------
(* The library view has no loops *)

\* The records of a path that a scan is at or has listed: a parent's is of a level
\* above, its own of the level of the path.
LeveledScan(level, st) ==
  /\ \A entry \in st.todo : entry[2] # NoId => level[entry[2]] < level[KeyOf[entry[1]]]
  /\ st.at[2] # NoId => level[st.at[2]] < level[KeyOf[st.at[1]]]
  /\ st.pc \in {"rekey", "save", "add"} => level[st.id] = level[KeyOf[st.at[1]]]

\* Identities on disk, rows, items and scans keep to their levels.
InLevels(level) ==
  /\ \A p \in Paths : disk[p] \in Identities => level[disk[p]] = level[KeyOf[p]]
  /\ \A id \in Ids : InTable(id) => level[id] = level[KeyOf[table[id].path]]
  /\ \A id \in Ids : items[id].parent # NoId => level[items[id].parent] < level[id]
  /\ \A s \in Scanners : LeveledScan(level, scan[s])

\* Going on with the rest of the list.
LEMMA ResolvingLeveled ==
  ASSUME NEW level, NEW st \in Scan,
         \A entry \in st.todo : entry[2] # NoId => level[entry[2]] < level[KeyOf[entry[1]]]
  PROVE  LeveledScan(level, Resolving(st))
<1>1. /\ Resolving(st).pc \in {"list", "path"}
      /\ Resolving(st).at = <<Root, NoId>> /\ Resolving(st).todo = st.todo
  BY DEF Resolving, Scan
<1> QED BY <1>1 DEF LeveledScan

\* A scan that goes on with the same path, to do no more than before.
LEMMA SamePathLeveled ==
  ASSUME NEW level, NEW st \in Scan, LeveledScan(level, st),
         NEW next, next.todo = st.todo, next.at = st.at,
         next.pc \in {"rekey", "save", "add"} => level[next.id] = level[KeyOf[st.at[1]]]
  PROVE  LeveledScan(level, next)
BY DEF LeveledScan

\* What a lookup leaves of a scan is in its level if the rows it looks for are.
LEMMA FoundLeveled ==
  ASSUME NEW level, NEW s, NEW rows, NEW hit \in Scan, NEW miss,
         LeveledScan(level, miss), miss.todo = hit.todo, miss.at = hit.at,
         \A id \in rows : level[id] = level[KeyOf[hit.at[1]]],
         Found(s, rows, hit, miss)
  PROVE  \E st : Becomes(s, st) /\ LeveledScan(level, st)
<1>1. ASSUME NEW id \in rows
      PROVE  LeveledScan(level, [hit EXCEPT !.id = id, !.owner = table[id].lib])
  <2> DEFINE st == [hit EXCEPT !.id = id, !.owner = table[id].lib]
  <2>1. st.todo = hit.todo /\ st.at = hit.at /\ st.id = id
    BY DEF Scan
  <2>2. level[st.id] = level[KeyOf[st.at[1]]]
    BY <2>1
  <2> HIDE DEF st
  <2>3. LeveledScan(level, st)
    BY <2>1, <2>2 DEF LeveledScan
  <2> QED BY <2>3 DEF st
<1> QED BY <1>1 DEF Found

\* One turn of a scan keeps to the levels.
LEMMA TurnInLevels ==
  ASSUME LibraryInv, NEW level, Leveled(level), InLevels(level),
         NEW s \in Scanners, ScanTurn(s)
  PROVE  InLevels(level)'
<1>1. /\ disk \in [Paths -> Contents] /\ table \in [Ids -> Rows]
      /\ items \in [Ids -> Items] /\ scan \in [Scanners -> Scan]
  BY DEF LibraryInv, LibraryTypeOK
<1>2. scan[s] \in Scan /\ Purposeful(scan[s]) /\ LeveledScan(level, scan[s])
  BY <1>1 DEF LibraryInv, InLevels
<1> DEFINE TableLeveled == \A id \in Ids : InTable(id) =>
                             level[id] = level[KeyOf[table[id].path]]
           ItemsLeveled == \A id \in Ids : items[id].parent # NoId =>
                             level[items[id].parent] < level[id]
<1>3. ASSUME NEW st, Becomes(s, st), LeveledScan(level, st), UNCHANGED disk,
             TableLeveled', ItemsLeveled'
      PROVE  InLevels(level)'
  <2>1. ASSUME NEW r \in Scanners
        PROVE  scan'[r] = st \/ scan'[r] = scan[r]
    BY <1>1, <1>3 DEF Becomes
  <2>2. \A r \in Scanners : LeveledScan(level, scan[r])'
    BY <1>3, <2>1 DEF InLevels, LeveledScan
  <2>3. \A p \in Paths : disk'[p] \in Identities => level[disk'[p]] = level[KeyOf[p]]
    BY <1>3 DEF InLevels
  <2> QED BY <1>3, <2>2, <2>3 DEF InLevels
<1>4. /\ UNCHANGED table => TableLeveled'
      /\ UNCHANGED items => ItemsLeveled'
  BY DEF InLevels, InTable
<1> HIDE DEF TableLeveled, ItemsLeveled
<1>5. LeveledScan(level, NoScan)
  BY DEF LeveledScan, NoScan
<1>6. ASSUME NEW lib \in Libs, StartScan(s, lib)
      PROVE  InLevels(level)'
  <2>1. PICK listing \in SUBSET Paths :
          Becomes(s, Resolving([NoScan EXCEPT !.lib = lib, !.todo = listing \X {NoId}]))
    BY <1>6 DEF StartScan
  <2> DEFINE st == [NoScan EXCEPT !.lib = lib, !.todo = listing \X {NoId}]
  <2>2. st \in Scan /\ st.todo = listing \X {NoId}
    <3>1. listing \X {NoId} \in SUBSET (Paths \X (Ids \cup {NoId}))
      OBVIOUS
    <3>2. NoScan \in Scan
      BY NoScanTyped DEF PurposefulScans
    <3> QED BY <3>1, <3>2 DEF Scan
  <2>3. \A entry \in st.todo : entry[2] = NoId
    BY <2>2
  <2> HIDE DEF st
  <2>4. LeveledScan(level, Resolving(st))
    BY <2>2, <2>3, ResolvingLeveled
  <2> QED BY <1>3, <1>4, <1>6, <2>1, <2>4 DEF StartScan, st
<1>7. CASE ByPath(s)
  <2>1. PICK next \in scan[s].todo :
          LET taken == [scan[s] EXCEPT !.todo = @ \ {next}, !.at = next] IN
            Found(s, {id \in Ids : table[id].path = next[1]},
                  [taken EXCEPT !.pc = "save"], [taken EXCEPT !.pc = "key"])
    BY <1>7 DEF ByPath
  <2> DEFINE taken == [scan[s] EXCEPT !.todo = @ \ {next}, !.at = next]
             hit == [taken EXCEPT !.pc = "save"]
             miss == [taken EXCEPT !.pc = "key"]
             rows == {id \in Ids : table[id].path = next[1]}
  <2>2. next \in Paths \X (Ids \cup {NoId}) /\ next[1] \in Paths
    BY <1>2 DEF Scan
  <2>3. /\ hit \in Scan
        /\ hit.todo = scan[s].todo \ {next} /\ hit.at = next
        /\ miss.todo = hit.todo /\ miss.at = hit.at /\ miss.pc = "key"
    BY <1>2, <2>2 DEF Scan
  <2>4. \A id \in rows : level[id] = level[KeyOf[hit.at[1]]]
    BY <2>2, <2>3, RowsOfPaths DEF InLevels
  <2>5. Found(s, rows, hit, miss)
    BY <2>1
  <2> HIDE DEF hit, miss, rows
  <2>6. LeveledScan(level, miss)
    BY <1>2, <2>3 DEF LeveledScan
  <2>7. \E st : Becomes(s, st) /\ LeveledScan(level, st)
    BY <2>3, <2>4, <2>5, <2>6, FoundLeveled
  <2> QED BY <1>3, <1>4, <1>7, <2>7 DEF ByPath
<1>8. CASE ByKey(s)
  <2> DEFINE hit == [scan[s] EXCEPT !.pc = "rekey"]
             miss == [scan[s] EXCEPT !.pc = "discover"]
             rows == {id \in Ids : HasKey(id, KeyOf[Here(s)])}
  <2>1. /\ hit \in Scan /\ hit.todo = scan[s].todo /\ hit.at = scan[s].at
        /\ miss.todo = hit.todo /\ miss.at = hit.at /\ miss.pc = "discover"
    BY <1>2 DEF Scan
  <2>2. \A id \in rows : level[id] = level[KeyOf[hit.at[1]]]
    BY <2>1 DEF InLevels, HasKey, Here
  <2>3. Found(s, rows, hit, miss)
    BY <1>8 DEF ByKey
  <2> HIDE DEF hit, miss, rows
  <2>4. LeveledScan(level, miss)
    BY <1>2, <2>1, SamePathLeveled
  <2>5. \E st : Becomes(s, st) /\ LeveledScan(level, st)
    BY <2>1, <2>2, <2>3, <2>4, FoundLeveled
  <2> QED BY <1>3, <1>4, <1>8, <2>5 DEF ByKey
<1>9. CASE Discover(s)
  <2>0. PICK id \in {Answers(Here(s)), KeyOf[Here(s)]} :
          \E owner \in {OwnerOf(s, id), scan[s].lib} :
            Becomes(s, Identified(s, id, owner))
    BY <1>9, Discovered
  <2>1. PICK owner \in {OwnerOf(s, id), scan[s].lib} :
          Becomes(s, Identified(s, id, owner))
    BY <2>0
  <2>2. Here(s) \in Paths
    BY <1>2, <1>9 DEF Discover, ScanAt, Purposeful, Here
  <2>3. level[id] = level[KeyOf[Here(s)]]
    BY <2>0, <2>2 DEF Answers, InLevels
  <2> DEFINE st == Identified(s, id, owner)
  <2>4. st.todo = scan[s].todo /\ st.at = scan[s].at /\ st.id = id
    BY <1>2 DEF Scan, Identified
  <2>5. level[st.id] = level[KeyOf[scan[s].at[1]]]
    BY <2>3, <2>4 DEF Here
  <2> HIDE DEF st
  <2>6. LeveledScan(level, st)
    BY <1>2, <2>4, <2>5, SamePathLeveled
  <2> QED BY <1>3, <1>4, <1>9, <2>1, <2>6 DEF Discover, st
<1>10. ASSUME NEW from \in {"rekey", "save"}, NEW to \in {"save", "add"}, Save(s, from, to)
       PROVE  InLevels(level)'
  <2>1. /\ Here(s) \in Paths /\ scan[s].id \in Ids
        /\ level[scan[s].id] = level[KeyOf[Here(s)]]
    BY <1>2, <1>10 DEF Save, ScanAt, Purposeful, Here, LeveledScan
  <2>2. LeveledScan(level, [scan[s] EXCEPT !.pc = to])
    <3> DEFINE st == [scan[s] EXCEPT !.pc = to]
    <3>1. st.todo = scan[s].todo /\ st.at = scan[s].at /\ st.id = scan[s].id
      BY <1>2 DEF Scan
    <3>2. level[st.id] = level[KeyOf[scan[s].at[1]]]
      BY <2>1, <3>1 DEF Here
    <3> HIDE DEF st
    <3>3. LeveledScan(level, st)
      BY <1>2, <3>1, <3>2, SamePathLeveled
    <3> QED BY <3>3 DEF st
  <2>3. CASE table' = [table EXCEPT ![scan[s].id] = SavedRow(s)]
    <3>1. ASSUME NEW id \in Ids, InTable(id)'
          PROVE  level[id] = level[KeyOf[table'[id].path]]
      <4>1. CASE id = scan[s].id
        BY <1>1, <2>1, <2>3, <4>1 DEF SavedRow
      <4>2. CASE id # scan[s].id
        <5>1. table'[id] = table[id]
          BY <1>1, <2>3, <4>2
        <5> QED BY <3>1, <5>1 DEF InLevels, InTable
      <4> QED BY <4>1, <4>2
    <3>2. TableLeveled'
      BY <3>1 DEF TableLeveled
    <3> QED BY <1>3, <1>4, <1>10, <2>2, <3>2 DEF Save
  <2>4. CASE UNCHANGED table
    BY <1>3, <1>4, <1>10, <2>2, <2>4 DEF Save
  <2> QED BY <1>10, <2>3, <2>4 DEF Save
<1>11. CASE Add(s)
  <2>1. /\ Here(s) \in Paths /\ scan[s].id \in Ids /\ scan[s].at[2] \in Ids \cup {NoId}
        /\ level[scan[s].id] = level[KeyOf[Here(s)]]
        /\ scan[s].at[2] # NoId => level[scan[s].at[2]] < level[KeyOf[Here(s)]]
    BY <1>2, <1>11 DEF Add, ScanAt, Purposeful, Here, LeveledScan, Scan
  <2> DEFINE item == [path |-> Here(s), parent |-> scan[s].at[2]]
  <2>2. items' = [items EXCEPT ![scan[s].id] = item]
    BY <1>11 DEF Add
  <2>3. ASSUME NEW id \in Ids, items'[id].parent # NoId
        PROVE  level[items'[id].parent] < level[id]
    <3>1. CASE id = scan[s].id
      BY <1>1, <2>1, <2>2, <2>3, <3>1
    <3>2. CASE id # scan[s].id
      <4>1. items'[id] = items[id]
        BY <1>1, <2>2, <3>2
      <4> QED BY <2>3, <4>1 DEF InLevels
    <3> QED BY <3>1, <3>2
  <2>4. ItemsLeveled'
    BY <2>3 DEF ItemsLeveled
  <2>5. PICK listing \in SUBSET Paths :
          /\ Reads(listing, Listing(Here(s), scan[s].lib))
          /\ Becomes(s, Resolving([scan[s] EXCEPT
                                     !.todo = @ \cup (listing \X {scan[s].id}),
                                     !.seen = @ \cup {scan[s].id}]))
    BY <1>11 DEF Add
  <2> DEFINE st == [scan[s] EXCEPT !.todo = @ \cup (listing \X {scan[s].id}),
                                   !.seen = @ \cup {scan[s].id}]
  <2>6. st \in Scan /\ st.todo = scan[s].todo \cup (listing \X {scan[s].id})
    <3>1. listing \X {scan[s].id} \in SUBSET (Paths \X (Ids \cup {NoId}))
      BY <2>1
    <3> QED BY <1>2, <2>1, <3>1 DEF Scan
  <2>7. ASSUME NEW p \in listing
        PROVE  level[scan[s].id] < level[KeyOf[p]]
    <3>1. p \in Paths /\ Within[p] = Here(s) /\ Here(s) # Root
      BY <2>1, <2>5, <2>7, LibraryAssumption DEF Reads, Listing
    <3> QED BY <2>1, <3>1 DEF Leveled
  <2>8. \A entry \in st.todo : entry[2] # NoId => level[entry[2]] < level[KeyOf[entry[1]]]
    BY <1>2, <2>6, <2>7 DEF LeveledScan
  <2> HIDE DEF st
  <2>9. LeveledScan(level, Resolving(st))
    BY <2>6, <2>8, ResolvingLeveled
  <2> QED BY <1>3, <1>4, <1>11, <2>4, <2>5, <2>9 DEF Add, st
<1>12. CASE ListRecords(s)
  <2> DEFINE st == [scan[s] EXCEPT !.pc = "mark", !.seen = {}, !.doomed = Unseen(s)]
  <2>1. st.todo = scan[s].todo /\ st.at = scan[s].at /\ st.pc = "mark"
    BY <1>2 DEF Scan
  <2> HIDE DEF st
  <2>2. LeveledScan(level, st)
    BY <1>2, <2>1, SamePathLeveled
  <2> QED BY <1>3, <1>4, <1>5, <1>12, <2>2 DEF ListRecords, st
<1>13. CASE MarkMissing(s)
  <2>1. PICK id \in scan[s].doomed :
          /\ table' = [table EXCEPT ![id].status = "missing"] \/ UNCHANGED table
          /\ Becomes(s, IF scan[s].doomed = {id} THEN NoScan
                        ELSE [scan[s] EXCEPT !.doomed = @ \ {id}])
    BY <1>13 DEF MarkMissing
  <2>2. id \in Ids /\ InTable(id) /\ table[id] \in Rows
    BY <1>1, <1>2 DEF LibraryInv, Scan
  <2>3. [table[id] EXCEPT !.status = "missing"].path = table[id].path
    BY <2>2 DEF Rows, NoRow, InTable
  <2>4. TableLeveled'
    <3>1. ASSUME NEW i \in Ids, InTable(i)'
          PROVE  InTable(i) /\ table'[i].path = table[i].path
      BY <1>1, <2>1, <2>2, <2>3, <3>1 DEF InTable
    <3>2. \A i \in Ids : InTable(i) => level[i] = level[KeyOf[table[i].path]]
      BY DEF InLevels
    <3> QED BY <3>1, <3>2 DEF TableLeveled
  <2>5. LeveledScan(level, [scan[s] EXCEPT !.doomed = @ \ {id}])
    <3>1. scan[s].pc = "mark"
      BY <1>13 DEF MarkMissing, ScanAt
    <3> DEFINE st == [scan[s] EXCEPT !.doomed = @ \ {id}]
    <3>2. st.todo = scan[s].todo /\ st.at = scan[s].at /\ st.pc = "mark"
      BY <1>2, <3>1 DEF Scan
    <3> HIDE DEF st
    <3>3. LeveledScan(level, st)
      BY <1>2, <3>2, SamePathLeveled
    <3> QED BY <3>3 DEF st
  <2>6. UNCHANGED <<disk, items>>
    BY <1>13 DEF MarkMissing
  <2>7. CASE Becomes(s, NoScan)
    BY <1>3, <1>4, <1>5, <2>4, <2>6, <2>7
  <2>8. CASE Becomes(s, [scan[s] EXCEPT !.doomed = @ \ {id}])
    BY <1>3, <1>4, <2>4, <2>5, <2>6, <2>8
  <2> QED BY <2>1, <2>7, <2>8
<1> QED BY <1>6, <1>7, <1>8, <1>9, <1>10, <1>11, <1>12, <1>13 DEF ScanTurn, ScanStep

\* So do the files that come and go, and restarts.
LEMMA MoveInLevels ==
  ASSUME LibraryInv, NEW level, Leveled(level), InLevels(level), LibraryMove
  PROVE  InLevels(level)'
<1>1. disk \in [Paths -> Contents] /\ Gone \notin Identities
  BY LibraryAssumption DEF LibraryInv, LibraryTypeOK
<1>2. ASSUME \A p \in Paths : disk'[p] \in Identities => level[disk'[p]] = level[KeyOf[p]],
             UNCHANGED <<table, items, scan>>
      PROVE  InLevels(level)'
  BY <1>2 DEF InLevels, InTable
<1>3. \A p \in Paths : disk[p] \in Identities => level[disk[p]] = level[KeyOf[p]]
  BY DEF InLevels
<1>4. CASE DiskChanges
  <2>1. ASSUME NEW p \in Paths, Vanish(p), NEW q \in Paths, disk'[q] \in Identities
        PROVE  level[disk'[q]] = level[KeyOf[q]]
    BY <1>1, <1>3, <2>1 DEF Vanish
  <2>2. ASSUME NEW p \in Paths, NEW c \in Arrivals, Appear(p, c),
               NEW q \in Paths, disk'[q] \in Identities
        PROVE  level[disk'[q]] = level[KeyOf[q]]
    <3>1. CASE q = p
      <4>1. disk'[q] = c /\ p \in Volatile
        BY <1>1, <2>2, <3>1 DEF Appear
      <4> QED BY <2>2, <3>1, <4>1 DEF Leveled
    <3>2. CASE q # p
      BY <1>1, <1>3, <2>2, <3>2 DEF Appear
    <3> QED BY <3>1, <3>2
  <2>3. ASSUME NEW p \in Paths, NEW r \in Paths, Move(p, r),
               NEW q \in Paths, disk'[q] \in Identities
        PROVE  level[disk'[q]] = level[KeyOf[q]]
    <3>1. CASE q = r
      <4>1. disk'[q] = disk[p]
        BY <1>1, <2>3, <3>1 DEF Move
      <4>2. level[KeyOf[r]] = level[KeyOf[p]]
        BY <2>3 DEF Move, Leveled
      <4> QED BY <1>3, <2>3, <3>1, <4>1, <4>2
    <3>2. CASE q # r
      BY <1>1, <1>3, <2>3, <3>2 DEF Move
    <3> QED BY <3>1, <3>2
  <2>4. \A q \in Paths : disk'[q] \in Identities => level[disk'[q]] = level[KeyOf[q]]
    BY <1>4, <2>1, <2>2, <2>3 DEF DiskChanges
  <2> QED BY <1>2, <1>4, <2>4 DEF DiskChanges
<1>5. CASE Restart
  <2>1. /\ \A id \in Ids : items'[id].parent = NoId
        /\ \A s \in Scanners : LeveledScan(level, scan'[s])
    BY <1>5 DEF Restart, NoItem, NoScan, LeveledScan
  <2> QED BY <1>5, <2>1 DEF Restart, InLevels, InTable, LeveledScan
<1>6. CASE UNCHANGED <<disk, table, items, scan>>
  BY <1>2, <1>3, <1>6
<1> QED BY <1>4, <1>5, <1>6, TurnInLevels DEF LibraryMove

\* Numbers have a least one among them.
LEMMA LeastLevel ==
  ASSUME NEW S \in SUBSET Nat, S # {}
  PROVE  \E x \in S : \A y \in S : x <= y
<1> DEFINE R == {p \in Nat \X Nat : p[1] < p[2]}
<1>1. IsWellFoundedOn(R, Nat)
  BY NatLessThanWellFounded DEF OpToRel
<1>2. \A p \in Nat \X Nat : p \in R <=> p[1] < p[2]
  OBVIOUS
<1> HIDE DEF R
<1>3. PICK x \in S : \A y \in S : <<y, x>> \notin R
  BY <1>1, WFMin
<1>4. ASSUME NEW y \in S
      PROVE  x <= y
  <2>1. ~ (y < x)
    BY <1>2, <1>3
  <2> QED BY <2>1
<1> QED BY <1>4

\* Items whose parents are of a level above tie no loop: of the items in a loop, one
\* at the topmost level would have its parent further up, and in the loop.
LEMMA NoLoops ==
  ASSUME LibraryInv, ParentsListed, NEW level, Leveled(level), InLevels(level)
  PROVE  ReachableFromTop
<1>1. level \in [Ids -> Nat] /\ NoId \notin Ids
  BY LibraryAssumption DEF Leveled
<1>2. ASSUME NEW loop \in (SUBSET InView) \ {{}}
      PROVE  \E id \in loop : items[id].parent \notin loop
  <2> DEFINE levels == {level[id] : id \in loop}
  <2>1. loop \subseteq Ids /\ loop # {}
    BY <1>2 DEF InView
  <2>2. levels \in SUBSET Nat /\ levels # {}
    BY <1>1, <2>1
  <2>3. PICK least \in levels : \A other \in levels : least <= other
    BY <2>2, LeastLevel
  <2>4. PICK id \in loop : level[id] = least
    BY <2>3
  <2>5. ASSUME items[id].parent \in loop
        PROVE  FALSE
    <3>1. PICK parent \in loop : parent = items[id].parent
      BY <2>5
    <3>2. parent \in Ids /\ id \in Ids /\ parent # NoId
      BY <1>1, <2>1, <3>1
    <3>3. level[parent] < level[id]
      BY <3>1, <3>2 DEF InLevels
    <3>4. level[id] <= level[parent]
      BY <2>3, <2>4
    <3> QED BY <1>1, <3>2, <3>3, <3>4
  <2> QED BY <2>5
<1> QED BY <1>2 DEF ReachableFromTop
-----------------------------------------------------------------------------
(* Untouched paths keep their uuid *)

\* What it takes: an untouched path lies in no directory that comes and goes, and
\* shares its hierarchy key with no other path.
SteadyApart ==
  \A p \in Steady :
    /\ Within[p] \notin Volatile
    /\ \A q \in Paths : KeyOf[q] = KeyOf[p] => q = p

\* Every record of an untouched path, in the table or in a scan, has the identity
\* that the provider answers for it.
OwnIds ==
  \A p \in Steady :
    /\ \A id \in Ids : table[id].path = p => id = Answers(p)
    /\ \A s \in Scanners :
         scan[s].pc \in {"rekey", "save"} /\ Here(s) = p => scan[s].id = Answers(p)

\* Nobody changes what is at an untouched path.
LEMMA SteadyAnswers ==
  ASSUME LibraryInv, LibraryMove, SteadyApart, NEW p \in Steady
  PROVE  Answers(p)' = Answers(p)
<1>1. disk \in [Paths -> Contents] /\ p \in Paths /\ p \notin Volatile
  BY DEF LibraryInv, LibraryTypeOK, Steady
<1>2. ASSUME NEW q \in Paths, NEW r \in Paths,
             Vanish(q) \/ (\E c \in Arrivals : Appear(q, c)) \/ Move(q, r)
      PROVE  disk'[p] = disk[p]
  BY <1>1, <1>2 DEF Vanish, Appear, Move, Below, SteadyApart
<1>3. ASSUME NEW s \in Scanners, ScanTurn(s)
      PROVE  disk' = disk
  BY <1>3 DEF ScanTurn, StartScan, ScanStep, ByPath, ByKey, Discover, Save, Add,
              ListRecords, MarkMissing
<1>4. disk'[p] = disk[p]
  BY <1>1, <1>2, <1>3 DEF LibraryMove, DiskChanges, Restart
<1> QED BY <1>4 DEF Answers

\* The id that a lookup or a discovery yields for an untouched path is its own.
LEMMA OwnIdFound ==
  ASSUME LibraryInv, OwnIds, SteadyApart, NEW p \in Steady, NEW id \in Ids,
         table[id].path = p \/ HasKey(id, KeyOf[p])
  PROVE  id = Answers(p)
<1>1. InTable(id) => table[id].path \in Paths
  BY RowsOfPaths
<1>2. table[id].path = p
  BY <1>1 DEF HasKey, SteadyApart, Steady
<1> QED BY <1>2 DEF OwnIds

\* One move leaves the records of untouched paths with their own ids.
LEMMA OwnIdsStep ==
  ASSUME LibraryInv, OwnIds, SteadyApart, LibraryMove, "provider" \notin FaultKinds
  PROVE  OwnIds'
<1>1. /\ table \in [Ids -> Rows] /\ scan \in [Scanners -> Scan]
  BY DEF LibraryInv, LibraryTypeOK
<1>2. SUFFICES ASSUME NEW p \in Steady
      PROVE  /\ \A id \in Ids : table'[id].path = p => id = Answers(p)
             /\ \A s \in Scanners :
                  scan'[s].pc \in {"rekey", "save"} /\ scan'[s].at[1] = p =>
                    scan'[s].id = Answers(p)
  BY SteadyAnswers DEF OwnIds, Here
<1> DEFINE OwnTable == \A id \in Ids : table'[id].path = p => id = Answers(p)
           OwnScan(st) == st.pc \in {"rekey", "save"} /\ st.at[1] = p
                            => st.id = Answers(p)
           OwnScans == \A s \in Scanners : OwnScan(scan'[s])
<1>3. p \in Paths /\ p # Root
  BY LibraryAssumption DEF Steady
<1>4. /\ \A id \in Ids : table[id].path = p => id = Answers(p)
      /\ \A s \in Scanners : OwnScan(scan[s])
  BY DEF OwnIds, Here
<1>5. ASSUME NEW s \in Scanners, NEW st, Becomes(s, st), OwnScan(st)
      PROVE  OwnScans
  <2>1. \A r \in Scanners : scan'[r] = st \/ scan'[r] = scan[r]
    BY <1>1, <1>5 DEF Becomes
  <2> QED BY <1>4, <1>5, <2>1
<1>6. ASSUME UNCHANGED table
      PROVE  OwnTable
  BY <1>4, <1>6
<1>7. OwnScan(NoScan)
  BY DEF NoScan
<1>8. ASSUME NEW st
      PROVE  OwnScan(Resolving(st))
  <2>1. CASE st.todo = {} \/ st.todo # {}
    BY <1>3, <2>1 DEF Resolving
  <2> QED BY <2>1
<1>9. ASSUME NEW s \in Scanners, ScanTurn(s)
      PROVE  OwnTable /\ OwnScans
  <2>1. scan[s] \in Scan /\ Purposeful(scan[s]) /\ OwnScan(scan[s])
    BY <1>1, <1>4, <1>9 DEF LibraryInv
  <2>2. ASSUME NEW rows \in SUBSET Ids, NEW hit \in Scan, NEW miss,
               hit.at[1] = p => \A id \in rows : id = Answers(p),
               OwnScan(miss), Found(s, rows, hit, miss)
        PROVE  OwnScans
    <3>1. ASSUME NEW id \in rows
          PROVE  OwnScan([hit EXCEPT !.id = id, !.owner = table[id].lib])
      BY <2>2 DEF Scan
    <3> QED BY <1>5, <2>2, <3>1 DEF Found
  <2>3. ASSUME NEW lib \in Libs, StartScan(s, lib)
        PROVE  OwnTable /\ OwnScans
    BY <1>5, <1>6, <1>8, <2>3 DEF StartScan
  <2>4. CASE ByPath(s)
    <3>1. PICK next \in scan[s].todo :
            LET taken == [scan[s] EXCEPT !.todo = @ \ {next}, !.at = next] IN
              Found(s, {id \in Ids : table[id].path = next[1]},
                    [taken EXCEPT !.pc = "save"], [taken EXCEPT !.pc = "key"])
      BY <2>4 DEF ByPath
    <3> DEFINE taken == [scan[s] EXCEPT !.todo = @ \ {next}, !.at = next]
               hit == [taken EXCEPT !.pc = "save"]
               miss == [taken EXCEPT !.pc = "key"]
               rows == {id \in Ids : table[id].path = next[1]}
    <3>2. next \in Paths \X (Ids \cup {NoId})
      BY <2>1 DEF Scan
    <3>3. hit \in Scan /\ hit.at = next /\ miss.pc = "key"
      BY <2>1, <3>2 DEF Scan
    <3>4. hit.at[1] = p => \A id \in rows : id = Answers(p)
      BY <3>3, OwnIdFound
    <3>5. Found(s, rows, hit, miss) /\ rows \in SUBSET Ids
      BY <3>1
    <3>6. OwnScan(miss)
      BY <3>3
    <3> HIDE DEF hit, miss, rows
    <3>7. OwnScans
      BY <2>2, <3>3, <3>4, <3>5, <3>6
    <3> QED BY <1>6, <2>4, <3>7 DEF ByPath
  <2>5. CASE ByKey(s)
    <3> DEFINE hit == [scan[s] EXCEPT !.pc = "rekey"]
               miss == [scan[s] EXCEPT !.pc = "discover"]
               rows == {id \in Ids : HasKey(id, KeyOf[Here(s)])}
    <3>1. hit \in Scan /\ hit.at = scan[s].at /\ miss.pc = "discover"
      BY <2>1 DEF Scan
    <3>2. hit.at[1] = p => \A id \in rows : id = Answers(p)
      BY <3>1, OwnIdFound DEF Here
    <3>3. Found(s, rows, hit, miss) /\ rows \in SUBSET Ids
      BY <2>5 DEF ByKey
    <3>4. OwnScan(miss)
      BY <3>1
    <3> HIDE DEF hit, miss, rows
    <3>5. OwnScans
      BY <2>2, <3>1, <3>2, <3>3, <3>4
    <3> QED BY <1>6, <2>5, <3>5 DEF ByKey
  <2>6. CASE Discover(s)
    <3>1. PICK id, owner : /\ Becomes(s, Identified(s, id, owner))
                           /\ id = Answers(Here(s)) \/ Fault("provider")
      BY <2>6, Discovered
    <3>2. id = Answers(Here(s))
      BY <3>1 DEF Fault
    <3>3. OwnScan(Identified(s, id, owner))
      BY <2>1, <3>2 DEF Scan, Here, Identified
    <3> QED BY <1>5, <1>6, <2>6, <3>1, <3>3 DEF Discover
  <2>7. ASSUME NEW from \in {"rekey", "save"}, NEW to \in {"save", "add"}, Save(s, from, to)
        PROVE  OwnTable /\ OwnScans
    <3>1. scan[s].pc = from /\ scan[s].id \in Ids
      BY <2>1, <2>7 DEF Save, ScanAt, Purposeful
    <3>2. OwnTable
      <4>1. CASE table' = [table EXCEPT ![scan[s].id] = SavedRow(s)]
        <5>1. ASSUME NEW id \in Ids, table'[id].path = p
              PROVE  id = Answers(p)
          <6>1. CASE id = scan[s].id
            <7>1. Here(s) = p
              BY <1>1, <4>1, <5>1, <6>1 DEF SavedRow
            <7> QED BY <2>1, <3>1, <6>1, <7>1 DEF Here
          <6>2. CASE id # scan[s].id
            <7>1. table'[id] = table[id]
              BY <1>1, <4>1, <6>2
            <7> QED BY <1>4, <5>1, <7>1
          <6> QED BY <6>1, <6>2
        <5> QED BY <5>1
      <4> QED BY <1>6, <2>7, <4>1 DEF Save
    <3>3. OwnScan([scan[s] EXCEPT !.pc = to])
      BY <2>1, <3>1 DEF Scan
    <3> QED BY <1>5, <2>7, <3>2, <3>3 DEF Save
  <2>8. CASE Add(s)
    BY <1>5, <1>6, <1>8, <2>8 DEF Add
  <2>9. CASE ListRecords(s)
    <3>1. OwnScan([scan[s] EXCEPT !.pc = "mark", !.seen = {}, !.doomed = Unseen(s)])
      BY <2>1 DEF Scan
    <3> QED BY <1>5, <1>6, <1>7, <2>9, <3>1 DEF ListRecords
  <2>10. CASE MarkMissing(s)
    <3>1. PICK id \in scan[s].doomed :
            /\ table' = [table EXCEPT ![id].status = "missing"] \/ UNCHANGED table
            /\ Becomes(s, IF scan[s].doomed = {id} THEN NoScan
                          ELSE [scan[s] EXCEPT !.doomed = @ \ {id}])
      BY <2>10 DEF MarkMissing
    <3>2. OwnScan([scan[s] EXCEPT !.doomed = @ \ {id}])
      BY <2>1 DEF Scan
    <3>3. id \in Ids /\ table[id] \in Rows /\ InTable(id)
      BY <1>1, <2>1, <3>1 DEF LibraryInv, Scan
    <3>4. [table[id] EXCEPT !.status = "missing"].path = table[id].path
      BY <3>3 DEF Rows, NoRow, InTable
    <3>5. OwnTable
      BY <1>1, <1>4, <3>1, <3>4
    <3> QED BY <1>5, <1>7, <3>1, <3>2, <3>5
  <2> QED BY <1>9, <2>3, <2>4, <2>5, <2>6, <2>7, <2>8, <2>9, <2>10
          DEF ScanTurn, ScanStep
<1>10. CASE DiskChanges \/ UNCHANGED <<disk, table, items, scan>>
  BY <1>4, <1>10 DEF DiskChanges
<1>11. CASE Restart
  BY <1>4, <1>6, <1>7, <1>11 DEF Restart
<1> QED BY <1>9, <1>10, <1>11 DEF LibraryMove
-----------------------------------------------------------------------------
(* Theorems *)

\* A step of the libraries is a move.
LEMMA LibrarySteps ==
  ASSUME [LibraryNext]_libraryVars, \A s \in Scanners : LibsOf[s] \subseteq Libs
  PROVE  LibraryMove
BY DEF LibraryNext, libraryVars, LibraryMove, ScanTurn, Starts

\* What LibraryAssumption says of the libraries a goroutine may scan.
LEMMA OwnLibs == \A s \in Scanners : LibsOf[s] \subseteq Libs
BY LibraryAssumption

\* Everything the libraries keep is of its domain, and every scan that is to save
\* or mark a record has one.
LEMMA LibrarySafe == LibrarySpec => []LibraryInv
<1>1. LibraryInv /\ [LibraryNext]_libraryVars => LibraryInv'
  BY MoveTyped, LibrarySteps, OwnLibs
<1> QED BY <1>1, InitTyped, PTL DEF LibrarySpec

\* Disk, table, media store and scans hold values of their domains.
THEOREM LibraryTyped == LibrarySpec => []LibraryTypeOK
<1>1. LibraryInv => LibraryTypeOK
  BY DEF LibraryInv
<1> QED BY <1>1, LibrarySafe, PTL

\* Every parent is listed, but it may be the item itself.
LEMMA ParentsStayListed == LibrarySpec => []ParentsListed
<1>1. LibraryInit => ParentsListed /\ ParentsKnown
  BY DEF LibraryInit, ParentsListed, ParentsKnown, NoItem, NoScan
<1>2. LibraryInv /\ ParentsListed /\ ParentsKnown /\ [LibraryNext]_libraryVars =>
        ParentsListed' /\ ParentsKnown'
  BY ParentsStep, LibrarySteps, OwnLibs
<1> QED BY <1>1, <1>2, LibrarySafe, PTL DEF LibrarySpec

\* At the start the files are at their levels, and there is nothing else.
LEMMA InitInLevels ==
  ASSUME LibraryInit, NEW level, Leveled(level)
  PROVE  InLevels(level)
BY DEF LibraryInit, InLevels, Leveled, LeveledScan, InTable, NoRow, NoItem, NoScan

\* If keys and identities each belong to one level of the tree - a season's
\* directory has not the key of its series, as "Specials" has, and an .nfo names
\* what it lies beside - then every item can be reached from the top of the view and
\* no item is below itself, however many scans run at once over however many
\* libraries, across moves, restarts, failed queries and unreadable directories.
THEOREM ViewIsAForest ==
  ASSUME NEW level, Leveled(level)
  PROVE  LibrarySpec => []ReachableFromTop
<1>1. LibraryInit => InLevels(level)
  BY InitInLevels
<1>2. LibraryInv /\ InLevels(level) /\ [LibraryNext]_libraryVars => InLevels(level)'
  BY MoveInLevels, LibrarySteps, OwnLibs
<1>3. LibraryInv /\ ParentsListed /\ InLevels(level) => ReachableFromTop
  BY NoLoops
<1> QED BY <1>1, <1>2, <1>3, LibrarySafe, ParentsStayListed, PTL DEF LibrarySpec

\* As long as the provider answers, a path that nobody touches and that no other
\* path is taken for keeps its uuid, across rescans, restarts, failed queries, and
\* scans of the same library that run at the same time.
THEOREM UntouchedKeepTheirId ==
  ASSUME SteadyApart, "provider" \notin FaultKinds
  PROVE  LibrarySpec => UntouchedKeepId
<1>1. LibraryInit => OwnIds
  BY LibraryAssumption DEF LibraryInit, OwnIds, Steady, NoRow, NoScan
<1>2. LibraryInv /\ OwnIds /\ [LibraryNext]_libraryVars => OwnIds'
  BY OwnIdsStep, LibrarySteps, OwnLibs
<1>3. ASSUME LibraryInv, OwnIds, OwnIds', LibraryMove
      PROVE  \A p \in Steady, a, b \in Ids :
               table[a].path = p /\ table'[b].path = p => a = b
  BY <1>3, SteadyAnswers DEF OwnIds
<1>4. LibraryInv /\ OwnIds /\ OwnIds' /\ [LibraryNext]_libraryVars =>
        [\A p \in Steady, a, b \in Ids :
           table[a].path = p /\ table'[b].path = p => a = b]_libraryVars
  BY <1>3, LibrarySteps, OwnLibs
<1> QED BY <1>1, <1>2, <1>4, LibrarySafe, PTL DEF LibrarySpec, UntouchedKeepId
=============================================================================
