--------------------------- MODULE WatcherProofs ---------------------------
(***************************************************************************)
(* The watcher over any tree of directories: what it keeps is of its       *)
(* domain, and what is proved of the libraries' own scans holds of those   *)
(* that the watcher runs as well.                                          *)
(***************************************************************************)
EXTENDS Watcher, LibraryProofs

\* The watcher's library is one, and its directories are paths or the root.
LEMMA Library1Typed == Library1 \in Libs
BY LibraryAssumption DEF Library1

\* Every step of the watcher and of the scans is a move of the libraries.
LEMMA WatcherMoves ==
  ASSUME [WatchNext]_watchVars
  PROVE  LibraryMove
<1>1. ASSUME NEW s \in Scanners, StartScan(s, Library1)
      PROVE  LibraryMove
  BY <1>1, Library1Typed DEF LibraryMove, ScanTurn
<1>2. CASE InitialScan \/ Flush
  BY <1>1, <1>2, WatcherAssumption DEF InitialScan, Flush
<1>3. CASE StartWatching \/ HandleEvent \/ Settles \/ Write
  BY <1>3 DEF StartWatching, HandleEvent, Settles, Write, LibraryMove
<1>4. CASE \E s \in Scanners : ScanStep(s) /\ UNCHANGED watch
  BY <1>4 DEF LibraryMove, ScanTurn
<1>5. CASE DiskChanges /\ Notices
  BY <1>5 DEF LibraryMove
<1>6. CASE UNCHANGED watchVars
  BY <1>6 DEF watchVars, LibraryMove
<1> QED BY <1>2, <1>3, <1>4, <1>5, <1>6 DEF WatchNext

\* An event lies in a directory that can be watched.
LEMMA EventsWithin ==
  ASSUME NEW p \in Paths
  PROVE  Within[p] \in Watchable
BY WatcherAssumption DEF Watchable

\* What the watcher keeps stays within its domain; the directories are paths.
LEMMA WatchStep ==
  ASSUME LibraryInv, watch \in Watch, [WatchNext]_watchVars
  PROVE  watch' \in Watch
<1>1. /\ watch.dirs \subseteq Watchable
      /\ watch.events \subseteq Paths \X BOOLEAN
      /\ watch.debounce \in [Watchable -> {"none", "recent", "quiet"}]
  BY DEF Watch
<1>2. CASE InitialScan
  BY <1>2 DEF InitialScan, Watch
<1>3. CASE StartWatching
  <2> DEFINE dirs == {Root} \cup {d \in Directories : Present(d)}
  <2>1. watch' = [watch EXCEPT !.stage = "on", !.dirs = dirs]
    BY <1>3 DEF StartWatching
  <2>2. dirs \in SUBSET Watchable
    BY DEF Watchable
  <2> HIDE DEF dirs
  <2> QED BY <2>1, <2>2 DEF Watch
<1>4. CASE HandleEvent
  <2>1. PICK event \in watch.events :
          watch' = [watch EXCEPT
                      !.events = @ \ {event},
                      !.dirs = @ \cup WatchNew(event[1], event[2]),
                      !.debounce[Within[event[1]]] = "recent"]
    BY <1>4 DEF HandleEvent
  <2>2. event[1] \in Paths /\ event[2] \in BOOLEAN
    BY <1>1
  <2>3. WatchNew(event[1], event[2]) \in SUBSET Watchable
    BY DEF WatchNew, Watchable
  <2> DEFINE debounce == [watch.debounce EXCEPT ![Within[event[1]]] = "recent"]
             events == watch.events \ {event}
             dirs == watch.dirs \cup WatchNew(event[1], event[2])
  <2>4. /\ debounce \in [Watchable -> {"none", "recent", "quiet"}]
        /\ events \in SUBSET (Paths \X BOOLEAN) /\ dirs \in SUBSET Watchable
    BY <1>1, <2>2, <2>3, EventsWithin
  <2>5. watch' = [watch EXCEPT !.events = events, !.dirs = dirs, !.debounce = debounce]
    BY <2>1 DEF Watch
  <2> HIDE DEF debounce, events, dirs
  <2> QED BY <2>4, <2>5 DEF Watch
<1>5. CASE Settles
  <2>1. PICK d \in Watchable : watch' = [watch EXCEPT !.debounce[d] = "quiet"]
    BY <1>5 DEF Settles
  <2> QED BY <1>1, <2>1 DEF Watch
<1>6. CASE Flush
  <2>1. watch' = [watch EXCEPT !.debounce = Forgotten(@)]
    BY <1>6 DEF Flush
  <2>2. Forgotten(watch.debounce) \in [Watchable -> {"none", "recent", "quiet"}]
    BY <1>1 DEF Forgotten
  <2> QED BY <2>1, <2>2 DEF Watch
<1>7. CASE Notices
  <2> DEFINE changed == {p \in Paths : disk'[p] # disk[p]}
             noticed == {<<p, disk'[p] # Gone>> : p \in Announced(changed)}
             kept == {d \in watch.dirs : d = Root \/ disk'[d] # Gone}
  <2>1. watch' = [watch EXCEPT !.events = @ \cup noticed, !.dirs = kept]
    BY <1>7 DEF Notices
  <2>2. Announced(changed) \subseteq Paths
    BY DEF Announced
  <2>3. noticed \in SUBSET (Paths \X BOOLEAN)
    <3> HIDE DEF changed
    <3>1. \A p \in Announced(changed) : <<p, disk'[p] # Gone>> \in Paths \X BOOLEAN
      BY <2>2
    <3> QED BY <3>1
  <2>4. kept \in SUBSET Watchable
    BY <1>1
  <2> HIDE DEF noticed, kept
  <2> QED BY <1>1, <2>1, <2>3, <2>4 DEF Watch
<1>8. CASE Write
  <2>1. PICK p \in Paths :
          watch' = [watch EXCEPT !.events = @ \cup {<<p, FALSE>>}]
    BY <1>8 DEF Write
  <2> DEFINE events == watch.events \cup {<<p, FALSE>>}
  <2>2. watch' = [watch EXCEPT !.events = events]
    BY <2>1 DEF Watch
  <2>3. <<p, FALSE>> \in Paths \X BOOLEAN
    OBVIOUS
  <2>4. events \in SUBSET (Paths \X BOOLEAN)
    BY <1>1, <2>3
  <2> HIDE DEF events
  <2> QED BY <2>2, <2>4 DEF Watch
<1>9. CASE UNCHANGED watch
  BY <1>9
<1> QED BY <1>2, <1>3, <1>4, <1>5, <1>6, <1>7, <1>8, <1>9 DEF WatchNext, watchVars

WatcherInv == LibraryInv /\ watch \in Watch

\* The invariant of the libraries holds with the watcher's scans, too.
LEMMA WatcherSafe == WatchSpec => []WatcherInv
<1>1. WatchInit => WatcherInv
  BY InitTyped DEF WatchInit, NoWatch, Watch, WatcherInv
<1>2. WatcherInv /\ [WatchNext]_watchVars => WatcherInv'
  BY MoveTyped, WatcherMoves, WatchStep DEF WatcherInv
<1> QED BY <1>1, <1>2, PTL DEF WatchSpec

\* Libraries and watcher hold values of their domains.
THEOREM WatcherTyped == WatchSpec => []WatchTypeOK
<1>1. WatcherInv => WatchTypeOK
  BY DEF WatcherInv, LibraryInv, WatchTypeOK
<1> QED BY <1>1, WatcherSafe, PTL

\* With keys and identities that each belong to one level of the tree, no scan that
\* the watcher runs ties a loop of items or leaves one without its parents, whatever
\* comes, goes and moves while it runs.
THEOREM WatchedViewIsAForest ==
  ASSUME NEW level, Leveled(level)
  PROVE  WatchSpec => []ReachableFromTop
<1>1. WatchInit => ParentsListed /\ ParentsKnown /\ InLevels(level)
  BY InitInLevels
  DEF WatchInit, LibraryInit, ParentsListed, ParentsKnown, NoItem, NoScan
<1>2. LibraryInv /\ ParentsListed /\ ParentsKnown /\ InLevels(level)
      /\ [WatchNext]_watchVars =>
        ParentsListed' /\ ParentsKnown' /\ InLevels(level)'
  BY ParentsStep, MoveInLevels, WatcherMoves
<1>3. WatcherInv => LibraryInv
  BY DEF WatcherInv
<1>4. LibraryInv /\ ParentsListed /\ InLevels(level) => ReachableFromTop
  BY NoLoops
<1> QED BY <1>1, <1>2, <1>3, <1>4, WatcherSafe, PTL DEF WatchSpec

\* No event and no scan of the watcher's gives an untouched path another uuid.
THEOREM WatchedKeepTheirId ==
  ASSUME SteadyApart, "provider" \notin FaultKinds
  PROVE  WatchSpec => UntouchedKeepId
<1>1. WatchInit => OwnIds
  BY LibraryAssumption DEF WatchInit, LibraryInit, OwnIds, Steady, NoRow, NoScan
<1>2. LibraryInv /\ OwnIds /\ [WatchNext]_watchVars => OwnIds'
  BY OwnIdsStep, WatcherMoves
<1>3. LibraryInv /\ OwnIds /\ OwnIds' /\ [WatchNext]_watchVars =>
        [\A p \in Steady, a, b \in Ids :
           table[a].path = p /\ table'[b].path = p => a = b]_libraryVars
  BY WatcherMoves, SteadyAnswers DEF OwnIds
<1>4. WatcherInv => LibraryInv
  BY DEF WatcherInv
<1> QED BY <1>1, <1>2, <1>3, <1>4, WatcherSafe, PTL DEF WatchSpec, UntouchedKeepId
=============================================================================
