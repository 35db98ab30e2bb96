------------------------------ MODULE Watcher ------------------------------
(***************************************************************************)
(* Watcher (src/internal/adapters/filesystem/watcher.go) over one library: *)
(* inotify events of the watched directories, the debounce map, and the    *)
(* scan that a flush runs in the watcher's own goroutine, which handles no *)
(* event meanwhile.  The watcher is made after the initial scan, and there *)
(* are no periodic scans here: whatever it misses stays missed.            *)
(***************************************************************************)
EXTENDS Library

CONSTANTS
  Directories,   \* the paths that are directories
  Boot,          \* the goroutine of the initial scan
  Watchman       \* the goroutine of the watcher

ASSUME WatcherAssumption ==
  /\ {Boot, Watchman} \subseteq Scanners /\ Boot # Watchman
  /\ \A p \in Paths : Within[p] \in Directories \cup {Root}

VARIABLE watch

watchVars == <<disk, table, items, scan, watch, faults>>

Watchable == Directories \cup {Root}

\* stage     "boot" until the initial scan begins, "scan" until it is over
\* dirs      directories with an inotify watch
\* events    events not read yet: the path, and whether it was created
\* debounce  per directory: no event, one in the last 5 seconds, older ones
Watch == [stage    : {"boot", "scan", "on"},
          dirs     : SUBSET Watchable,
          events   : SUBSET (Paths \X BOOLEAN),
          debounce : [Watchable -> {"none", "recent", "quiet"}]]

NoWatch == [stage |-> "boot", dirs |-> {}, events |-> {},
            debounce |-> [d \in Watchable |-> "none"]]

Library1 == CHOOSE l \in Libs : TRUE

InitialScan ==
  /\ watch.stage = "boot"
  /\ StartScan(Boot, Library1)
  /\ watch' = [watch EXCEPT !.stage = "scan"]

\* Mutant: what is not a directory is watched as well.
StartWatchingAll ==
  /\ watch.stage = "scan" /\ ScanAt(Boot, "idle")
  /\ watch' = [watch EXCEPT !.stage = "on",
                            !.dirs = {Root} \cup {p \in Paths : Present(p)}]
  /\ NoFault /\ UNCHANGED <<disk, table, items, scan>>

\* NewWatcher: addWatchRecursive.  Directories that come up during the walk are
\* announced by the watch on the one above.
StartWatching ==
  /\ watch.stage = "scan" /\ ScanAt(Boot, "idle")
  /\ watch' = [watch EXCEPT !.stage = "on",
                            !.dirs = {Root} \cup {d \in Directories : Present(d)}]
  /\ NoFault /\ UNCHANGED <<disk, table, items, scan>>

Listening == watch.stage = "on" /\ ScanAt(Watchman, "idle")

\* Mutant: new directories are not watched.
WatchNothingNew(p, created) == {}

\* A watch is added to a directory that was created, if it is still there, but
\* not to those it already has in it.
WatchNew(p, created) ==
  IF created /\ p \in Directories /\ Present(p) THEN {p} ELSE {}

\* Mutant: only what was created, or written to, calls for a scan.
HandleArrival ==
  /\ Listening
  /\ \E event \in watch.events :
       watch' = [watch EXCEPT
                   !.events = @ \ {event},
                   !.dirs = @ \cup WatchNew(event[1], event[2]),
                   !.debounce[Within[event[1]]] =
                      IF Present(event[1]) THEN "recent" ELSE @]
  /\ NoFault /\ UNCHANGED <<disk, table, items, scan>>

HandleEvent ==
  /\ Listening
  /\ \E event \in watch.events :
       watch' = [watch EXCEPT
                   !.events = @ \ {event},
                   !.dirs = @ \cup WatchNew(event[1], event[2]),
                   !.debounce[Within[event[1]]] = "recent"]
  /\ NoFault /\ UNCHANGED <<disk, table, items, scan>>

\* Five seconds without another event.
Settles ==
  /\ \E d \in Watchable :
       /\ watch.debounce[d] = "recent"
       /\ watch' = [watch EXCEPT !.debounce[d] = "quiet"]
  /\ NoFault /\ UNCHANGED <<disk, table, items, scan>>

Forgotten(debounce) ==
  [d \in Watchable |-> IF debounce[d] = "quiet" THEN "none" ELSE debounce[d]]

\* flushDebounced: the quiet directories are forgotten, and the library scanned.
Flush ==
  /\ Listening
  /\ \E d \in Watchable : watch.debounce[d] = "quiet"
  /\ StartScan(Watchman, Library1)
  /\ watch' = [watch EXCEPT !.debounce = Forgotten(@)]

\* inotify (external): a change is announced if its directory is watched, and a
\* directory that is removed loses its watch.
Announced(changed) == {p \in changed : Within[p] \in watch.dirs}

Notices ==
  LET changed == {p \in Paths : disk'[p] # disk[p]} IN
    watch' = [watch EXCEPT
      !.events = @ \cup {<<p, disk'[p] # Gone>> : p \in Announced(changed)},
      !.dirs = {d \in @ : d = Root \/ disk'[d] # Gone}]

\* A video is being written to.
Write ==
  /\ \E p \in Paths \ Directories :
       /\ Present(p) /\ Within[p] \in watch.dirs
       /\ watch' = [watch EXCEPT !.events = @ \cup {<<p, FALSE>>}]
  /\ Fault("write")
  /\ UNCHANGED <<disk, table, items, scan>>

WatchInit == LibraryInit /\ watch = NoWatch

WatchNext ==
  \/ InitialScan \/ StartWatching \/ HandleEvent \/ Settles \/ Flush
  \/ \E s \in Scanners : ScanStep(s) /\ UNCHANGED watch
  \/ DiskChanges /\ Notices
  \/ Write

\* Scans and the watcher's goroutine go on, and time passes.
WatcherRuns ==
  /\ \A s \in Scanners : WF_watchVars(ScanStep(s) /\ UNCHANGED watch)
  /\ WF_watchVars(InitialScan) /\ WF_watchVars(StartWatching)
  /\ WF_watchVars(HandleEvent) /\ WF_watchVars(Settles) /\ WF_watchVars(Flush)

WatchSpec == WatchInit /\ [][WatchNext]_watchVars /\ WatcherRuns
-----------------------------------------------------------------------------
WatchTypeOK == LibraryTypeOK /\ watch \in Watch

Listed(p) == \E id \in Ids : items[id].path = p

\* Without any periodic scan, a file that turns up in the library or in one of
\* its directories once the watcher is on is listed, also when the directory is
\* as new as the file and nothing has announced the file itself.
NewFilesListed ==
  \A p \in Paths :
    [](watch.stage = "on" /\ ~ Present(p) /\ <>[]Findable(p) => <>Listed(p))

\* A file that was seen there, and goes, ends up missing in the same way.
GoneFilesNoticed ==
  \A p \in Paths :
    [](watch.stage = "on" /\ Present(p) /\ <>[]~Present(p) =>
         <>[](\A id \in Ids : table[id].path = p => table[id].status = "missing"))
=============================================================================
