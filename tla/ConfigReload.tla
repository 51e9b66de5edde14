---------------------------- MODULE ConfigReload ----------------------------
(***************************************************************************)
(* Hot reload of the configuration: an editor writes files, the watcher    *)
(* thread filters the file system's events by the running include graph    *)
(* and coalesces them into one token, the event loop debounces the token   *)
(* with a trailing timer, and a reload reads the graph file by file, swaps *)
(* it in whole and hands the watches over.  load-config-file moves the     *)
(* session to another main file.                                           *)
(*                                                                         *)
(* A text is what a reload tells apart: whether it evaluates, which files  *)
(* it includes, and a revision.  A missing file is a text that does not    *)
(* evaluate.  Includes are acyclic and directories exist throughout.       *)
(***************************************************************************)
EXTENDS Naturals, FiniteSets

CONSTANTS
  Files,        \* the files there are
  MainFile,     \* the file read at startup
  DirOf,        \* the directory of each file
  TextsOf,      \* the texts each file may hold: [evaluates, includes, rev]
  MaxSaves      \* how often the editor saves

ASSUME CrAssumption ==
  /\ MainFile \in Files
  /\ MaxSaves \in Nat
  /\ \A f \in Files : \A t \in TextsOf[f] :
       t.evaluates \in BOOLEAN /\ t.includes \subseteq Files

VARIABLES
  disk,        \* what each file holds
  saves,       \* saves so far (bounds the editor)
  path,        \* the main file in force: the override, or the default
  fallback,    \* the override a running load-config-file would restore
  target,      \* its file; the main file in force when none runs
  running,     \* the active configuration: each file of its graph, as read
  root,        \* the main file it was read from
  failed,      \* the panel shows that the last reload failed
  raised,      \* files with an event the watcher thread has not seen
  pending,     \* the flag that coalesces events
  token,       \* a token is in the channel to the event loop
  armed,       \* the debounce timer is armed
  fresh,       \* an event came since the timer was last set
  phase,       \* where the event loop is in a reload
  todo,        \* files the reload has still to read
  got,         \* files it has read
  relevant,    \* the graph the watcher filters by
  dirs,        \* the directories watched
  unread,      \* changes let through and not read since (a ghost)
  early        \* files whose last save came while the watcher did not filter
               \* by them, and that were not read since (a ghost)

editor  == <<disk, saves>>
session == <<path, fallback, target, running, root, failed>>
events  == <<raised, pending, token>>
timer   == <<armed, fresh>>
reading == <<phase, todo, got>>
watches == <<relevant, dirs>>
ghosts  == <<unread, early>>
crVars  == <<editor, session, events, timer, reading, watches, ghosts>>

Texts    == UNION {TextsOf[f] : f \in Files}
Partial  == UNION {[S -> Texts] : S \in SUBSET Files}
Dirs(S)  == {DirOf[f] : f \in S}

CrTypeOK ==
  /\ disk \in [Files -> Texts] /\ saves \in 0..MaxSaves
  /\ {path, fallback, target, root} \subseteq Files
  /\ running \in Partial /\ got \in Partial
  /\ {failed, pending, token, armed, fresh} \subseteq BOOLEAN
  /\ raised \subseteq Files /\ todo \subseteq Files
  /\ unread \subseteq Files /\ early \subseteq Files
  /\ phase \in {"idle", "read", "watch", "filter", "unwatch"}
  /\ relevant \subseteq Files /\ dirs \subseteq Dirs(Files)

-----------------------------------------------------------------------------
(* A walk of the include graph.  Reading a file adds its includes; one that *)
(* does not evaluate is skipped with a warning, but stays in the graph.    *)

ReadFile(f) ==
  /\ got'  = [g \in DOMAIN got \cup {f} |-> IF g = f THEN disk[f] ELSE got[g]]
  /\ todo' = (todo \cup (IF disk[f].evaluates THEN disk[f].includes ELSE {}))
               \ (DOMAIN got \cup {f})

CrInit ==
  /\ disk \in [Files -> Texts] /\ \A f \in Files : disk[f] \in TextsOf[f]
  /\ disk[MainFile].evaluates /\ disk[MainFile].includes = {}
  /\ saves = 0
  /\ path = MainFile /\ fallback = MainFile /\ target = MainFile
  /\ running = [f \in {MainFile} |-> disk[f]] /\ root = MainFile /\ failed = FALSE
  /\ raised = {} /\ pending = FALSE /\ token = FALSE
  /\ armed = FALSE /\ fresh = FALSE
  /\ phase = "idle" /\ todo = {} /\ got = running
  /\ relevant = {MainFile} /\ dirs = Dirs({MainFile})
  /\ unread = {} /\ early = {}

(* A save, a removal or a creation.  The kernel reports it if the file's   *)
(* directory is watched at that moment.                                    *)
Save(f, t) ==
  /\ saves < MaxSaves /\ saves' = saves + 1
  /\ t # disk[f] /\ disk' = [disk EXCEPT ![f] = t]
  /\ raised' = IF DirOf[f] \in dirs THEN raised \cup {f} ELSE raised
  /\ early' = IF f \in relevant THEN early \ {f} ELSE early \cup {f}
  /\ UNCHANGED <<session, pending, token, timer, reading, watches, unread>>

(* The watcher thread's callback: the relevant event raises the flag, and  *)
(* only the one that raised it sends a token.                              *)
WatcherSees(f) ==
  /\ f \in raised /\ raised' = raised \ {f}
  /\ IF f \in relevant
       THEN /\ pending' = TRUE /\ token' = (token \/ ~pending)
            /\ unread' = unread \cup {f} /\ early' = early \ {f}
       ELSE early' = early \cup {f} /\ UNCHANGED <<pending, token, unread>>
  /\ UNCHANGED <<editor, session, timer, reading, watches>>

BeginReload(main) ==
  /\ phase' = "read" /\ todo' = {main} /\ got' = [f \in {} |-> disk[f]]
  /\ unread' = {} /\ early' = early

(* The event loop takes the token: the flag falls first, then the event is *)
(* noted.  A timer that cannot be armed reloads at once.                   *)
NoteEvent ==
  /\ phase = "idle" /\ token
  /\ token' = FALSE /\ pending' = FALSE
  /\ \/ armed' = TRUE /\ fresh' = armed /\ UNCHANGED <<reading, ghosts>>
     \/ ~armed /\ BeginReload(path) /\ UNCHANGED timer
  /\ UNCHANGED <<editor, session, raised, watches>>

QuietTimer ==
  /\ phase = "idle" /\ armed
  /\ \/ fresh /\ fresh' = FALSE /\ UNCHANGED <<armed, reading, ghosts>>
     \/ ~fresh /\ armed' = FALSE /\ BeginReload(path) /\ UNCHANGED fresh
  /\ UNCHANGED <<editor, session, events, watches>>

(* The reload-config action, and load-config-file with a file that exists. *)
ReloadNow ==
  /\ phase = "idle" /\ BeginReload(path)
  /\ UNCHANGED <<editor, session, events, timer, watches>>

LoadConfigFile(f) ==
  /\ phase = "idle" /\ f # path
  /\ fallback' = path /\ path' = f /\ target' = f
  /\ BeginReload(f)
  /\ UNCHANGED <<editor, running, root, failed, events, timer, watches>>

ReadNext(f) ==
  /\ phase = "read" /\ f \in todo
  /\ ReadFile(f)
  /\ phase' = IF todo' # {} THEN "read" ELSE "watch"
  /\ early' = early \ {f}
  /\ UNCHANGED <<editor, session, events, timer, watches, unread>>

(* The override a load leaves: its target once that is in the active graph. *)
SettlePath(graph) ==
  /\ path' = IF target \in graph THEN path ELSE fallback
  /\ target' = path' /\ fallback' = path'

(* The main file does not evaluate: everything stays, the panel says why.  *)
ReloadFails ==
  /\ phase = "watch" /\ ~got[path].evaluates
  /\ phase' = "idle" /\ failed' = TRUE
  /\ SettlePath(DOMAIN running)
  /\ UNCHANGED <<editor, running, root, events, timer, todo, got, watches,
                 ghosts>>

Lands ==
  /\ phase = "watch" /\ got[path].evaluates
  /\ running' = got /\ root' = path /\ failed' = FALSE
  /\ phase' = "filter"
  /\ UNCHANGED <<editor, path, fallback, target, events, timer, todo, got,
                 relevant, ghosts>>

(* Mutant of ReloadLands: the old watches are retired first and the new ones  *)
(* registered with the last step.                                          *)
RetiresFirst == Lands /\ dirs' = dirs \cap Dirs(DOMAIN got)

(* The graph is swapped in whole; directories new to it are watched first. *)
ReloadLands == Lands /\ dirs' = dirs \cup Dirs(DOMAIN got)

SwapFilter ==
  /\ phase = "filter" /\ phase' = "unwatch"
  /\ relevant' = DOMAIN running
  /\ UNCHANGED <<editor, session, events, timer, todo, got, dirs, ghosts>>

DropWatches ==
  /\ phase = "unwatch" /\ phase' = "idle"
  /\ dirs' = Dirs(relevant)
  /\ SettlePath(DOMAIN running)
  /\ UNCHANGED <<editor, running, root, failed, events, timer, todo, got,
                 relevant, ghosts>>

CrLoop == \/ NoteEvent \/ QuietTimer \/ ReloadFails \/ ReloadLands
          \/ SwapFilter \/ DropWatches
          \/ \E f \in Files : ReadNext(f)

CrNext ==
  \/ \E f \in Files : \E t \in TextsOf[f] : Save(f, t)
  \/ \E f \in Files : WatcherSees(f) \/ LoadConfigFile(f)
  \/ ReloadNow \/ CrLoop

CrFairness ==
  /\ WF_crVars(CrLoop)
  /\ \A f \in Files : WF_crVars(WatcherSees(f))

CrSpec == CrInit /\ [][CrNext]_crVars /\ CrFairness

-----------------------------------------------------------------------------
(* A change the watcher let through and no reload has read since is still   *)
(* on its way: a token waits, or the timer runs.  And the flag that makes   *)
(* the watcher swallow further events is up only while a token does wait.   *)
NoChangeIsLost ==
  /\ unread # {} => token \/ armed
  /\ pending => token

(* Between reloads the watcher filters by exactly the active graph, and     *)
(* every directory of it is watched and no other.  The main file a reload   *)
(* would read is the one that runs; load-config-file leaves another behind  *)
(* only if its target failed to load and is a file of the active graph.     *)
WatchesFollowTheGraph ==
  phase = "idle" =>
    /\ relevant = DOMAIN running /\ dirs = Dirs(relevant)
    /\ path # root => failed /\ path \in DOMAIN running

Current(f) == f \in DOMAIN running /\ running[f] = disk[f]

(* What a save the watcher let through comes to.                            *)
ChangeLanded(f) == failed \/ f \notin DOMAIN running \/ Current(f)

(* Between reloads the session runs every file of its graph as it stands on *)
(* disk, or the change is on its way, or the panel shows that a reload      *)
(* failed.  What the hand-over of the watches may lose is one thing only:   *)
(* the save of a file the watcher did not filter by when it came, because   *)
(* the reload that includes it had read it and not handed over yet.         *)
SavesAreFollowed ==
  phase = "idle" /\ ~failed =>
    \A f \in DOMAIN running : Current(f) \/ f \in raised \cup unread \cup early

(* The watcher, its flag, the graph and what runs agree whenever the loop   *)
(* is between reloads, whatever was saved while one read or handed over.    *)
ReloadTracksDisk ==
  CrTypeOK /\ NoChangeIsLost /\ WatchesFollowTheGraph /\ SavesAreFollowed

(* The promise of ConfigWatcher::update_paths, without that exception: no   *)
(* edit falls into a gap.  When everything has settled and no reload        *)
(* failed, the session runs what is on disk.                                *)
NoHandoffGap ==
  phase = "idle" /\ ~failed /\ ~token /\ ~armed /\ raised = {} =>
    \A f \in DOMAIN running : Current(f)
=============================================================================
