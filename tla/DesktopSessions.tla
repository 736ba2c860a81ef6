-------------------------- MODULE DesktopSessions --------------------------
(***************************************************************************)
(* The application sessions of the desktop host                            *)
(* (src/apps/desktop/src-tauri/src/view_surface.rs): a registry of open    *)
(* sessions with an index by archive, by application and by window, the    *)
(* View attachments of their trees, and the commands that start and stop   *)
(* sessions.                                                               *)
(*                                                                         *)
(* The registry is behind a tokio mutex.  start_session holds it from its  *)
(* first look at the registry until the session is registered; stop_session*)
(* holds it while it takes the entry out, lets it go while the tree stops, *)
(* and takes it again to put the entry back when the stop failed.          *)
(*                                                                         *)
(* A session is named by the start command that opened it (the code numbers*)
(* them).  Its tree shows one View, in application ViewApp, in a window of *)
(* its own; a one-shot execution of an archive shows a window as well and  *)
(* is in no registry.  Inspected are the applications an archive's         *)
(* directory lists (the root and its direct children), AppsOf all of them; *)
(* Suspect are the starts whose bytes may turn out to have another kappa   *)
(* than the one they were asked for under.                                 *)
(***************************************************************************)
EXTENDS Naturals, FiniteSets

CONSTANTS Archives, Applications, AppsOf, Inspected, ViewApp,
          Starts, Suspect, Runs, Stops, ArchiveOf, None

Labels == Starts \cup Runs

ASSUME SessionAssumption ==
  /\ AppsOf \in [Archives -> SUBSET Applications]
  /\ Inspected \in [Archives -> SUBSET Applications]
  /\ \A a \in Archives : Inspected[a] \subseteq AppsOf[a]
  /\ ViewApp \in [Archives -> Applications]
  /\ \A a \in Archives : ViewApp[a] \in AppsOf[a]
  /\ ArchiveOf \in [Labels -> Archives]
  /\ Suspect \subseteq Starts
  /\ Starts \cap Runs = {}
  /\ None \notin Starts \cup Runs

VARIABLES
  lock,          \* the start command that holds the registry's mutex, or None
  entries,       \* the registered sessions
  archives,      \* index: archive |-> session
  applications,  \* index: application |-> session
  windows,       \* index: window label |-> session
  labels,        \* window_labels of each session's entry
  attached,      \* labels with an attachment in the asset store
  tree,          \* the tree of each session
  cmd,           \* where each start command is
  pc,            \* where each stop command is
  job,           \* the session a stop command is about
  todo,          \* stop_all: the sessions it still has to stop
  retried        \* some failed stop has put its entry back

index == <<archives, applications, windows>>
vars == <<lock, entries, index, labels, attached, tree, cmd, pc, job, todo, retried>>

TypeOK ==
  /\ lock \in Starts \cup {None}
  /\ entries \subseteq Starts
  /\ archives \in [Archives -> Starts \cup {None}]
  /\ applications \in [Applications -> Starts \cup {None}]
  /\ windows \in [Labels -> Starts \cup {None}]
  /\ labels \in [Starts -> SUBSET Labels]
  /\ attached \subseteq Labels
  /\ tree \in [Starts -> {"absent", "Running", "Stopping", "Stopped", "Failed"}]
  /\ cmd \in [Starts -> {"idle", "starting", "registering", "undoing", "opened", "ended", "leaked"}]
  /\ pc \in [Stops -> {"idle", "window", "all", "stopping", "restoring", "done"}]
  /\ job \in [Stops -> Starts \cup {None}]
  /\ todo \in [Stops -> SUBSET Starts]
  /\ retried \in BOOLEAN

Init ==
  /\ lock = None
  /\ entries = {}
  /\ archives = [a \in Archives |-> None]
  /\ applications = [a \in Applications |-> None]
  /\ windows = [w \in Labels |-> None]
  /\ labels = [s \in Starts |-> {}]
  /\ attached = {}
  /\ tree = [s \in Starts |-> "absent"]
  /\ cmd = [s \in Starts |-> "idle"]
  /\ pc = [t \in Stops |-> "idle"]
  /\ job = [t \in Stops |-> None]
  /\ todo = [t \in Stops |-> {}]
  /\ retried = FALSE

SessionApps(s) == AppsOf[ArchiveOf[s]]
AttachedApp(w) == ViewApp[ArchiveOf[w]]

-----------------------------------------------------------------------------
(* start_session.                                                          *)

\* Starting an open archive returns its session, or an error when the archive
\* index is stale (RegistryConsistent).
StartExisting(s) ==
  /\ cmd[s] = "idle"
  /\ lock = None
  /\ archives[ArchiveOf[s]] # None
  /\ cmd' = [cmd EXCEPT ![s] = "ended"]
  /\ UNCHANGED <<lock, entries, index, labels, attached, tree, pc, job, todo, retried>>

\* An application of the archive is open in another session.
StartRefused(s) ==
  /\ cmd[s] = "idle"
  /\ lock = None
  /\ archives[ArchiveOf[s]] = None
  /\ \E a \in Inspected[ArchiveOf[s]] : applications[a] # None
  /\ cmd' = [cmd EXCEPT ![s] = "ended"]
  /\ UNCHANGED <<lock, entries, index, labels, attached, tree, pc, job, todo, retried>>

\* The audit log is opened and the tree is started with the lock held.
StartBegin(s) ==
  /\ cmd[s] = "idle"
  /\ lock = None
  /\ archives[ArchiveOf[s]] = None
  /\ \A a \in Inspected[ArchiveOf[s]] : applications[a] = None
  /\ lock' = s
  /\ cmd' = [cmd EXCEPT ![s] = "starting"]
  /\ UNCHANGED <<entries, index, labels, attached, tree, pc, job, todo, retried>>

\* The tree is up: its View was attached on the way.
Started(s) ==
  /\ cmd[s] = "starting"
  /\ tree' = [tree EXCEPT ![s] = "Running"]
  /\ attached' = attached \cup {s}
  /\ cmd' = [cmd EXCEPT ![s] = "registering"]
  /\ UNCHANGED <<lock, entries, index, labels, pc, job, todo, retried>>

\* The configuration, the audit log or the tree itself failed; a tree that
\* failed to start was rolled back (a View that would not detach then is one
\* more attachment outside the registry, see RunAttaches).
StartFails(s) ==
  /\ cmd[s] = "starting"
  /\ lock' = None
  /\ cmd' = [cmd EXCEPT ![s] = "ended"]
  /\ UNCHANGED <<entries, index, labels, attached, tree, pc, job, todo, retried>>

\* labels_for_applications: every attachment of the session's applications,
\* whichever tree it belongs to.
LabelsFor(s) == {w \in attached : AttachedApp(w) \in SessionApps(s)}

\* register_started: all indexes and the entry, under the lock.
Register(s) ==
  /\ cmd[s] = "registering"
  /\ \A a \in SessionApps(s) : applications[a] = None
  /\ labels' = [labels EXCEPT ![s] = LabelsFor(s)]
  /\ windows' = [w \in Labels |-> IF w \in LabelsFor(s) THEN s ELSE windows[w]]
  /\ archives' = [archives EXCEPT ![ArchiveOf[s]] = s]
  /\ applications' = [a \in Applications |-> IF a \in SessionApps(s) THEN s ELSE applications[a]]
  /\ entries' = entries \cup {s}
  /\ lock' = None
  /\ cmd' = [cmd EXCEPT ![s] = "opened"]
  /\ UNCHANGED <<attached, tree, pc, job, todo, retried>>

\* An application deeper in the tree is open elsewhere, or the bytes are not
\* those of the archive that was asked for: the tree that has just been
\* started is stopped again, still under the lock.
RegisterRefused(s) ==
  /\ cmd[s] = "registering"
  /\ s \in Suspect \/ \E a \in SessionApps(s) : applications[a] # None
  /\ tree' = [tree EXCEPT ![s] = "Stopping"]
  /\ cmd' = [cmd EXCEPT ![s] = "undoing"]
  /\ UNCHANGED <<lock, entries, index, labels, attached, pc, job, todo, retried>>

\* RunningApplication::stop of session s returns: Ok with the View detached,
\* or an error with the View detached or still there.
TreeStops(s, ok) ==
  /\ tree' = [tree EXCEPT ![s] = IF ok THEN "Stopped" ELSE "Failed"]
  /\ \/ attached' = attached \ {s}
     \/ ~ok /\ UNCHANGED attached

Undone(s, ok) ==
  /\ cmd[s] = "undoing"
  /\ TreeStops(s, ok)
  /\ lock' = None
  /\ cmd' = [cmd EXCEPT ![s] = IF ok THEN "ended" ELSE "leaked"]
  /\ UNCHANGED <<entries, index, labels, pc, job, todo, retried>>

-----------------------------------------------------------------------------
(* stop_session, and the commands that end in it.                          *)

\* A window's close request looks the session up and lets the lock go.
CloseWindow(t, w) ==
  /\ pc[t] = "idle"
  /\ lock = None
  /\ w \in attached
  /\ IF windows[w] = None
     THEN pc' = [pc EXCEPT ![t] = "done"] /\ UNCHANGED job
     ELSE pc' = [pc EXCEPT ![t] = "window"] /\ job' = [job EXCEPT ![t] = windows[w]]
  /\ UNCHANGED <<lock, entries, index, labels, attached, tree, cmd, todo, retried>>

\* Quit lists the sessions and then stops them one after the other.
StopAll(t) ==
  /\ pc[t] = "idle"
  /\ lock = None
  /\ pc' = [pc EXCEPT ![t] = "all"]
  /\ todo' = [todo EXCEPT ![t] = entries]
  /\ UNCHANGED <<lock, entries, index, labels, attached, tree, cmd, job, retried>>

\* The stop command of the Applications screen, for a session it has seen.
Asked(t, s) == pc[t] = "idle" /\ cmd[s] = "opened"
\* stop_window's and stop_all's turn to call stop_session.
Due(t, s) == (pc[t] = "window" /\ job[t] = s) \/ (pc[t] = "all" /\ s \in todo[t])

\* After a stop_session of s: stop_all goes on, the others are done.
Finish(t, s) ==
  /\ todo' = [todo EXCEPT ![t] = todo[t] \ {s}]
  /\ pc' = [pc EXCEPT ![t] = IF todo[t] \ {s} = {} THEN "done" ELSE "all"]
  /\ job' = [job EXCEPT ![t] = None]

\* Mutant: the window index is forgotten.
DroppedKeepsWindows(s) ==
  /\ archives' = [archives EXCEPT ![ArchiveOf[s]] = None]
  /\ applications' = [a \in Applications |-> IF a \in SessionApps(s) THEN None ELSE applications[a]]
  /\ windows' = windows

\* The indexes without those of session s.
Dropped(s) ==
  /\ archives' = [archives EXCEPT ![ArchiveOf[s]] = None]
  /\ applications' = [a \in Applications |-> IF a \in SessionApps(s) THEN None ELSE applications[a]]
  /\ windows' = [w \in Labels |-> IF w \in labels[s] THEN None ELSE windows[w]]

\* The entry and its indexes are removed and the tree begins to stop.
StopTake(t, s) ==
  /\ Asked(t, s) \/ Due(t, s)
  /\ lock = None
  /\ s \in entries
  /\ entries' = entries \ {s}
  /\ Dropped(s)
  /\ tree' = [tree EXCEPT ![s] = "Stopping"]
  /\ pc' = [pc EXCEPT ![t] = "stopping"]
  /\ job' = [job EXCEPT ![t] = s]
  /\ UNCHANGED <<lock, labels, attached, cmd, todo, retried>>

\* Mutant: stop_all tries a session that is gone again and again.
StopNotOpenAgain(t, s) ==
  /\ Asked(t, s) \/ Due(t, s)
  /\ lock = None
  /\ s \notin entries
  /\ pc' = [pc EXCEPT ![t] = IF todo[t] = {} THEN "done" ELSE "all"]
  /\ UNCHANGED <<lock, entries, index, labels, attached, tree, cmd, job, todo, retried>>

\* "application session is not open".
StopNotOpen(t, s) ==
  /\ Asked(t, s) \/ Due(t, s)
  /\ lock = None
  /\ s \notin entries
  /\ Finish(t, s)
  /\ UNCHANGED <<lock, entries, index, labels, attached, tree, cmd, retried>>

StopAllEnds(t) ==
  /\ pc[t] = "all"
  /\ todo[t] = {}
  /\ pc' = [pc EXCEPT ![t] = "done"]
  /\ UNCHANGED <<lock, entries, index, labels, attached, tree, cmd, job, todo, retried>>

\* The entry is dropped with the stopped tree.
StopSucceeds(t) ==
  /\ pc[t] = "stopping"
  /\ TreeStops(job[t], TRUE)
  /\ labels' = [labels EXCEPT ![job[t]] = {}]
  /\ Finish(t, job[t])
  /\ UNCHANGED <<lock, entries, index, cmd, retried>>

\* Mutant: a failed stop does not put the entry back.
StopFailsForgets(t) ==
  /\ pc[t] = "stopping"
  /\ TreeStops(job[t], FALSE)
  /\ Finish(t, job[t])
  /\ UNCHANGED <<lock, entries, index, labels, cmd, retried>>

StopFails(t) ==
  /\ pc[t] = "stopping"
  /\ TreeStops(job[t], FALSE)
  /\ pc' = [pc EXCEPT ![t] = "restoring"]
  /\ UNCHANGED <<lock, entries, index, labels, cmd, job, todo, retried>>

\* The entry and its indexes are put back, over whatever is there by now.
StopRestore(t) ==
  LET s == job[t] IN
  /\ pc[t] = "restoring"
  /\ lock = None
  /\ archives' = [archives EXCEPT ![ArchiveOf[s]] = s]
  /\ applications' = [a \in Applications |-> IF a \in SessionApps(s) THEN s ELSE applications[a]]
  /\ windows' = [w \in Labels |-> IF w \in labels[s] THEN s ELSE windows[w]]
  /\ entries' = entries \cup {s}
  /\ retried' = TRUE
  /\ Finish(t, s)
  /\ UNCHANGED <<lock, labels, attached, tree, cmd>>

-----------------------------------------------------------------------------
\* A one-shot execution attaches its View while it runs, outside the
\* registry, and so does a tree whose rollback could not detach it.
RunAttaches(r) ==
  /\ r \in Runs \ attached
  /\ attached' = attached \cup {r}
  /\ UNCHANGED <<lock, entries, index, labels, tree, cmd, pc, job, todo, retried>>

RunDetaches(r) ==
  /\ r \in Runs \cap attached
  /\ attached' = attached \ {r}
  /\ UNCHANGED <<lock, entries, index, labels, tree, cmd, pc, job, todo, retried>>

Start(s) ==
  \/ StartExisting(s) \/ StartRefused(s) \/ StartBegin(s) \/ Started(s) \/ StartFails(s)
  \/ Register(s) \/ RegisterRefused(s) \/ Undone(s, TRUE) \/ Undone(s, FALSE)

Stop(t) ==
  \/ \E w \in Labels : CloseWindow(t, w)
  \/ StopAll(t)
  \/ \E s \in Starts : StopTake(t, s) \/ StopNotOpen(t, s)
  \/ StopAllEnds(t) \/ StopSucceeds(t) \/ StopFails(t) \/ StopRestore(t)

Next ==
  \/ \E s \in Starts : Start(s)
  \/ \E t \in Stops : Stop(t)
  \/ \E r \in Runs : RunAttaches(r) \/ RunDetaches(r)

Spec == Init /\ [][Next]_vars

\* Commands are polled while they can move and the mutex is fair; a tree that
\* is asked to stop answers.  Nothing is assumed of the start of a tree.
Fairness ==
  \A t \in Stops :
    /\ SF_vars(\E s \in Starts : Due(t, s) /\ (StopTake(t, s) \/ StopNotOpen(t, s)))
    /\ WF_vars(StopAllEnds(t) \/ StopSucceeds(t) \/ StopFails(t))
    /\ SF_vars(StopRestore(t))

FairSpec == Spec /\ Fairness

-----------------------------------------------------------------------------
(* Properties.                                                             *)

Disjoint(S) ==
  \A s, r \in S : s # r => SessionApps(s) \cap SessionApps(r) = {}

\* The indexes never point at a session that is not registered (start_session
\* has an error message for that case), nor at one that does not have that
\* archive, application or window; and until a failed stop has put an entry
\* back, one application is open in one session only, whatever archives carry
\* it and however deep: the start checks, made before and after the tree is
\* started, leave no gap.
RegistryConsistent ==
  /\ \A a \in Archives : archives[a] # None => archives[a] \in entries /\ ArchiveOf[archives[a]] = a
  /\ \A a \in Applications :
       applications[a] # None => applications[a] \in entries /\ a \in SessionApps(applications[a])
  /\ \A w \in Labels : windows[w] # None => windows[w] \in entries /\ w \in labels[windows[w]]
  /\ ~retried => Disjoint(entries)

\* A tree that is up is always in somebody's hands: it is registered, so the
\* user can stop it, or a command is about to register or to stop it.  The
\* exception is a tree that was refused at registration and then did not
\* stop.
NoLostSession ==
  \A s \in Starts :
    tree[s] \in {"Running", "Stopping", "Failed"} =>
      \/ s \in entries
      \/ cmd[s] \in {"registering", "undoing", "leaked"}
      \/ \E t \in Stops : job[t] = s /\ pc[t] \in {"stopping", "restoring"}

\* If no start holds the registry for ever, every close request, stop and quit
\* comes to its end, stop_all after one attempt per session.
StopsEnd ==
  []<>(lock = None) =>
    \A t \in Stops : pc[t] \in {"window", "all", "stopping", "restoring"} ~> pc[t] = "done"

\* "Multiple simultaneous sessions for the same canonical application are
\* intentionally not supported" (ADR 019).
OneSessionPerApplication == Disjoint(entries)

=============================================================================
