-------------------------- MODULE ApplicationWatch --------------------------
(***************************************************************************)
(* Watched content projects of the desktop                                  *)
(* (crates/hologram-application-watch, holo_watch.rs): a registry of       *)
(* projects, one directory watcher and one worker thread per registration, *)
(* debounced builds that compile, import and retire the previous archive,  *)
(* and a file that restores the registrations after a restart.             *)
(*                                                                         *)
(* An archive is named by its project and the version of the content it was *)
(* compiled from.  A worker's channel is the flag `queued': the debounce   *)
(* loop swallows every message that is in the channel when it starts or    *)
(* that comes while it runs.  The host calls add and remove from one       *)
(* thread, after restore (Tauri runs its synchronous commands on the main  *)
(* thread).                                                                *)
(***************************************************************************)
EXTENDS Naturals, FiniteSets

CONSTANTS Projects, Contents,  \* content directories, and 1 .. n: the contents an edit may leave
          Workers,             \* names of worker threads
          MaxEdits, MaxRequests, \* bounds on edits, and on add, remove and schedule_all calls
          MaxExits, MaxSaveFaults \* bounds on restarts and on failing writes of the file

ASSUME WatchAssumption == {"none", "main"} \cap Workers = {}

VARIABLES content,    \* content[p]: the version in the project's directory
          watches,   \* watches[p]: the handle, its record and the worker it triggers
          threads,   \* threads[w]: a registration's channel and worker thread
          commander, \* the main thread: what it registers or removes
          restoring, \* records of the file that restore has still to register
          saver,     \* who holds the persistence lock, and the list it took
          saved,     \* the file: records by project
          output,    \* output[p]: the archive file that builds of p write
          catalogued, \* archives in the service's catalog
          crossed,   \* projects that were removed while one of their builds ran
          edits, requests, exits, saveFaults

watchVars == <<content, watches, threads, commander, restoring, saver, saved, output, catalogued,
               crossed, edits, requests, exits, saveFaults>>

NoWatch == [status |-> "none", kappa |-> 0, worker |-> "none"]
NoRecord == [status |-> "none", kappa |-> 0]
Record(h) == [status |-> h.status, kappa |-> h.kappa]
Unused == [project |-> "none", pc |-> "unused", queued |-> FALSE, previous |-> 0, built |-> 0]
Resting == [pc |-> "idle", project |-> "none", worker |-> "none", previous |-> NoRecord]
NoSaver == [owner |-> "none", list |-> <<>>]

List == [p \in Projects |-> Record(watches[p])]
Watched(w) == \E p \in Projects : watches[p].worker = w
Building(w) == threads[w].pc \in {"input", "compiling", "importing", "retiring", "ready", "failing", "saving"}

WatchInit ==
    /\ content = [p \in Projects |-> 1]
    /\ watches = [p \in Projects |-> NoWatch]
    /\ threads = [w \in Workers |-> Unused]
    /\ commander = Resting /\ restoring = {} /\ saver = NoSaver
    /\ saved = [p \in Projects |-> NoRecord]
    /\ output = [p \in Projects |-> 0]
    /\ catalogued = {} /\ crossed = {}
    /\ edits = 0 /\ requests = 0 /\ exits = 0 /\ saveFaults = 0

---------------------------------------------------------------------------
(* Persistence: the list is taken and the file replaced under one lock.    *)

Saves(owner, a) ==
    /\ saver = NoSaver
    /\ saver' = [owner |-> owner, list |-> List]
    /\ a

\* The file is replaced by a rename, so it is the old or the new one.
Saved(owner) ==
    /\ saver.owner = owner
    /\ saver' = NoSaver
    /\ saved' = saver.list
    /\ UNCHANGED saveFaults

SaveFails(owner) ==
    /\ saver.owner = owner
    /\ saveFaults < MaxSaveFaults
    /\ saveFaults' = saveFaults + 1
    /\ saver' = NoSaver
    /\ UNCHANGED saved

---------------------------------------------------------------------------
(* register: look up, watch the directory, insert, persist, start a worker. *)

Register(p, previous) ==
    LET w == CHOOSE v \in Workers : threads[v] = Unused
    IN  /\ \E v \in Workers : threads[v] = Unused
        /\ commander' = [pc |-> "insert", project |-> p, worker |-> w, previous |-> previous]
        /\ threads' = [threads EXCEPT ![w] = [Unused EXCEPT !.project = p, !.pc = "watching"]]

\* An existing registration is returned as it is.
Add(p) ==
    /\ commander = Resting /\ restoring = {}
    /\ requests < MaxRequests /\ requests' = requests + 1
    /\ watches[p] = NoWatch
    /\ Register(p, NoRecord)
    /\ UNCHANGED <<content, watches, restoring, saver, saved, output, catalogued, crossed, edits, exits, saveFaults>>

Restore(p) ==
    /\ commander = Resting /\ p \in restoring
    /\ restoring' = restoring \ {p}
    /\ Register(p, saved[p])
    /\ UNCHANGED <<content, watches, saver, saved, output, catalogued, crossed, edits, requests, exits, saveFaults>>

Insert ==
    /\ commander.pc = "insert"
    /\ watches' = [watches EXCEPT ![commander.project] =
                     [status |-> "watching", kappa |-> commander.previous.kappa, worker |-> commander.worker]]
    /\ commander' = [commander EXCEPT !.pc = "save"]
    /\ UNCHANGED <<content, threads, restoring, saver, saved, output, catalogued, crossed, edits, requests, exits, saveFaults>>

CommanderSaves ==
    /\ commander.pc \in {"save", "forget"}
    /\ Saves("main", UNCHANGED <<content, watches, threads, commander, restoring, saved, output, catalogued,
                                 crossed, edits, requests, exits, saveFaults>>)

\* The worker starts and is told to build at once.
Spawn ==
    /\ commander.pc = "save" /\ Saved("main")
    /\ threads' = [threads EXCEPT ![commander.worker].pc = "waiting", ![commander.worker].queued = TRUE]
    /\ commander' = Resting
    /\ UNCHANGED <<content, watches, restoring, output, catalogued, crossed, edits, requests, exits>>

\* A registration that cannot be saved is taken back.
RegisterFails ==
    /\ commander.pc = "save" /\ SaveFails("main")
    /\ watches' = [watches EXCEPT ![commander.project] = NoWatch]
    /\ threads' = [threads EXCEPT ![commander.worker] = Unused]
    /\ commander' = Resting
    /\ UNCHANGED <<content, restoring, output, catalogued, crossed, edits, requests, exits>>

\* remove drops the handle, and with it the watcher and the channel's senders.
Remove(p) ==
    /\ commander = Resting /\ restoring = {}
    /\ requests < MaxRequests /\ requests' = requests + 1
    /\ watches[p] # NoWatch
    /\ watches' = [watches EXCEPT ![p] = NoWatch]
    /\ crossed' = crossed \cup {q \in {p} : \E w \in Workers : threads[w].project = p /\ Building(w)}
    /\ commander' = [Resting EXCEPT !.pc = "forget"]
    /\ UNCHANGED <<content, threads, restoring, saver, saved, output, catalogued, edits, exits, saveFaults>>

\* The removal stands also when it could not be saved.
RemoveEnds ==
    /\ commander.pc = "forget"
    /\ Saved("main") \/ SaveFails("main")
    /\ commander' = Resting
    /\ UNCHANGED <<content, watches, threads, restoring, output, catalogued, crossed, edits, requests, exits>>

Triggered(W) == [w \in Workers |-> IF w \in W THEN [threads[w] EXCEPT !.queued = TRUE] ELSE threads[w]]

ScheduleAll ==
    /\ requests < MaxRequests /\ requests' = requests + 1
    /\ threads' = Triggered({w \in Workers : Watched(w)})
    /\ UNCHANGED <<content, watches, commander, restoring, saver, saved, output, catalogued, crossed, edits, exits, saveFaults>>

\* A watcher exists from the start of its registration, before its handle does.
EditProject(p) ==
    /\ edits < MaxEdits /\ edits' = edits + 1
    /\ \E v \in Contents \ {content[p]} : content' = [content EXCEPT ![p] = v]
    /\ threads' = Triggered({w \in Workers : threads[w].project = p
                                           /\ (Watched(w) \/ threads[w].pc = "watching")})
    /\ UNCHANGED <<watches, commander, restoring, saver, saved, output, catalogued, crossed, requests, exits, saveFaults>>

---------------------------------------------------------------------------
(* watch_worker and build_and_import.                                       *)

Work(w, t) == threads' = [threads EXCEPT ![w] = t]
Worker(w, pc) == threads[w].pc = pc

\* The first message, and the ones the debounce loop finds, are taken together.
Receive(w) ==
    /\ threads[w].pc \in {"waiting", "debouncing"} /\ threads[w].queued
    /\ Work(w, [threads[w] EXCEPT !.queued = FALSE, !.pc = "debouncing"])
    /\ UNCHANGED <<watches, saver, saved, output, catalogued, saveFaults>>

\* Without a sender both receives fail once the channel is empty.
Disconnected(w) ==
    /\ threads[w].pc \in {"waiting", "debouncing"} /\ ~threads[w].queued /\ ~Watched(w)
    /\ Work(w, Unused)
    /\ UNCHANGED <<watches, saver, saved, output, catalogued, saveFaults>>

Debounced(w) ==
    /\ Worker(w, "debouncing") /\ ~threads[w].queued /\ Watched(w)
    /\ Work(w, [threads[w] EXCEPT !.pc = "input"])
    /\ UNCHANGED <<watches, saver, saved, output, catalogued, saveFaults>>

\* The record is looked up by the project, whichever registration it is of.
ProjectBuildInput(w) ==
    LET p == threads[w].project
    IN  /\ Worker(w, "input")
        /\ IF watches[p] = NoWatch
           THEN Work(w, [threads[w] EXCEPT !.pc = "waiting"]) /\ UNCHANGED watches
           ELSE /\ Work(w, [threads[w] EXCEPT !.pc = "compiling", !.previous = watches[p].kappa])
                /\ watches' = [watches EXCEPT ![p].status = "compiling"]
        /\ UNCHANGED <<saver, saved, output, catalogued, saveFaults>>

Compile(w) ==
    /\ Worker(w, "compiling")
    /\ output' = [output EXCEPT ![threads[w].project] = content[threads[w].project]]
    /\ Work(w, [threads[w] EXCEPT !.pc = "importing"])
    /\ UNCHANGED <<watches, saver, saved, catalogued, saveFaults>>

ImportOutput(w) ==
    LET p == threads[w].project
    IN  /\ Worker(w, "importing")
        /\ catalogued' = catalogued \cup {<<p, output[p]>>}
        /\ Work(w, [threads[w] EXCEPT !.pc = "retiring", !.built = output[p]])
        /\ UNCHANGED <<watches, saver, saved, output, saveFaults>>

BuildFails(w) ==
    /\ threads[w].pc \in {"compiling", "importing"}
    /\ Work(w, [threads[w] EXCEPT !.pc = "failing"])
    /\ UNCHANGED <<watches, saver, saved, output, catalogued, saveFaults>>

\* Mutant: the previous archive is removed also when the build gave the same.
ReplacedAlways(w) == {<<threads[w].project, threads[w].previous>>}

\* The archive that the build replaces, if it is another one.
Replaced(w) == {<<threads[w].project, v>> : v \in {threads[w].previous} \ {threads[w].built}}

\* The removal of the replaced archive may fail: its result is not looked at.
RetirePrevious(w) ==
    /\ Worker(w, "retiring")
    /\ catalogued' \in {catalogued, catalogued \ Replaced(w)}
    /\ Work(w, [threads[w] EXCEPT !.pc = "ready"])
    /\ UNCHANGED <<watches, saver, saved, output, saveFaults>>

\* update_record changes the record that the project has now, if it has one.
UpdateRecord(p, h) == watches' = IF watches[p] = NoWatch THEN watches ELSE [watches EXCEPT ![p] = h]

MarkReady(w) ==
    LET p == threads[w].project
    IN  /\ Worker(w, "ready")
        /\ UpdateRecord(p, [watches[p] EXCEPT !.status = "ready", !.kappa = threads[w].built])
        /\ Work(w, [threads[w] EXCEPT !.pc = "saving"])
        /\ UNCHANGED <<saver, saved, output, catalogued, saveFaults>>

MarkFailed(w) ==
    LET p == threads[w].project
    IN  /\ Worker(w, "failing")
        /\ UpdateRecord(p, [watches[p] EXCEPT !.status = "failed"])
        /\ Work(w, [threads[w] EXCEPT !.pc = "saving"])
        /\ UNCHANGED <<saver, saved, output, catalogued, saveFaults>>

WorkerSaves(w) ==
    /\ Worker(w, "saving")
    /\ Saves(w, UNCHANGED <<watches, threads, saved, output, catalogued, saveFaults>>)

\* The worker goes back to its channel whether the file was written or not.
WorkerSaved(w) ==
    /\ Worker(w, "saving")
    /\ Saved(w) \/ SaveFails(w)
    /\ Work(w, [threads[w] EXCEPT !.pc = "waiting", !.previous = 0, !.built = 0])
    /\ UNCHANGED <<watches, output, catalogued>>

WorkerStep(w) ==
    /\ \/ Receive(w) \/ Disconnected(w) \/ Debounced(w) \/ ProjectBuildInput(w) \/ Compile(w)
       \/ ImportOutput(w) \/ BuildFails(w) \/ RetirePrevious(w) \/ MarkReady(w) \/ MarkFailed(w)
       \/ WorkerSaves(w) \/ WorkerSaved(w)
    /\ UNCHANGED <<content, commander, restoring, crossed, edits, requests, exits>>

---------------------------------------------------------------------------
\* The desktop ends at any moment and is started again; its threads end with
\* it, and an error of reading the file leaves nothing to restore.
Relaunch ==
    /\ exits < MaxExits /\ exits' = exits + 1
    /\ watches' = [p \in Projects |-> NoWatch]
    /\ threads' = [w \in Workers |-> Unused]
    /\ commander' = Resting /\ saver' = NoSaver
    /\ restoring' = {p \in Projects : saved[p] # NoRecord}
    /\ UNCHANGED <<content, saved, output, catalogued, crossed, edits, requests, saveFaults>>

WatchNext ==
    \/ \E p \in Projects : Add(p) \/ Restore(p) \/ Remove(p) \/ EditProject(p)
    \/ Insert \/ CommanderSaves \/ Spawn \/ RegisterFails \/ RemoveEnds \/ ScheduleAll
    \/ \E w \in Workers : WorkerStep(w)
    \/ Relaunch

---------------------------------------------------------------------------
(* SettledIsCurrent: when a project's worker waits with nothing queued, its *)
(* record says that the last build failed, or names the archive of the      *)
(* content as it is now, which the catalog has; and the file that restores   *)
(* it says the same if no write of it failed.  The exception is a project   *)
(* that was removed and added again while one of its builds ran: the old    *)
(* worker still writes into the new record (update_record by id).           *)
SettledIsCurrent ==
    \A p \in Projects \ crossed :
        LET h == watches[p] IN
        h # NoWatch /\ threads[h.worker].pc = "waiting" /\ ~threads[h.worker].queued =>
            /\ h.status = "failed" \/ (h.status = "ready" /\ h.kappa = content[p] /\ <<p, h.kappa>> \in catalogued)
            /\ saveFaults = 0 => saved[p] = Record(h)
=============================================================================
