------------------------------ MODULE Storage ------------------------------
(***************************************************************************)
(* The daemon's files: the object store (src/store.rs), conversations      *)
(* (src/history.rs), chat turns (src/chat.rs), the model catalogue         *)
(* (src/models.rs) and the node directory (src/nodes.rs), all of which     *)
(* write through atomic_write (src/util.rs).  Blocking tasks run the       *)
(* operations of the requests given by Ops; every file-system call is a    *)
(* step of its own, so a reader, an unlocked removal, a failing call or a  *)
(* crash of the daemon can come between any two.                           *)
(*                                                                         *)
(* A document is a record; its text is abstracted to the fields the        *)
(* operations read.  Two conversations never share an id here (the code    *)
(* derives it from the title, the millisecond and the process).            *)
(***************************************************************************)
EXTENDS Naturals, Sequences, FiniteSets

CONSTANTS Tasks,        \* blocking tasks of the daemon
          Objects, Conversations,
          Ops,          \* the operations each task performs, one set of lists per scenario
          MaxCrashes, MaxFaults, MaxClock

\* The operations, and what each is about.
OpSet == {o \in [op : {"put", "cache", "rename", "import", "unlink", "remove", "create", "append",
                      "exchange", "archive", "send", "delete", "heartbeat"},
                obj : Objects \cup Conversations \cup {"nodes"}, arg : STRING, turn : STRING] :
            /\ o.op \in {"put", "cache", "rename", "import", "unlink", "remove"} => o.obj \in Objects
            /\ o.op \in {"create", "append", "exchange", "archive", "send", "delete"} => o.obj \in Conversations
            /\ o.op = "heartbeat" => o.obj = "nodes"
            /\ o.op = "import" => o.arg \in {"model", "bad"}}

\* A conversation is created once.
ASSUME StorageAssumption ==
    /\ "free" \notin Tasks /\ "nodes" \notin Conversations
    /\ Ops \subseteq [Tasks -> Seq(OpSet)]
    /\ \A list \in Ops : \A t, u \in Tasks : \A i \in DOMAIN list[t], j \in DOMAIN list[u] :
          /\ list[t][i].op = "create" /\ list[u][j].op = "create" /\ list[t][i].obj = list[u][j].obj
          => t = u /\ i = j

VARIABLES disk,      \* path -> the document there, or Absent
          tmp,       \* path -> the temporary this process wrote, or Absent
          litter,    \* path -> temporaries of earlier processes
          lock,      \* write_lock of the store, of the history, mutex of the nodes
          task,      \* what each blocking task is doing
          todo,      \* operations it has still to perform
          artifacts, \* artifact directory of each model: none, partial, whole
          nodes,     \* NodeDirectory.nodes, in memory
          clock, crashes, faults,
          acked,     \* turns and heartbeats whose request was answered Ok
          credited,  \* cache_addressed_bounded calls that answered true
          unsettled  \* conversations deleted; objects stored or removed as something else
                     \* than a model, or on which two operations overlapped or one failed

storageVars == <<disk, tmp, litter, lock, task, todo, artifacts, nodes, clock,
                 crashes, faults, acked, credited, unsettled>>

Absent == [t |-> "absent"]
Blob(o) == <<"blob", o>>
Meta(o) == <<"meta", o>>
Conv(c) == <<"conv", c>>
NodesFile == <<"nodes", "nodes">>
Paths == ({"blob", "meta"} \X Objects) \cup ({"conv"} \X Conversations) \cup {NodesFile}

Free == "free"
Idle == [pc |-> "idle", path |-> NodesFile, doc |-> Absent, after |-> "idle"]

\* Which mutex an operation takes before it reads; removals and reads take none.
LockOf(op) == CASE op \in {"put", "cache", "rename", "import"} -> "store"
                [] op \in {"create", "append", "exchange", "archive", "send"} -> "history"
                [] op = "heartbeat" -> "nodes"
                [] OTHER -> "none"

Present(p) == disk[p] # Absent
KindOf(o) == IF Present(Meta(o)) THEN disk[Meta(o)].kind ELSE "none"
Op(t) == Head(todo[t])
Is(t, pc) == task[t].pc = pc
Goto(t, pc) == task' = [task EXCEPT ![t].pc = pc]

StorageInit ==
    /\ disk = [p \in Paths |-> Absent]
    /\ tmp = [p \in Paths |-> Absent]
    /\ litter = [p \in Paths |-> {}]
    /\ lock = [l \in {"store", "history", "nodes"} |-> Free]
    /\ task = [t \in Tasks |-> Idle]
    /\ todo \in Ops
    /\ artifacts = [o \in Objects |-> "none"]
    /\ nodes = {}
    /\ clock = 0 /\ crashes = 0 /\ faults = 0
    /\ acked = {} /\ unsettled = {}
    /\ credited = [o \in Objects |-> 0]

----------------------------------------------------------------------------
(* The end of an operation: the guard is dropped, the request answered.     *)

Unlocked(t) == [l \in DOMAIN lock |-> IF lock[l] = t THEN Free ELSE lock[l]]

Finish(t) ==
    /\ task' = [task EXCEPT ![t] = Idle]
    /\ todo' = [todo EXCEPT ![t] = Tail(@)]
    /\ lock' = Unlocked(t)

\* An operation on a model that fails leaves the record and the artifacts apart.
Fail(t) ==
    /\ Finish(t)
    /\ unsettled' = unsettled \cup (IF Op(t).op \in {"import", "remove"} THEN {Op(t).obj} ELSE {})
    /\ UNCHANGED <<disk, litter, artifacts, nodes, clock, crashes, acked, credited>>

Succeed(t) ==
    /\ Finish(t)
    /\ acked' = IF Op(t).op \in {"append", "exchange", "send", "heartbeat"}
                THEN acked \cup {<<Op(t).obj, Op(t).turn>>} ELSE acked

----------------------------------------------------------------------------
(* Requests.                                                                *)

\* The arguments the code refuses before it touches a file: a malformed id, an
\* empty or path-like filename, an empty title or message, an unknown role,
\* bytes that do not hash to the address they are cached under.
Valid(o) == o.arg # "bad"

\* Two operations on one model overlap.
Overlaps(t) == \E u \in Tasks \ {t} : /\ task[u].pc # "idle"
                                      /\ Op(u).obj = Op(t).obj

\* An engine that keeps sessions is asked without a transcript.
FirstStep(o) == CASE o.op \in {"delete", "unlink"} -> "find"
                  [] o.op = "remove" -> "lookup"
                  [] o.op = "send" -> IF o.arg = "session" THEN "engine" ELSE "transcript"
                  [] OTHER -> "lock"

Begin(t) ==
    /\ Is(t, "idle") /\ todo[t] # <<>> /\ Valid(Op(t))
    /\ Goto(t, FirstStep(Op(t)))
    /\ unsettled' = unsettled \cup
          (IF \/ Op(t).op \in {"delete", "put", "unlink"}
              \/ Op(t).op \in {"import", "remove"} /\ Overlaps(t)
           THEN {Op(t).obj} ELSE {})
    /\ UNCHANGED <<disk, tmp, litter, lock, todo, artifacts, nodes, clock, crashes,
                   faults, acked, credited>>

Refuse(t) ==
    /\ Is(t, "idle") /\ todo[t] # <<>> /\ ~Valid(Op(t))
    /\ Finish(t)
    /\ UNCHANGED <<disk, tmp, litter, artifacts, nodes, clock, crashes, faults,
                   acked, credited, unsettled>>

\* ChatService::send for an engine that keeps no sessions reads the transcript
\* and then awaits the completion with no lock held; the answer may fail or be
\* empty, which append_exchange refuses.
Transcript(t) ==
    /\ Is(t, "transcript")
    /\ \/ /\ Present(Conv(Op(t).obj)) /\ Goto(t, "engine")
          /\ UNCHANGED <<disk, tmp, litter, lock, todo, artifacts, nodes, clock, crashes,
                         faults, acked, credited, unsettled>>
       \/ ~Present(Conv(Op(t).obj)) /\ Fail(t) /\ UNCHANGED <<tmp, faults>>

Complete(t) ==
    /\ Is(t, "engine")
    /\ \/ /\ Goto(t, "lock")
          /\ UNCHANGED <<disk, tmp, litter, lock, todo, artifacts, nodes, clock, crashes,
                         faults, acked, credited, unsettled>>
       \/ Fail(t) /\ UNCHANGED <<tmp, faults>>

\* Mutant: the write lock is not taken, so two read-modify-writes interleave.
AcquireNothing(t) ==
    /\ Is(t, "lock")
    /\ Goto(t, "read")
    /\ UNCHANGED <<disk, tmp, litter, lock, todo, artifacts, nodes, clock, crashes,
                   faults, acked, credited, unsettled>>

Acquire(t) ==
    /\ Is(t, "lock") /\ lock[LockOf(Op(t).op)] = Free
    /\ lock' = [lock EXCEPT ![LockOf(Op(t).op)] = t]
    /\ Goto(t, "read")
    /\ UNCHANGED <<disk, tmp, litter, todo, artifacts, nodes, clock, crashes, faults,
                   acked, credited, unsettled>>

----------------------------------------------------------------------------
(* atomic_write: write the temporary, remove the old file, rename.          *)

WriteNext(t, path, doc, after) ==
    task' = [task EXCEPT ![t] = [pc |-> "write", path |-> path, doc |-> doc, after |-> after]]

WriteTmp(t) ==
    /\ Is(t, "write")
    /\ tmp' = [tmp EXCEPT ![task[t].path] = task[t].doc]
    /\ Goto(t, IF Present(task[t].path) THEN "replace" ELSE "rename")
    /\ UNCHANGED <<disk, litter, lock, todo, artifacts, nodes, clock, crashes, faults,
                   acked, credited, unsettled>>

RemoveOld(t) ==
    /\ Is(t, "replace")
    /\ \/ /\ Present(task[t].path)
          /\ disk' = [disk EXCEPT ![task[t].path] = Absent]
          /\ Goto(t, "rename")
          /\ UNCHANGED <<tmp, litter, lock, todo, artifacts, nodes, clock, crashes, faults,
                         acked, credited, unsettled>>
       \/ ~Present(task[t].path) /\ Fail(t) /\ UNCHANGED <<tmp, faults>>

Rename(t) ==
    /\ Is(t, "rename")
    /\ disk' = [disk EXCEPT ![task[t].path] = tmp[task[t].path]]
    /\ tmp' = [tmp EXCEPT ![task[t].path] = Absent]
    /\ Goto(t, task[t].after)
    /\ UNCHANGED <<litter, lock, todo, artifacts, nodes, clock, crashes, faults,
                   acked, credited, unsettled>>

\* A full disk or a refused rename: the call fails, the temporary stays.
WriteFails(t) ==
    /\ task[t].pc \in {"write", "rename"} /\ faults < MaxFaults
    /\ faults' = faults + 1
    /\ Fail(t)
    /\ UNCHANGED tmp

----------------------------------------------------------------------------
(* Under the lock: what each operation reads and what it then writes.       *)

Untouched == UNCHANGED <<disk, tmp, litter, lock, todo, artifacts, clock, crashes,
                         faults, acked, credited, unsettled>>

\* ObjectStore::put, first half: the blob, unless the file is there already.
PutBlob(t) ==
    /\ Is(t, "read") /\ Op(t).op \in {"put", "import"}
    /\ IF Present(Blob(Op(t).obj)) THEN Goto(t, "meta")
       ELSE WriteNext(t, Blob(Op(t).obj), [t |-> "blob"], "meta")
    /\ Untouched /\ UNCHANGED nodes

\* Second half: the metadata, which keeps an existing record's creation time.
PutMeta(t) ==
    /\ Is(t, "meta")
    /\ LET o == Op(t).obj
           old == disk[Meta(o)]
       IN WriteNext(t, Meta(o),
             [t |-> "meta", kind |-> Op(t).arg, name |-> Op(t).turn,
              created |-> IF old = Absent THEN clock ELSE old.created],
             IF Op(t).op = "import" THEN "clear" ELSE "done")
    /\ Untouched /\ UNCHANGED nodes

\* Mutant: the existence check is dropped, so a repeated call is credited again.
CacheAgain(t) ==
    /\ Is(t, "read") /\ Op(t).op = "cache" /\ Op(t).arg = "fits"
    /\ WriteNext(t, Blob(Op(t).obj), [t |-> "blob"], "credit")
    /\ Untouched /\ UNCHANGED nodes

\* cache_addressed_bounded: present already (Ok(false)), over the ceiling (Err),
\* or written by this call (Ok(true)).
Cache(t) ==
    /\ Is(t, "read") /\ Op(t).op = "cache"
    /\ \/ /\ ~Present(Blob(Op(t).obj)) /\ Op(t).arg = "fits"
          /\ WriteNext(t, Blob(Op(t).obj), [t |-> "blob"], "credit")
          /\ Untouched /\ UNCHANGED nodes
       \/ /\ Present(Blob(Op(t).obj)) \/ Op(t).arg # "fits"
          /\ Fail(t) /\ UNCHANGED <<tmp, faults>>

Credit(t) ==
    /\ Is(t, "credit")
    /\ credited' = [credited EXCEPT ![Op(t).obj] = @ + 1]
    /\ Finish(t)
    /\ UNCHANGED <<disk, tmp, litter, artifacts, nodes, clock, crashes, faults, acked, unsettled>>

\* rename_file: only a record of kind "file".
RenameFile(t) ==
    /\ Is(t, "read") /\ Op(t).op = "rename"
    /\ \/ /\ KindOf(Op(t).obj) = "file"
          /\ WriteNext(t, Meta(Op(t).obj), [disk[Meta(Op(t).obj)] EXCEPT !.name = Op(t).turn], "done")
          /\ Untouched /\ UNCHANGED nodes
       \/ KindOf(Op(t).obj) # "file" /\ Fail(t) /\ UNCHANGED <<tmp, faults>>

Create(t) ==
    /\ Is(t, "read") /\ Op(t).op = "create"
    /\ WriteNext(t, Conv(Op(t).obj), [t |-> "conv", msgs |-> <<>>, archived |-> FALSE], "done")
    /\ Untouched /\ UNCHANGED nodes

\* What append, append_exchange (a user turn and its answer at once) and
\* set_archived make of the conversation they read.
Edited(o, old) ==
    CASE o.op = "append" -> [old EXCEPT !.msgs = Append(@, <<"user", o.turn>>)]
      [] o.op = "archive" -> [old EXCEPT !.archived = ~@]
      [] OTHER -> [old EXCEPT !.msgs = @ \o << <<"user", o.turn>>, <<"assistant", o.turn>> >>]

Edit(t) ==
    /\ Is(t, "read") /\ Op(t).op \in {"append", "exchange", "archive", "send"}
    /\ LET old == disk[Conv(Op(t).obj)] IN
       \/ /\ old # Absent
          /\ WriteNext(t, Conv(Op(t).obj), Edited(Op(t), old), "done")
          /\ Untouched /\ UNCHANGED nodes
       \/ old = Absent /\ Fail(t) /\ UNCHANGED <<tmp, faults>>

\* NodeDirectory::heartbeat: the map in memory first, then the whole of it.
Heartbeat(t) ==
    /\ Is(t, "read") /\ Op(t).op = "heartbeat"
    /\ nodes' = nodes \cup {Op(t).turn}
    /\ WriteNext(t, NodesFile, [t |-> "nodes", nodes |-> nodes'], "done")
    /\ Untouched

Done(t) ==
    /\ Is(t, "done")
    /\ Succeed(t)
    /\ UNCHANGED <<disk, tmp, litter, artifacts, nodes, clock, crashes, faults, credited, unsettled>>

----------------------------------------------------------------------------
(* Removals, which take no lock, and the artifact directories of models.    *)

PathOf(o) == IF o.op = "delete" THEN Conv(o.obj) ELSE Meta(o.obj)

\* HistoryService::delete and ObjectStore::remove_metadata: exists, then remove.
Find(t) ==
    /\ Is(t, "find")
    /\ \/ Present(PathOf(Op(t))) /\ Goto(t, "erase")
       \/ ~Present(PathOf(Op(t))) /\ Goto(t, IF Op(t).op = "remove" THEN "purge" ELSE "done")
    /\ Untouched /\ UNCHANGED nodes

Erase(t) ==
    /\ Is(t, "erase")
    /\ \/ /\ Present(PathOf(Op(t)))
          /\ disk' = [disk EXCEPT ![PathOf(Op(t))] = Absent]
          /\ Goto(t, IF Op(t).op = "remove" THEN "purge" ELSE "done")
          /\ UNCHANGED <<tmp, litter, lock, todo, artifacts, nodes, clock, crashes,
                         faults, acked, credited, unsettled>>
       \/ ~Present(PathOf(Op(t))) /\ Fail(t) /\ UNCHANGED <<tmp, faults>>

\* ModelCatalog::remove begins with get: a record of kind "model" and its blob.
Lookup(t) ==
    /\ Is(t, "lookup")
    /\ \/ /\ KindOf(Op(t).obj) = "model" /\ Present(Blob(Op(t).obj))
          /\ Goto(t, "find")
          /\ Untouched /\ UNCHANGED nodes
       \/ /\ ~(KindOf(Op(t).obj) = "model" /\ Present(Blob(Op(t).obj)))
          /\ Finish(t)
          /\ UNCHANGED <<disk, tmp, litter, artifacts, nodes, clock, crashes, faults,
                         acked, credited, unsettled>>

Purge(t) ==
    /\ Is(t, "purge")
    /\ artifacts' = [artifacts EXCEPT ![Op(t).obj] = "none"]
    /\ Goto(t, "done")
    /\ UNCHANGED <<disk, tmp, litter, lock, todo, nodes, clock, crashes, faults,
                   acked, credited, unsettled>>

\* import, once the record is stored and the store's lock released: the old
\* directory is removed, the new one created, the files copied.
Clear(t) ==
    /\ Is(t, "clear")
    /\ artifacts' = [artifacts EXCEPT ![Op(t).obj] = "none"]
    /\ lock' = Unlocked(t)
    /\ Goto(t, "mkdir")
    /\ UNCHANGED <<disk, tmp, litter, todo, nodes, clock, crashes, faults, acked,
                   credited, unsettled>>

MakeDirectory(t) ==
    /\ Is(t, "mkdir")
    /\ artifacts' = [artifacts EXCEPT ![Op(t).obj] = "partial"]
    /\ Goto(t, "copy")
    /\ UNCHANGED <<disk, tmp, litter, lock, todo, nodes, clock, crashes, faults, acked,
                   credited, unsettled>>

\* A directory removed while it is being filled makes the copy fail.
CopyDirectory(t) ==
    /\ Is(t, "copy")
    /\ \/ /\ artifacts[Op(t).obj] # "none"
          /\ artifacts' = [artifacts EXCEPT ![Op(t).obj] = "whole"]
          /\ Goto(t, "done")
          /\ UNCHANGED <<disk, tmp, litter, lock, todo, nodes, clock, crashes, faults,
                         acked, credited, unsettled>>
       \/ artifacts[Op(t).obj] = "none" /\ Fail(t) /\ UNCHANGED <<tmp, faults>>

----------------------------------------------------------------------------
(* Time and crashes.                                                        *)

Tick == /\ clock < MaxClock /\ \E t \in Tasks : todo[t] # <<>> /\ Op(t).op = "put"
        /\ clock' = clock + 1
        /\ UNCHANGED <<disk, tmp, litter, lock, task, todo, artifacts, nodes, crashes,
                       faults, acked, credited, unsettled>>

\* The daemon dies and is started again under another process id: no lock and no
\* task survives, temporaries are never read again, nodes are read from their file.
Busy(t) == task[t].pc # "idle"

CrashAndRestart ==
    /\ crashes < MaxCrashes /\ \E t \in Tasks : Busy(t)
    /\ crashes' = crashes + 1
    /\ litter' = [p \in Paths |-> litter[p] \cup ({tmp[p]} \ {Absent})]
    /\ tmp' = [p \in Paths |-> Absent]
    /\ lock' = [l \in DOMAIN lock |-> Free]
    /\ todo' = [t \in Tasks |-> IF Busy(t) THEN Tail(todo[t]) ELSE todo[t]]
    /\ task' = [t \in Tasks |-> Idle]
    /\ nodes' = IF Present(NodesFile) THEN disk[NodesFile].nodes ELSE {}
    /\ unsettled' = unsettled \cup
          {o \in Objects : \E t \in Tasks : Busy(t) /\ Op(t).op \in {"import", "remove"}
                                                    /\ Op(t).obj = o}
    /\ UNCHANGED <<disk, artifacts, clock, faults, acked, credited>>

Step(t) ==
    \/ Begin(t) \/ Refuse(t) \/ Transcript(t) \/ Complete(t) \/ Acquire(t)
    \/ WriteTmp(t) \/ RemoveOld(t) \/ Rename(t) \/ WriteFails(t)
    \/ PutBlob(t) \/ PutMeta(t) \/ Cache(t) \/ Credit(t) \/ RenameFile(t)
    \/ Create(t) \/ Edit(t) \/ Heartbeat(t) \/ Done(t)
    \/ Find(t) \/ Erase(t) \/ Lookup(t) \/ Purge(t)
    \/ Clear(t) \/ MakeDirectory(t) \/ CopyDirectory(t)

StorageNext == (\E t \in Tasks : Step(t)) \/ Tick \/ CrashAndRestart

----------------------------------------------------------------------------
(* Properties.                                                              *)

Anywhere(p) == ({disk[p], tmp[p]} \cup litter[p]) \ {Absent}

Turns(doc) == {doc.msgs[i][2] : i \in DOMAIN doc.msgs}

\* What was answered Ok is on the disk, under its name or in a temporary beside
\* it: the acknowledged turns of a conversation nobody deleted are all in one
\* document, and every acknowledged heartbeat is in some, through concurrent
\* read-modify-writes, a failing write and a crash between any two calls of
\* atomic_write.
AckedWritesSurvive ==
    /\ \A c \in Conversations \ unsettled :
          LET turns == {a[2] : a \in {b \in acked : b[1] = c}}
          IN turns # {} => \E doc \in Anywhere(Conv(c)) : turns \subseteq Turns(doc)
    /\ \A a \in acked : a[1] = "nodes" =>
          \E doc \in Anywhere(NodesFile) : a[2] \in doc.nodes

\* A record in the catalogue, and one on its way there, names a blob that is on
\* the disk and keeps the creation time of the record it replaces, whatever
\* removals, renames, failures and crashes came between;
\* cache_addressed_bounded credits a blob to one call at most; and a model with
\* no operation under way is in the catalogue exactly when its artifact
\* directory is whole, unless operations on it overlapped or one failed.
RecordsAreSound ==
    /\ \A o \in Objects :
          /\ Anywhere(Meta(o)) # {} => Present(Blob(o))
          /\ \A d, e \in {disk[Meta(o)], tmp[Meta(o)]} \ {Absent} : d.created = e.created
          /\ credited[o] <= 1
          /\ credited[o] = 1 => Present(Blob(o))
    /\ \A o \in Objects \ unsettled :
          (\A t \in Tasks : Busy(t) => Op(t).obj # o) =>
             (KindOf(o) = "model" <=> artifacts[o] = "whole")
=============================================================================
