--------------------------- MODULE Service_proofs ---------------------------
(***************************************************************************)
(* Proofs about Service: what a command reports about its mutation, what a *)
(* restart leaves listening and what a plugin process runs, for any number *)
(* of processes, clients, crashes and configuration files.                 *)
(*                                                                         *)
(* The inductive invariant has four parts. DaemonInv places each listener  *)
(* with a serving process; PluginInv follows the digest from its check to  *)
(* the process; ClientInv counts the executions of a mutation in every     *)
(* place a request can be in; RestartInv remembers that the daemon a       *)
(* restart found has given up its address.                                 *)
(***************************************************************************)
EXTENDS Service, TLAPS

FileType ==
    [schema : Nat, listen : Addresses, auth : BOOLEAN, token : BOOLEAN, grant : BOOLEAN,
     limits : BOOLEAN, plugins : SUBSET STRING, pinned : BOOLEAN, extra : SUBSET Nat,
     enabled : SUBSET STRING]
ProcType ==
    [ph : Phases, listen : Addresses, inode : MaybeProcess, waits : BOOLEAN, stop : BOOLEAN]
PlugType ==
    [st : {"down", "verified", "spawned", "up"}, bin : {None, "pinned", "other"},
     swapped : BOOLEAN, restarts : Nat, job : Clients \cup {None, "start"}]
Ops == (UNION {Commands[c] : c \in Clients}) \cup {None}
Pcs == {"idle", "hand", "send", "flight", "isready", "await", "stopwait", "done"}
CliType ==
    [op : Ops, pc : Pcs, prev : MaybeProcess, first : MaybeProcess, child : MaybeProcess,
     ep : {1, 2}, missed : BOOLEAN, again : BOOLEAN, known : SUBSET {"local", "remote"},
     at : Server \cup {None}, reply : Replies \cup {None}, runs : Nat,
     out : Outcomes \cup {None}]

(***************************************************************************)
(* The inductive invariant                                                 *)
(***************************************************************************)
DaemonTypeOK ==
    /\ file \in FileType
    /\ proc \in [Processes -> ProcType]
    /\ lockname \in MaybeProcess
    /\ held \in [Processes -> MaybeProcess]
    /\ pidfile \in MaybeProcess
    /\ listener \in [Addresses -> MaybeProcess]
    /\ budget \in Nat

\* An address is bound to a process that serves it.
ListenersServe ==
    \A a \in Addresses, p \in Processes :
        listener[a] = p => proc[p].ph = "serve" /\ proc[p].listen = a

DaemonInv == DaemonTypeOK /\ ListenersServe

PlugTypeOK == plug \in [Processes -> PlugType] /\ bin \in {"pinned", "other"}

\* Between the digest and the spawn the file is the pinned one, or its
\* replacement has been noted.
VerifiedIsPinned ==
    \A p \in Processes : plug[p].st = "verified" /\ bin # "pinned" => plug[p].swapped

PluginInv == PlugTypeOK /\ VerifiedIsPinned /\ PluginIsPinned

ClientTypeOK == cli \in [Clients -> CliType] /\ late \subseteq Clients \X Processes

\* The executions of one mutation, in each place its command can be in.
MutationCounts(k) ==
    /\ k.pc \in {"hand", "send", "isready", "await"} => k.reply = None /\ k.runs = 0
    /\ k.pc = "flight" => k.runs = (IF k.reply = "ok" THEN 1 ELSE 0)
    /\ k.pc = "done" =>
          /\ k.out # None
          /\ k.runs <= 1
          /\ k.out = "ok" => k.runs = 1
          /\ k.out \in {"transport", "capability", "denied", "error"} => k.runs = 0
    /\ k.pc # "done" => k.out = None
    /\ k.pc # "stopwait"

ClientOK(k) ==
    /\ k.pc = "idle" => k.op = None
    /\ k.op = "put" => MutationCounts(k)

\* A request without a client is at one server, and was not executed yet.
LateOK ==
    \A c \in Clients, p \in Processes : <<c, p>> \in late =>
        /\ cli[c].pc # "idle"
        /\ cli[c].op = "put" =>
             /\ cli[c].pc = "done" /\ cli[c].out = "unknown" /\ cli[c].runs = 0
             /\ \A q \in Processes : <<c, q>> \in late => q = p

\* The supervisor's mailbox holds plugin calls only.
JobsArePluginCalls ==
    \A p \in Processes : plug[p].job \in Clients => cli[plug[p].job].op = "plugin"

ClientInv ==
    /\ ClientTypeOK
    /\ \A c \in Clients : ClientOK(cli[c])
    /\ LateOK
    /\ JobsArePluginCalls

\* A process that has listened goes on to its end and never listens again.
Started == {"serve", "drain", "retire", "unpid", "unlinked", "gone"}

\* A process on the default address is one the configuration put there.
DefaultIsConfigured ==
    \A p \in Processes : proc[p].ph \notin {"none", "gone"} /\ proc[p].listen = "loopback"
                            => file.listen = "loopback"

\* Once a restart has waited for the stop, the daemon it found when it began
\* is off the default address.
RestartOK(k) ==
    k.op = "restart" /\ k.first # None =>
        /\ proc[k.first].ph \in Started
        /\ file.listen = "loopback"
        /\ k.pc \in {"isready", "await"} \/ k.out = "ok" => listener["loopback"] # k.first

\* The user starts no daemon on the default address, or that is the address
\* the configuration names.
UsersListenElsewhere == "loopback" \in Serves => file.listen = "loopback"

RestartInv ==
    /\ UsersListenElsewhere
    /\ DefaultIsConfigured
    /\ \A c \in Clients : RestartOK(cli[c])

ServiceInv == DaemonInv /\ PluginInv /\ ClientInv

(***************************************************************************)
(* Daemons: files, listeners and phases                                    *)
(***************************************************************************)
\* What any step does to the daemons: the configured address stays, a process
\* that has listened does not start over, only a binding process gets an
\* address, and a new process is where the configuration or the user put it.
DaemonMoves ==
    /\ file'.listen = file.listen
    /\ \A p \in Processes : proc[p].ph \in Started => proc'[p].ph \in Started
    /\ \A p \in Processes :
          listener'["loopback"] = p => listener["loopback"] = p \/ proc[p].ph = "bind"
    /\ \A p \in Processes :
          proc'[p].ph \notin {"none", "gone"} /\ proc'[p].listen = "loopback" =>
             \/ proc[p].ph \notin {"none", "gone"} /\ proc[p].listen = "loopback"
             \/ file.listen = "loopback"
             \/ "loopback" \in Serves

DaemonStays == UNCHANGED <<file, daemonVars, budget>>

\* Reading a file restamps it and keeps its address.
LEMMA FileLoads ==
    ASSUME NEW c \in FileType
    PROVE  LoadFile(c) \in FileType /\ LoadFile(c).listen = c.listen
BY DEF LoadFile, Upgraded, FileType, CurrentSchema

\* A step that leaves the daemons alone.
LEMMA DaemonIdle ==
    ASSUME DaemonInv, DaemonStays
    PROVE  DaemonInv' /\ DaemonMoves
BY DEF DaemonInv, DaemonTypeOK, ListenersServe, DaemonStays, daemonVars, DaemonMoves

\* A process goes from one phase to the next and nothing else about it changes.
LEMMA DaemonGoes ==
    ASSUME DaemonInv, NEW p \in Processes, NEW ph \in Phases \ {"none", "serve"}, Goto(p, ph),
           proc[p].ph \notin {"none", "gone", "serve"},
           proc[p].ph \in Started => ph \in Started,
           file' \in FileType, file'.listen = file.listen,
           lockname' \in MaybeProcess, held' \in [Processes -> MaybeProcess],
           pidfile' \in MaybeProcess, listener' = listener, budget' = budget
    PROVE  DaemonInv' /\ DaemonMoves
<1>1. proc' \in [Processes -> ProcType]
  BY DEF DaemonInv, DaemonTypeOK, Goto, ProcType
<1>2. DaemonTypeOK'
  BY <1>1 DEF DaemonInv, DaemonTypeOK
<1>3. ListenersServe'
  BY DEF DaemonInv, DaemonTypeOK, Goto, ProcType, ListenersServe
<1>4. DaemonMoves
  BY DEF DaemonInv, DaemonTypeOK, Goto, ProcType, DaemonMoves
<1> QED
  BY <1>2, <1>3, <1>4 DEF DaemonInv

\* A process is born with its address.
LEMMA DaemonBorn ==
    ASSUME DaemonInv, SomeUnborn, NEW a \in Addresses,
           proc' = [proc EXCEPT ![Fresh] = [Unborn EXCEPT !.ph = "load", !.listen = a]],
           a = file.listen \/ a \in Serves,
           budget' \in Nat,
           UNCHANGED <<file, lockname, held, pidfile, listener>>
    PROVE  DaemonInv' /\ DaemonMoves
<1>1. PICK f \in Processes : f = Fresh /\ proc[f].ph = "none"
  BY DEF SomeUnborn, Fresh
<1> DEFINE r == [Unborn EXCEPT !.ph = "load", !.listen = a]
<1>b. r \in ProcType
  BY DEF ProcType, Phases, MaybeProcess, Unborn, Addresses
<1>2. proc' = [proc EXCEPT ![f] = r]
  BY <1>1
<1>c. r.ph = "load" /\ r.listen = a
  BY DEF Unborn
<1> HIDE DEF r
<1>3. proc' \in [Processes -> ProcType]
  BY <1>2, <1>b DEF DaemonInv, DaemonTypeOK
<1>4. DaemonTypeOK'
  BY <1>3 DEF DaemonInv, DaemonTypeOK
<1>5. ListenersServe'
  BY <1>1, <1>2 DEF DaemonInv, DaemonTypeOK, ListenersServe
<1>6. DaemonMoves
  BY <1>1, <1>2, <1>c DEF DaemonInv, DaemonTypeOK, DaemonMoves, Started
<1> QED
  BY <1>4, <1>5, <1>6 DEF DaemonInv

\* A process ends, by itself or not.
LEMMA DaemonEnds ==
    ASSUME DaemonInv, NEW p \in Processes, Ends(p), budget' \in Nat,
           UNCHANGED <<file, lockname, pidfile>>
    PROVE  DaemonInv' /\ DaemonMoves
<1> DEFINE r == [Unborn EXCEPT !.ph = "gone"]
<1>b. r \in ProcType /\ r.ph = "gone"
  BY DEF ProcType, Phases, MaybeProcess, Addresses, Unborn
<1>1. proc' = [proc EXCEPT ![p] = r]
  BY DEF Ends
<1> HIDE DEF r
<1>2. /\ proc' \in [Processes -> ProcType]
      /\ held' \in [Processes -> MaybeProcess]
      /\ listener' \in [Addresses -> MaybeProcess]
  <2>1. proc' \in [Processes -> ProcType]
    BY <1>1, <1>b DEF DaemonInv, DaemonTypeOK
  <2>2. held' \in [Processes -> MaybeProcess]
    BY DEF DaemonInv, DaemonTypeOK, MaybeProcess, Ends
  <2>3. listener' \in [Addresses -> MaybeProcess]
    BY DEF DaemonInv, DaemonTypeOK, MaybeProcess, Ends
  <2> QED
    BY <2>1, <2>2, <2>3
<1>3. DaemonTypeOK'
  BY <1>2 DEF DaemonInv, DaemonTypeOK
<1>4. ListenersServe'
  BY <1>1, ServiceAssumption DEF DaemonInv, DaemonTypeOK, ListenersServe, Ends
<1>5. DaemonMoves
  BY <1>1, <1>b, ServiceAssumption
     DEF DaemonInv, DaemonTypeOK, DaemonMoves, Started, Ends, Addresses
<1> QED
  BY <1>3, <1>4, <1>5 DEF DaemonInv

\* Flags of a process change, its phase and its address do not.
LEMMA DaemonFlags ==
    ASSUME DaemonInv, NEW p \in Processes, NEW w \in BOOLEAN, NEW s \in BOOLEAN,
           proc' = [proc EXCEPT ![p].waits = w, ![p].stop = s],
           UNCHANGED <<file, lockname, held, pidfile, listener, budget>>
    PROVE  DaemonInv' /\ DaemonMoves
<1>1. proc' \in [Processes -> ProcType]
  BY DEF DaemonInv, DaemonTypeOK, ProcType
<1>2. \A q \in Processes : proc'[q].ph = proc[q].ph /\ proc'[q].listen = proc[q].listen
  BY DEF DaemonInv, DaemonTypeOK, ProcType
<1>3. DaemonTypeOK'
  BY <1>1 DEF DaemonInv, DaemonTypeOK
<1>4. ListenersServe'
  BY <1>2 DEF DaemonInv, ListenersServe
<1>5. DaemonMoves
  BY <1>2 DEF DaemonMoves
<1> QED
  BY <1>3, <1>4, <1>5 DEF DaemonInv

\* Loading and the acquisition of the lock: the new phase comes before serving.
LEMMA DaemonStarts ==
    ASSUME DaemonInv, NEW p \in Processes,
           LoadConfig(p) \/ OpenLock(p) \/ TryLock(p) \/ WritePid(p) \/ Build(p) \/ Built(p)
    PROVE  DaemonInv' /\ DaemonMoves
<1> USE DEF Phases, Started
<1>1. CASE LoadConfig(p)
  <2>1. file' \in FileType /\ file'.listen = file.listen
    BY <1>1, FileLoads DEF LoadConfig, DaemonInv, DaemonTypeOK
  <2>2. PICK ph \in {"open", "gone"} : Goto(p, ph)
    BY <1>1 DEF LoadConfig
  <2> QED
    BY <1>1, <2>1, <2>2, DaemonGoes DEF LoadConfig, DaemonInv, DaemonTypeOK
<1>2. CASE OpenLock(p)
  <2> DEFINE i == IF lockname = None THEN p ELSE lockname
  <2>1. i \in MaybeProcess
    BY DEF DaemonInv, DaemonTypeOK, MaybeProcess
  <2>2. /\ proc[p].ph = "open" /\ proc' = [proc EXCEPT ![p].ph = "try", ![p].inode = i]
        /\ lockname' = i /\ UNCHANGED <<file, held, pidfile, listener, budget>>
    BY <1>2 DEF OpenLock
  <2> HIDE DEF i
  <2>3. proc' \in [Processes -> ProcType]
    BY <2>1, <2>2 DEF DaemonInv, DaemonTypeOK, ProcType
  <2>4. DaemonTypeOK'
    BY <2>1, <2>2, <2>3 DEF DaemonInv, DaemonTypeOK
  <2>5. ListenersServe'
    BY <2>2 DEF DaemonInv, DaemonTypeOK, ProcType, ListenersServe
  <2>6. DaemonMoves
    BY <2>2 DEF DaemonInv, DaemonTypeOK, ProcType, DaemonMoves
  <2> QED
    BY <2>4, <2>5, <2>6 DEF DaemonInv
<1>3. CASE TryLock(p)
  <2>1. PICK ph \in {"locked", "gone"} : Goto(p, ph)
    BY <1>3 DEF TryLock
  <2>2. held' \in [Processes -> MaybeProcess]
    BY <1>3 DEF TryLock, DaemonInv, DaemonTypeOK, MaybeProcess
  <2> QED
    BY <1>3, <2>1, <2>2, DaemonGoes DEF TryLock, DaemonInv, DaemonTypeOK
<1>4. CASE WritePid(p)
  BY <1>4, DaemonGoes DEF WritePid, DaemonInv, DaemonTypeOK, MaybeProcess
<1>5. CASE Build(p)
  <2>1. PICK ph \in {"bind", "build", "retire"} : Goto(p, ph)
    BY <1>5 DEF Build
  <2> QED
    BY <1>5, <2>1, DaemonGoes DEF Build, DaemonInv, DaemonTypeOK
<1>6. CASE Built(p)
  BY <1>6, DaemonGoes DEF Built, DaemonInv, DaemonTypeOK
<1> QED
  BY <1>1, <1>2, <1>3, <1>4, <1>5, <1>6

\* Serving, the shutdown, the removal of the two names.
LEMMA DaemonServes ==
    ASSUME DaemonInv, NEW p \in Processes,
           Bind(p) \/ AwaitShutdown(p) \/ CloseListener(p) \/ Drained(p) \/ RemovePid(p)
              \/ UnlinkLock(p) \/ Release(p)
    PROVE  DaemonInv' /\ DaemonMoves
<1> USE DEF Phases, Started
<1>1. CASE Bind(p)
  <2>1. CASE listener' = listener
    <3>1. Goto(p, "retire")
      <4>1. proc[p].listen \in Addresses /\ p # None /\ listener \in [Addresses -> MaybeProcess]
        BY ServiceAssumption DEF DaemonInv, DaemonTypeOK, ProcType
      <4> QED
        BY <1>1, <2>1, <4>1 DEF Bind
    <3> QED
      BY <1>1, <2>1, <3>1, DaemonGoes DEF Bind, DaemonInv, DaemonTypeOK
  <2>2. CASE listener' # listener
    <3>1. PICK a \in Addresses : a = proc[p].listen
      BY DEF DaemonInv, DaemonTypeOK, ProcType
    <3>2. /\ proc[p].ph = "bind" /\ listener[a] = None
          /\ listener' = [listener EXCEPT ![a] = p]
          /\ proc' = [proc EXCEPT ![p].ph = "serve"]
          /\ UNCHANGED <<file, lockname, held, pidfile, budget>>
      BY <1>1, <2>2, <3>1 DEF Bind, Goto
    <3>3. proc' \in [Processes -> ProcType] /\ listener' \in [Addresses -> MaybeProcess]
      BY <3>1, <3>2 DEF DaemonInv, DaemonTypeOK, ProcType, MaybeProcess
    <3>4. DaemonTypeOK'
      BY <3>2, <3>3 DEF DaemonInv, DaemonTypeOK
    <3>5. ListenersServe'
      BY <3>1, <3>2 DEF DaemonInv, DaemonTypeOK, ProcType, ListenersServe
    <3>6. DaemonMoves
      BY <3>1, <3>2 DEF DaemonInv, DaemonTypeOK, ProcType, DaemonMoves
    <3> QED
      BY <3>4, <3>5, <3>6 DEF DaemonInv
  <2> QED
    BY <2>1, <2>2
<1>2. CASE AwaitShutdown(p)
  <2>1. proc' = [proc EXCEPT ![p].waits = TRUE, ![p].stop = proc[p].stop]
    BY <1>2 DEF AwaitShutdown, DaemonInv, DaemonTypeOK, ProcType
  <2>2. proc[p].stop \in BOOLEAN
    BY DEF DaemonInv, DaemonTypeOK, ProcType
  <2> QED
    BY <1>2, <2>1, <2>2, DaemonFlags DEF AwaitShutdown
<1>3. CASE CloseListener(p)
  <2>1. PICK a \in Addresses : a = proc[p].listen
    BY DEF DaemonInv, DaemonTypeOK, ProcType
  <2>2. /\ proc[p].ph = "serve"
        /\ listener' = [listener EXCEPT ![a] = None]
        /\ proc' = [proc EXCEPT ![p].ph = "drain"]
        /\ UNCHANGED <<file, lockname, held, pidfile, budget>>
    BY <1>3, <2>1 DEF CloseListener, Goto
  <2>3. proc' \in [Processes -> ProcType] /\ listener' \in [Addresses -> MaybeProcess]
    BY <2>1, <2>2 DEF DaemonInv, DaemonTypeOK, ProcType, MaybeProcess
  <2>4. DaemonTypeOK'
    BY <2>2, <2>3 DEF DaemonInv, DaemonTypeOK
  <2>5. ListenersServe'
    BY <2>1, <2>2, ServiceAssumption DEF DaemonInv, DaemonTypeOK, ProcType, ListenersServe
  <2>6. DaemonMoves
    BY <2>1, <2>2, ServiceAssumption
       DEF DaemonInv, DaemonTypeOK, ProcType, DaemonMoves, Addresses
  <2> QED
    BY <2>4, <2>5, <2>6 DEF DaemonInv
<1>4. CASE Drained(p)
  BY <1>4, DaemonGoes DEF Drained, DaemonInv, DaemonTypeOK
<1>5. CASE RemovePid(p)
  BY <1>5, DaemonGoes DEF RemovePid, DaemonInv, DaemonTypeOK, MaybeProcess
<1>6. CASE UnlinkLock(p)
  BY <1>6, DaemonGoes DEF UnlinkLock, DaemonInv, DaemonTypeOK, MaybeProcess
<1>7. CASE Release(p)
  BY <1>7, DaemonEnds DEF Release, DaemonInv, DaemonTypeOK
<1> QED
  BY <1>1, <1>2, <1>3, <1>4, <1>5, <1>6, <1>7

\* A request changes a daemon by asking it to stop, at most.
LEMMA DaemonDispatches ==
    ASSUME DaemonInv, NEW c \in Clients, NEW p \in Processes, Dispatch(c, p),
           UNCHANGED <<file, lockname, held, pidfile, listener, budget>>
    PROVE  DaemonInv' /\ DaemonMoves
<1>1. CASE proc' = proc
  BY <1>1, DaemonIdle DEF DaemonStays, daemonVars
<1>2. CASE proc' = [proc EXCEPT ![p].stop = @ \/ proc[p].waits]
  <2>1. PICK w \in BOOLEAN, s \in BOOLEAN :
           w = proc[p].waits /\ s = (proc[p].stop \/ proc[p].waits)
    BY DEF DaemonInv, DaemonTypeOK, ProcType
  <2>2. proc' = [proc EXCEPT ![p].waits = w, ![p].stop = s]
    BY <1>2, <2>1 DEF DaemonInv, DaemonTypeOK, ProcType
  <2> QED
    BY <2>2, DaemonFlags
<1> QED
  BY <1>1, <1>2 DEF Dispatch

\* No child, nothing to end.
LEMMA EndsOfNone ==
    ASSUME DaemonInv, ClientTypeOK, Ends(None)
    PROVE  UNCHANGED <<proc, held, listener>>
<1>1. proc' = proc
  BY ServiceAssumption DEF DaemonInv, DaemonTypeOK, Ends
<1>2. held' = held
  <2>1. held' = [i \in Processes |-> held[i]]
    BY DEF Ends
  <2> QED
    BY <2>1 DEF DaemonInv, DaemonTypeOK
<1>3. listener' = listener
  <2>1. listener' = [a \in Addresses |-> listener[a]]
    BY DEF Ends
  <2> QED
    BY <2>1 DEF DaemonInv, DaemonTypeOK
<1> QED
  BY <1>1, <1>2, <1>3

LEMMA DaemonStep ==
    ASSUME DaemonInv, ClientTypeOK, [Next]_vars
    PROVE  DaemonInv' /\ DaemonMoves
<1>1. ASSUME NEW p \in Processes, ProcessStep(p)
      PROVE  DaemonInv' /\ DaemonMoves
  <2>1. CASE DaemonStays
    BY <2>1, DaemonIdle
  <2>2. VerifyPlugin(p) \/ SpawnPlugin(p) \/ HandshakePlugin(p) \/ StartFails(p)
           \/ InvokePlugin(p) \/ BreakPlugin(p) => DaemonStays
    BY DEF VerifyPlugin, SpawnPlugin, HandshakePlugin, StartFails, InvokePlugin, BreakPlugin,
           PluginStep, DaemonStays
  <2> QED
    BY <1>1, <2>1, <2>2, DaemonStarts, DaemonServes DEF ProcessStep
<1>2. ASSUME NEW p \in Processes, Crash(p)
      PROVE  DaemonInv' /\ DaemonMoves
  BY <1>2, DaemonEnds DEF Crash, DaemonInv, DaemonTypeOK
<1>3. ASSUME NEW a \in Serves, ServeByHand(a)
      PROVE  DaemonInv' /\ DaemonMoves
  <2>1. a \in Addresses
    BY <1>3, ServiceAssumption DEF Addresses
  <2>2. budget' \in Nat
    BY <1>3 DEF ServeByHand, DaemonInv, DaemonTypeOK
  <2>3. /\ SomeUnborn /\ UNCHANGED <<file, lockname, held, pidfile, listener>>
        /\ proc' = [proc EXCEPT ![Fresh] = [Unborn EXCEPT !.ph = "load", !.listen = a]]
    BY <1>3 DEF ServeByHand
  <2> QED
    BY <2>1, <2>2, <2>3, DaemonBorn
<1>4. ASSUME NEW c \in Clients, ClientStep(c)
      PROVE  DaemonInv' /\ DaemonMoves
  <2>1. CASE Execute(c)
    BY <2>1, DaemonDispatches DEF Execute
  <2>2. CASE EnsureDaemon(c)
    <3>1. CASE DaemonStays
      BY <3>1, DaemonIdle
    <3>2. CASE ~DaemonStays
      <4>1. /\ SomeUnborn
            /\ proc' = [proc EXCEPT ![Fresh] = [Unborn EXCEPT !.ph = "load",
                                                              !.listen = file.listen]]
            /\ UNCHANGED <<file, lockname, held, pidfile, listener, budget>>
        BY <2>2, <3>2 DEF EnsureDaemon, Set, DaemonStays
      <4>2. PICK a \in Addresses : a = file.listen
        BY DEF DaemonInv, DaemonTypeOK, FileType
      <4> QED
        BY <4>1, <4>2, DaemonBorn DEF DaemonInv, DaemonTypeOK
    <3> QED
      BY <3>1, <3>2
  <2>3. CASE AwaitReady(c)
    <3>1. CASE DaemonStays
      BY <3>1, DaemonIdle
    <3>2. CASE ~DaemonStays
      <4>1. Ends(cli[c].child) /\ UNCHANGED <<file, lockname, pidfile, budget>>
        BY <2>3, <3>2 DEF AwaitReady, Set, DaemonStays
      <4>2. CASE cli[c].child = None
        BY <4>1, <4>2, EndsOfNone, DaemonIdle DEF DaemonStays, daemonVars
      <4>3. CASE cli[c].child \in Processes
        BY <4>1, <4>3, DaemonEnds DEF DaemonInv, DaemonTypeOK
      <4>4. cli[c].child \in Processes \cup {None}
        BY DEF ClientTypeOK, CliType, MaybeProcess
      <4> QED
        BY <4>2, <4>3, <4>4
    <3> QED
      BY <3>1, <3>2
  <2>4. CASE DaemonStays
    BY <2>4, DaemonIdle
  <2>5. Handshake(c) \/ HandshakeFails(c) \/ Denied(c) \/ Send(c) \/ SendFails(c)
           \/ ExecuteRemotely(c) \/ Receive(c) \/ WaitStopped(c) => DaemonStays
    BY DEF Handshake, HandshakeFails, Denied, Send, SendFails, ExecuteRemotely, Receive,
           WaitStopped, Set, DaemonStays
  <2> QED
    BY <1>4, <2>1, <2>2, <2>3, <2>4, <2>5 DEF ClientStep
<1>5. ASSUME NEW c \in Clients, NEW op \in Commands[c], Begin(c, op)
      PROVE  DaemonInv' /\ DaemonMoves
  <2>1. file' \in FileType /\ file'.listen = file.listen
    BY <1>5, FileLoads DEF Begin, DaemonInv, DaemonTypeOK
  <2> QED
    BY <1>5, <2>1 DEF Begin, daemonVars, DaemonInv, DaemonTypeOK, ListenersServe, DaemonMoves
<1>6. ASSUME NEW c \in Clients, NEW p \in Processes, ExecuteLate(c, p)
      PROVE  DaemonInv' /\ DaemonMoves
  BY <1>6, DaemonDispatches DEF ExecuteLate
<1>7. CASE SwapBinary
  <2>1. budget' \in Nat /\ UNCHANGED <<file, daemonVars>>
    BY <1>7 DEF SwapBinary, DaemonInv, DaemonTypeOK
  <2> QED
    BY <2>1 DEF DaemonInv, DaemonTypeOK, ListenersServe, daemonVars, DaemonMoves
<1>8. CASE UNCHANGED vars
  BY <1>8, DaemonIdle DEF vars, DaemonStays, daemonVars
<1> QED
  BY <1>1, <1>2, <1>3, <1>4, <1>5, <1>6, <1>7, <1>8 DEF Next

(***************************************************************************)
(* Plugins: from the digest to the process                                 *)
(***************************************************************************)
PlugOK(r) ==
    /\ r \in PlugType
    /\ r.st = "verified" /\ bin # "pinned" => r.swapped
    /\ r.st \in {"spawned", "up"} /\ r.bin # "pinned" => r.swapped

LEMMA PlugAll ==
    PluginInv <=> /\ bin \in {"pinned", "other"}
                  /\ plug = [p \in Processes |-> plug[p]]
                  /\ \A p \in Processes : PlugOK(plug[p])
BY DEF PluginInv, PlugTypeOK, VerifiedIsPinned, PluginIsPinned, PlugOK

\* One supervisor changes, the file does not.
LEMMA PlugSets ==
    ASSUME PluginInv, NEW p \in Processes, NEW r, PlugOK(r),
           plug' = [plug EXCEPT ![p] = r], bin' = bin
    PROVE  PluginInv'
<1>1. \A q \in Processes : plug'[q] = IF q = p THEN r ELSE plug[q]
  BY PlugAll
<1>2. plug' \in [Processes -> PlugType]
  BY DEF PluginInv, PlugTypeOK, PlugOK
<1> QED
  BY <1>1, <1>2 DEF PluginInv, PlugTypeOK, VerifiedIsPinned, PluginIsPinned, PlugOK

LEMMA PlugIdle ==
    ASSUME PluginInv, UNCHANGED pluginVars
    PROVE  PluginInv'
BY DEF PluginInv, PlugTypeOK, VerifiedIsPinned, PluginIsPinned, pluginVars

\* A supervisor that is shut down, whatever is left of its message.
LEMMA PlugDown ==
    PlugOK(Down) /\ (\A n \in Nat, c \in Clients : PlugOK([Down EXCEPT !.restarts = n, !.job = c]))
BY DEF PlugOK, PlugType, Down

LEMMA PlugEnds ==
    ASSUME PluginInv, NEW p \in MaybeProcess, Ends(p), bin' = bin
    PROVE  PluginInv'
<1>1. CASE p \in Processes
  BY <1>1, PlugSets, PlugDown DEF Ends
<1>2. CASE p = None
  <2>1. plug' = plug
    BY <1>2, ServiceAssumption DEF Ends, PluginInv, PlugTypeOK
  <2> QED
    BY <2>1, PlugIdle DEF pluginVars
<1> QED
  BY <1>1, <1>2 DEF MaybeProcess

\* The message a supervisor works on does not bear on its process.
LEMMA PlugTakes ==
    ASSUME PluginInv, NEW p \in Processes, NEW j \in Clients \cup {None, "start"},
           plug' = [plug EXCEPT ![p].job = j], bin' = bin
    PROVE  PluginInv'
<1> DEFINE r == [plug[p] EXCEPT !.job = j]
<1>1. plug[p] \in PlugType /\ PlugOK(plug[p])
  BY DEF PluginInv, PlugTypeOK, VerifiedIsPinned, PluginIsPinned, PlugOK
<1>2. PlugOK(r)
  BY <1>1 DEF PlugType, PlugOK
<1>3. plug' = [plug EXCEPT ![p] = r]
  BY DEF PluginInv, PlugTypeOK
<1> HIDE DEF r
<1> QED
  BY <1>2, <1>3, PlugSets

\* The steps of the supervisor itself.
LEMMA PlugSteps ==
    ASSUME PluginInv, NEW p \in Processes,
           VerifyPlugin(p) \/ SpawnPlugin(p) \/ HandshakePlugin(p) \/ StartFails(p)
              \/ InvokePlugin(p) \/ BreakPlugin(p)
    PROVE  PluginInv'
<1>0. plug[p] \in PlugType /\ PlugOK(plug[p]) /\ bin \in {"pinned", "other"}
  BY DEF PluginInv, PlugTypeOK, VerifiedIsPinned, PluginIsPinned, PlugOK
<1>1. CASE VerifyPlugin(p)
  <2> DEFINE r == [plug[p] EXCEPT !.st = "verified"]
  <2>1. bin = "pinned" /\ plug' = [plug EXCEPT ![p] = r] /\ bin' = bin
    BY <1>1 DEF VerifyPlugin, Verifies, PluginStep
  <2>2. PlugOK(r)
    BY <1>0, <2>1 DEF PlugOK, PlugType
  <2> HIDE DEF r
  <2> QED
    BY <2>1, <2>2, PlugSets
<1>2. CASE SpawnPlugin(p)
  <2> DEFINE r == [plug[p] EXCEPT !.st = "spawned", !.bin = bin]
  <2>1. plug[p].st = "verified" /\ plug' = [plug EXCEPT ![p] = r] /\ bin' = bin
    BY <1>2 DEF SpawnPlugin, PluginStep
  <2>2. PlugOK(r)
    BY <1>0, <2>1 DEF PlugOK, PlugType
  <2> HIDE DEF r
  <2> QED
    BY <2>1, <2>2, PlugSets
<1>3. CASE HandshakePlugin(p)
  <2>1. PICK j \in Clients \cup {None, "start"} :
           j = IF plug[p].job = "start" THEN None ELSE plug[p].job
    BY <1>0 DEF PlugType
  <2> DEFINE r == [plug[p] EXCEPT !.st = "up", !.job = j]
  <2>2. plug[p].st = "spawned" /\ plug' = [plug EXCEPT ![p] = r] /\ bin' = bin
    BY <1>0, <1>3, <2>1 DEF HandshakePlugin, PluginStep, PlugType
  <2>3. PlugOK(r)
    BY <1>0, <2>2 DEF PlugOK, PlugType
  <2> HIDE DEF r
  <2> QED
    BY <2>2, <2>3, PlugSets
<1>4. CASE StartFails(p)
  BY <1>4, PlugSets, PlugDown DEF StartFails, PluginStep
<1>5. ASSUME PluginStep(p, [plug[p] EXCEPT !.job = None, !.restarts = 0])
      PROVE  PluginInv'
  <2> DEFINE r == [plug[p] EXCEPT !.job = None, !.restarts = 0]
  <2>1. plug' = [plug EXCEPT ![p] = r] /\ bin' = bin
    BY <1>5 DEF PluginStep
  <2>2. PlugOK(r)
    BY <1>0 DEF PlugOK, PlugType
  <2> HIDE DEF r
  <2> QED
    BY <2>1, <2>2, PlugSets
<1>6. CASE InvokePlugin(p)
  BY <1>5, <1>6 DEF InvokePlugin
<1>7. CASE BreakPlugin(p)
  <2>1. CASE plug[p].restarts < MaxRestarts
    <3>1. PICK c \in Clients, n \in Nat : c = plug[p].job /\ n = plug[p].restarts + 1
      BY <1>0, <1>7 DEF BreakPlugin, PlugType
    <3> DEFINE r == [Down EXCEPT !.restarts = n, !.job = c]
    <3>2. plug' = [plug EXCEPT ![p] = r] /\ bin' = bin
      BY <1>7, <2>1, <3>1 DEF BreakPlugin, PluginStep
    <3>3. PlugOK(r)
      BY PlugDown
    <3> HIDE DEF r
    <3> QED
      BY <3>2, <3>3, PlugSets
  <2>2. CASE ~(plug[p].restarts < MaxRestarts)
    BY <1>5, <1>7, <2>2 DEF BreakPlugin
  <2> QED
    BY <2>1, <2>2
<1> QED
  BY <1>1, <1>2, <1>3, <1>4, <1>6, <1>7

\* Whoever replaces the file meets a digest or a spawn, and a spawn notes it.
LEMMA PlugSwaps ==
    ASSUME PluginInv, SwapBinary
    PROVE  PluginInv'
<1>1. \A p \in Processes : plug[p] \in PlugType /\ PlugOK(plug[p])
  BY DEF PluginInv, PlugTypeOK, VerifiedIsPinned, PluginIsPinned, PlugOK
<1>2. bin' = "other"
  BY DEF SwapBinary
<1> DEFINE r(p) == [plug[p] EXCEPT !.swapped = plug[p].swapped \/ plug[p].st = "verified"]
<1>3. plug' = [p \in Processes |-> r(p)]
  BY DEF SwapBinary
<1>4. ASSUME NEW p \in Processes
      PROVE  /\ r(p) \in PlugType
             /\ r(p).st = "verified" => r(p).swapped
             /\ r(p).st \in {"spawned", "up"} /\ r(p).bin # "pinned" => r(p).swapped
  BY <1>1 DEF PlugType, PlugOK
<1> HIDE DEF r
<1> QED
  BY <1>2, <1>3, <1>4 DEF PluginInv, PlugTypeOK, VerifiedIsPinned, PluginIsPinned

LEMMA PlugStep ==
    ASSUME DaemonInv, PluginInv, ClientTypeOK, [Next]_vars
    PROVE  PluginInv'
<1>1. ASSUME NEW c \in Clients, NEW p \in Processes, Dispatch(c, p), bin' = bin
      PROVE  PluginInv'
  <2>1. CASE plug' = plug
    BY <1>1, <2>1, PlugIdle DEF pluginVars
  <2>2. CASE plug' = [plug EXCEPT ![p].job = c]
    BY <1>1, <2>2, PlugTakes
  <2> QED
    BY <1>1, <2>1, <2>2 DEF Dispatch
<1>2. ASSUME NEW p \in Processes, ProcessStep(p)
      PROVE  PluginInv'
  <2>1. CASE UNCHANGED pluginVars
    BY <2>1, PlugIdle
  <2>2. LoadConfig(p) \/ OpenLock(p) \/ TryLock(p) \/ WritePid(p) \/ Built(p) \/ AwaitShutdown(p)
           \/ CloseListener(p) \/ RemovePid(p) \/ UnlinkLock(p) => UNCHANGED pluginVars
    BY DEF LoadConfig, OpenLock, TryLock, WritePid, Built, AwaitShutdown, CloseListener,
           RemovePid, UnlinkLock
  <2>3. CASE Build(p)
    BY <2>3, PlugTakes, PlugIdle DEF Build, pluginVars
  <2>4. CASE Bind(p)
    BY <2>4, PlugSets, PlugDown, PlugIdle DEF Bind, pluginVars
  <2>5. CASE Drained(p)
    BY <2>5, PlugSets, PlugDown DEF Drained
  <2>6. CASE Release(p)
    BY <2>6, PlugEnds DEF Release, MaybeProcess
  <2> QED
    BY <1>2, <2>1, <2>2, <2>3, <2>4, <2>5, <2>6, PlugSteps DEF ProcessStep
<1>3. ASSUME NEW p \in Processes, Crash(p)
      PROVE  PluginInv'
  BY <1>3, PlugEnds DEF Crash, MaybeProcess
<1>4. ASSUME NEW c \in Clients, ClientStep(c)
      PROVE  PluginInv'
  <2>1. CASE UNCHANGED pluginVars
    BY <2>1, PlugIdle
  <2>2. CASE Execute(c)
    BY <1>1, <2>2 DEF Execute
  <2>3. CASE AwaitReady(c)
    <3>1. cli[c].child \in MaybeProcess
      BY DEF ClientTypeOK, CliType
    <3>2. UNCHANGED pluginVars \/ (Ends(cli[c].child) /\ bin' = bin)
      <4>1. CASE \E k : Set(c, k)
        BY <4>1 DEF Set, pluginVars
      <4>2. CASE ~\E k : Set(c, k)
        BY <2>3, <4>2 DEF AwaitReady
      <4> QED
        BY <4>1, <4>2
    <3> QED
      BY <2>1, <3>1, <3>2, PlugEnds
  <2>4. Handshake(c) \/ HandshakeFails(c) \/ Denied(c) \/ Send(c) \/ SendFails(c)
           \/ ExecuteRemotely(c) \/ Receive(c) \/ EnsureDaemon(c) \/ WaitStopped(c)
              => UNCHANGED pluginVars
    BY DEF Handshake, HandshakeFails, Denied, Send, SendFails, ExecuteRemotely, Receive,
           EnsureDaemon, WaitStopped, Set
  <2> QED
    BY <1>4, <2>1, <2>2, <2>3, <2>4 DEF ClientStep
<1>5. ASSUME NEW c \in Clients, NEW p \in Processes, ExecuteLate(c, p)
      PROVE  PluginInv'
  BY <1>1, <1>5 DEF ExecuteLate
<1>6. (\E a \in Serves : ServeByHand(a)) \/ (\E c \in Clients : \E op \in Commands[c] : Begin(c, op))
         \/ UNCHANGED vars => UNCHANGED pluginVars
  BY DEF ServeByHand, Begin, vars, pluginVars
<1> QED
  BY <1>2, <1>3, <1>4, <1>5, <1>6, PlugSwaps, PlugIdle DEF Next

(***************************************************************************)
(* Commands: what becomes of a call                                        *)
(***************************************************************************)
\* What a record keeps through every step of its command.
SameCommand(r, k) == r.op = k.op /\ r.first = k.first /\ r.runs = k.runs

LEMMA FinishedIs ==
    ASSUME NEW k \in CliType, NEW out \in Outcomes
    PROVE  /\ Finished(k, out) \in CliType
           /\ SameCommand(Finished(k, out), k)
           /\ Finished(k, out).pc = "done" /\ Finished(k, out).out = out
BY DEF Finished, Idle, CliType, SameCommand, MaybeProcess, Pcs, Server

\* A call that is over: a mutation is reported, or goes to the local daemon
\* after nothing was executed; a restart waits for the stop.
AfterCallGives(k, out, r) ==
    /\ r \in CliType /\ SameCommand(r, k) /\ r.pc # "idle"
    /\ k.op = "restart" => r.pc = "stopwait" /\ r.out = k.out
    /\ k.op = "put" =>
          \/ /\ r.pc = "isready" /\ r.reply = None /\ r.out = k.out
             /\ out \in {"transport", "capability"}
          \/ r.pc = "done" /\ r.out = out

LEMMA AfterCallIs ==
    ASSUME NEW k \in CliType, NEW out \in Outcomes
    PROVE  AfterCallGives(k, out, AfterCall(k, out))
<1>1. CASE k.op = "restart"
  <2> DEFINE r == [k EXCEPT !.pc = "stopwait", !.at = None, !.reply = None]
  <2>1. AfterCall(k, out) = r
    BY <1>1 DEF AfterCall
  <2>2. r \in CliType /\ SameCommand(r, k) /\ r.pc = "stopwait" /\ r.out = k.out
    BY DEF CliType, SameCommand, Pcs
  <2> HIDE DEF r
  <2> QED
    BY <1>1, <2>1, <2>2 DEF AfterCallGives
<1>2. CASE k.op = "stop"
  <2>1. AfterCall(k, out) = Finished(k, StopOutcome(out))
    BY <1>2 DEF AfterCall
  <2>2. StopOutcome(out) \in Outcomes
    BY DEF StopOutcome, Outcomes, Replies
  <2> QED
    BY <1>2, <2>1, <2>2, FinishedIs DEF AfterCallGives
<1>3. CASE k.op \notin {"restart", "stop"}
  <2>1. CASE out \in {"transport", "capability"} /\ ~k.again
    <3> DEFINE r == [k EXCEPT !.pc = "isready", !.again = TRUE, !.ep = 1, !.missed = FALSE,
                              !.at = None, !.reply = None]
    <3>1. AfterCall(k, out) = r
      BY <1>3, <2>1 DEF AfterCall
    <3>2. r \in CliType /\ SameCommand(r, k) /\ r.pc = "isready" /\ r.reply = None /\ r.out = k.out
      BY DEF CliType, SameCommand, Pcs
    <3> HIDE DEF r
    <3> QED
      BY <1>3, <2>1, <3>1, <3>2 DEF AfterCallGives
  <2>2. CASE ~(out \in {"transport", "capability"} /\ ~k.again)
    <3>1. AfterCall(k, out) = Finished(k, out)
      BY <1>3, <2>2 DEF AfterCall
    <3> QED
      BY <1>3, <3>1, FinishedIs DEF AfterCallGives
  <2> QED
    BY <2>1, <2>2
<1> QED
  BY <1>1, <1>2, <1>3

\* The next target, or the end of the call: of a mutation that no target took.
NextTargetGives(k, r) ==
    /\ r \in CliType /\ SameCommand(r, k) /\ r.pc # "idle"
    /\ k.op = "restart" => r.pc \in {"hand", "stopwait"} /\ r.out = k.out
    /\ k.op = "put" =>
          \/ r.pc \in {"hand", "isready"} /\ r.reply = None /\ r.out = k.out
          \/ r.pc = "done" /\ r.out \in {"transport", "capability"}

LEMMA Targets ==
    Len(Endpoints) = 2 /\ \A n \in {1, 2} : Endpoints[n] \in {"local", "remote"}
<1>1. CASE Preference = "local"
  BY <1>1 DEF Endpoints
<1>2. CASE Preference # "local"
  BY <1>2 DEF Endpoints
<1> QED
  BY <1>1, <1>2

LEMMA NextTargetIs ==
    ASSUME NEW k \in CliType
    PROVE  NextTargetGives(k, NextTarget(k))
<1>1. CASE k.ep < Len(Endpoints)
  <2>1. PICK n \in {1, 2} : n = k.ep + 1
    BY <1>1, Targets DEF CliType
  <2> DEFINE r == [k EXCEPT !.pc = "hand", !.ep = n, !.at = None, !.reply = None]
  <2>2. NextTarget(k) = r
    BY <1>1, <2>1 DEF NextTarget, CliType
  <2>3. /\ r \in CliType /\ SameCommand(r, k) /\ r.pc = "hand" /\ r.reply = None
        /\ r.out = k.out
    BY DEF CliType, SameCommand, Pcs
  <2> HIDE DEF r
  <2> QED
    BY <2>2, <2>3 DEF NextTargetGives
<1>2. CASE ~(k.ep < Len(Endpoints))
  <2>1. PICK out \in {"capability", "transport"} : NextTarget(k) = AfterCall(k, out)
    BY <1>2 DEF NextTarget
  <2>2. AfterCallGives(k, out, AfterCall(k, out))
    BY AfterCallIs DEF Outcomes, Replies
  <2> QED
    BY <2>1, <2>2 DEF NextTargetGives, AfterCallGives
<1> QED
  BY <1>1, <1>2

\* A mutation that was not executed stays accounted for, whatever ends its call.
LEMMA CallEndsOK ==
    ASSUME NEW k \in CliType, NEW out \in Outcomes, k.pc # "idle",
           k.op = "put" => k.out = None /\ k.runs = (IF out = "ok" THEN 1 ELSE 0)
    PROVE  ClientOK(AfterCall(k, out))
<1>1. PICK r \in CliType : r = AfterCall(k, out) /\ AfterCallGives(k, out, r)
  BY AfterCallIs DEF AfterCallGives
<1>2. out # None
  <2>1. None \notin {"ok", "capability", "error", "transport", "unknown", "denied"}
    BY ServiceAssumption
  <2> QED
    BY <2>1 DEF Outcomes, Replies
<1>3. ASSUME k.op = "put"
      PROVE  MutationCounts(r)
  <2>1. CASE r.pc = "isready"
    BY <1>1, <1>3, <2>1 DEF AfterCallGives, MutationCounts, SameCommand
  <2>2. CASE r.pc = "done" /\ r.out = out
    BY <1>1, <1>2, <1>3, <2>2 DEF AfterCallGives, MutationCounts, SameCommand
  <2> QED
    BY <1>1, <1>3, <2>1, <2>2 DEF AfterCallGives
<1> QED
  BY <1>1, <1>3 DEF ClientOK, AfterCallGives, SameCommand

LEMMA NextTargetOK ==
    ASSUME NEW k \in CliType, k.pc # "idle", k.op = "put" => k.out = None /\ k.runs = 0
    PROVE  ClientOK(NextTarget(k))
<1>1. PICK r \in CliType : r = NextTarget(k) /\ NextTargetGives(k, r)
  BY NextTargetIs DEF NextTargetGives
<1>2. None \notin {"transport", "capability"}
  BY ServiceAssumption
<1>3. ASSUME k.op = "put"
      PROVE  MutationCounts(r)
  BY <1>1, <1>2, <1>3 DEF NextTargetGives, MutationCounts, SameCommand
<1> QED
  BY <1>1, <1>3 DEF ClientOK, NextTargetGives, SameCommand

(***************************************************************************)
(* Commands: one step of one client                                        *)
(***************************************************************************)
JobsStay ==
    \A p \in Processes : plug'[p].job \in Clients => plug'[p].job = plug[p].job

\* What a step of a client c does to a record k of it.
ClientMoves(k, r) ==
    /\ r \in CliType /\ r.pc # "idle" /\ ClientOK(r)
    /\ k.pc = "idle" \/ r.op = k.op
    /\ k.op = "put" => k.pc # "done"

LEMMA ClientSets ==
    ASSUME ClientInv, NEW c \in Clients, NEW r, ClientMoves(cli[c], r),
           cli' = [cli EXCEPT ![c] = r], late' \subseteq late, JobsStay
    PROVE  ClientInv'
<1>1. \A d \in Clients : cli'[d] = IF d = c THEN r ELSE cli[d]
  BY DEF ClientInv, ClientTypeOK
<1>2. ClientTypeOK'
  BY DEF ClientInv, ClientTypeOK, ClientMoves
<1>3. \A d \in Clients : ClientOK(cli'[d])
  BY <1>1 DEF ClientInv, ClientMoves
<1>4. LateOK'
  <2>1. ASSUME NEW d \in Clients, NEW p \in Processes, <<d, p>> \in late'
        PROVE  /\ cli'[d].pc # "idle"
               /\ cli'[d].op = "put" =>
                    /\ cli'[d].pc = "done" /\ cli'[d].out = "unknown" /\ cli'[d].runs = 0
                    /\ \A q \in Processes : <<d, q>> \in late' => q = p
    <3>1. /\ cli[d].pc # "idle"
          /\ cli[d].op = "put" =>
                /\ cli[d].pc = "done" /\ cli[d].out = "unknown" /\ cli[d].runs = 0
                /\ \A q \in Processes : <<d, q>> \in late => q = p
      BY <2>1 DEF ClientInv, LateOK
    <3> QED
      BY <1>1, <3>1 DEF ClientMoves
  <2> QED
    BY <2>1 DEF LateOK
<1>5. JobsArePluginCalls'
  <2>1. ASSUME NEW p \in Processes, plug'[p].job \in Clients
        PROVE  cli'[plug'[p].job].op = "plugin"
    <3>1. PICK d \in Clients : d = plug[p].job /\ d = plug'[p].job /\ cli[d].op = "plugin"
      BY <2>1 DEF ClientInv, JobsArePluginCalls, JobsStay
    <3>2. cli[d].pc # "idle"
      BY <3>1, ServiceAssumption DEF ClientInv, ClientOK
    <3> QED
      BY <1>1, <3>1, <3>2 DEF ClientMoves
  <2> QED
    BY <2>1 DEF JobsArePluginCalls
<1> QED
  BY <1>2, <1>3, <1>4, <1>5 DEF ClientInv

LEMMA ClientIdle ==
    ASSUME ClientInv, cli' = cli, late' \subseteq late, JobsStay
    PROVE  ClientInv'
BY DEF ClientInv, ClientTypeOK, LateOK, JobsArePluginCalls, JobsStay

LEMMA ClientFacts ==
    ASSUME ClientInv, NEW c \in Clients
    PROVE  cli[c] \in CliType /\ ClientOK(cli[c])
BY DEF ClientInv, ClientTypeOK

\* Begin: a command starts with nothing executed.
LEMMA ClientBegins ==
    ASSUME DaemonInv, ClientInv, NEW c \in Clients, NEW op \in Commands[c], Begin(c, op)
    PROVE  ClientInv'
<1>1. op \in Ops /\ pidfile \in MaybeProcess /\ listener["loopback"] \in MaybeProcess
  BY DEF Ops, DaemonInv, DaemonTypeOK, Addresses
<1>2. PICK prev \in MaybeProcess, first \in MaybeProcess, pc \in {"isready", "hand"} :
         /\ prev = (IF op = "restart" THEN pidfile ELSE None)
         /\ first = (IF op = "restart" THEN listener["loopback"] ELSE None)
         /\ pc = (IF op = "start" THEN "isready" ELSE "hand")
  BY <1>1 DEF MaybeProcess
<1> DEFINE i == [Idle EXCEPT !.op = op]
           r == [Idle EXCEPT !.op = op, !.pc = pc, !.prev = prev, !.first = first]
           e == Finished(i, "error")
<1>3. /\ cli[c].pc = "idle" /\ late' = late /\ JobsStay
      /\ cli' = [cli EXCEPT ![c] = e] \/ cli' = [cli EXCEPT ![c] = r]
  BY <1>2 DEF Begin, pluginVars, JobsStay
<1>4. None \notin {"put", "error"}
  BY ServiceAssumption
<1>5. r \in CliType /\ r.pc = pc /\ r.runs = 0 /\ r.reply = None /\ r.out = None
  BY <1>1 DEF Idle, CliType, Pcs, MaybeProcess, Server, Replies, Outcomes
<1>6. i \in CliType /\ i.runs = 0
  BY <1>1 DEF Idle, CliType, Pcs, MaybeProcess, Server, Replies, Outcomes
<1>7. e \in CliType /\ e.pc = "done" /\ e.out = "error" /\ e.runs = 0
  BY <1>6, FinishedIs DEF Outcomes, Replies, SameCommand
<1> HIDE DEF i, r, e
<1>8. ClientMoves(cli[c], e)
  BY <1>3, <1>4, <1>7 DEF ClientMoves, ClientOK, MutationCounts
<1>9. ClientMoves(cli[c], r)
  BY <1>3, <1>4, <1>5 DEF ClientMoves, ClientOK, MutationCounts
<1> QED
  BY <1>3, <1>8, <1>9, ClientSets

\* Set, with a record that the command may have next.
LEMMA ClientAssigns ==
    ASSUME ClientInv, NEW c \in Clients, NEW r, ClientMoves(cli[c], r), Set(c, r)
    PROVE  ClientInv'
BY ClientSets DEF Set, pluginVars, JobsStay

\* From the handshake to the request.
LEMMA ClientCalls ==
    ASSUME DaemonInv, ClientInv, NEW c \in Clients,
           Handshake(c) \/ HandshakeFails(c) \/ Denied(c) \/ Send(c)
    PROVE  ClientInv'
<1> DEFINE k == cli[c]
<1>0. /\ k \in CliType /\ ClientOK(k) /\ k.pc \in {"hand", "send"}
      /\ k.op = "put" => MutationCounts(k) /\ k.reply = None /\ k.runs = 0 /\ k.out = None
  BY ClientFacts DEF Handshake, HandshakeFails, Denied, Send, ClientOK, MutationCounts
<1>1. ASSUME NEW out \in Outcomes, out # "ok"
      PROVE  ClientMoves(k, AfterCall(k, out))
  <2>1. ClientOK(AfterCall(k, out))
    BY <1>0, <1>1, CallEndsOK
  <2> QED
    BY <1>0, <2>1, AfterCallIs DEF AfterCallGives, ClientMoves, SameCommand
<1>2. CASE Handshake(c)
  <2>1. PICK e \in {"local", "remote"} : e = Endpoints[k.ep]
    BY <1>0, Targets DEF CliType
  <2> DEFINE met == [k EXCEPT !.known = k.known \cup {e}]
             sends == [met EXCEPT !.pc = "send"]
             misses == [met EXCEPT !.missed = TRUE]
  <2>2. Set(c, sends) \/ Set(c, NextTarget(misses))
    BY <1>2, <2>1 DEF Handshake
  <2>3. /\ sends \in CliType /\ SameCommand(sends, k) /\ sends.pc = "send"
        /\ sends.reply = k.reply /\ sends.out = k.out
    BY <1>0 DEF CliType, SameCommand, Pcs
  <2>4. /\ misses \in CliType /\ SameCommand(misses, k) /\ misses.pc = k.pc
        /\ misses.out = k.out
    BY <1>0 DEF CliType, SameCommand
  <2> HIDE DEF sends, misses
  <2>5. ClientMoves(k, sends)
    BY <1>0, <2>3 DEF ClientMoves, ClientOK, MutationCounts, SameCommand
  <2>6. ClientOK(NextTarget(misses))
    BY <1>0, <2>4, NextTargetOK DEF SameCommand
  <2>7. ClientMoves(k, NextTarget(misses))
    BY <1>0, <2>4, <2>6, NextTargetIs DEF ClientMoves, NextTargetGives, SameCommand
  <2> QED
    BY <2>2, <2>5, <2>7, ClientAssigns
<1>3. CASE HandshakeFails(c)
  <2>1. ClientMoves(k, NextTarget(k))
    BY <1>0, NextTargetIs, NextTargetOK DEF ClientMoves, NextTargetGives, SameCommand
  <2>2. ClientMoves(k, AfterCall(k, "transport"))
    BY <1>1 DEF Outcomes, Replies
  <2>3. Set(c, NextTarget(k)) \/ Set(c, AfterCall(k, "transport"))
    BY <1>3 DEF HandshakeFails
  <2> QED
    BY <2>1, <2>2, <2>3, ClientAssigns
<1>4. CASE Denied(c)
  <2>1. ClientMoves(k, AfterCall(k, "denied"))
    BY <1>1 DEF Outcomes, Replies
  <2> QED
    BY <1>4, <2>1, ClientAssigns DEF Denied
<1>5. CASE Send(c)
  <2>1. PICK at \in Server \cup {None} :
           at = IF Endpoints[k.ep] = "local" THEN listener["loopback"] ELSE Endpoints[k.ep]
    BY <1>0, Targets DEF CliType, Server, DaemonInv, DaemonTypeOK, Addresses, MaybeProcess
  <2> DEFINE r == [k EXCEPT !.pc = "flight", !.at = at]
  <2>2. Set(c, r) /\ k.pc = "send"
    BY <1>5, <2>1 DEF Send
  <2>3. /\ r \in CliType /\ SameCommand(r, k) /\ r.pc = "flight"
        /\ r.reply = k.reply /\ r.out = k.out
    BY <1>0 DEF CliType, SameCommand, Pcs
  <2>4. None # "ok"
    BY ServiceAssumption
  <2> HIDE DEF r
  <2>5. ClientMoves(k, r)
    BY <1>0, <2>2, <2>3, <2>4 DEF ClientMoves, ClientOK, MutationCounts, SameCommand
  <2> QED
    BY <2>2, <2>5, ClientAssigns
<1> QED
  BY <1>2, <1>3, <1>4, <1>5

\* The client gives up: what is left of a mutation is one unexecuted request.
LEMMA ClientGivesUp ==
    ASSUME ClientInv, NEW c \in Clients, SendFails(c)
    PROVE  ClientInv'
<1> DEFINE k == cli[c]
           r == AfterSendFails(k)
<1>0. /\ k \in CliType /\ ClientOK(k) /\ k.pc \in {"send", "flight"}
      /\ k.op = "put" => MutationCounts(k)
  BY ClientFacts DEF SendFails, ClientOK
<1>1. /\ cli' = [cli EXCEPT ![c] = r] /\ UNCHANGED <<plug>>
      /\ \/ late' = late
         \/ /\ k.pc = "flight" /\ k.at \in Processes /\ k.reply = None
            /\ late' = late \cup {<<c, k.at>>}
  BY DEF SendFails, pluginVars
<1>2. r \in CliType /\ SameCommand(r, k) /\ r.pc # "idle" /\ ClientOK(r)
  <2>1. CASE k.op = "put"
    <3>1. r = AfterCall(k, "unknown") /\ "unknown" \in Outcomes
      BY <2>1 DEF AfterSendFails, IsRead, Outcomes, Replies
    <3>2. AfterCallGives(k, "unknown", r)
      BY <1>0, <3>1, AfterCallIs
    <3>3. r.pc = "done" /\ r.out = "unknown" /\ r.runs = k.runs /\ k.runs \in {0, 1}
      BY <1>0, <2>1, <3>2 DEF AfterCallGives, SameCommand, MutationCounts, CliType
    <3>4. ClientOK(r)
      BY <2>1, <3>2, <3>3, ServiceAssumption DEF AfterCallGives, SameCommand, MutationCounts, ClientOK
    <3> QED
      BY <3>2, <3>4 DEF AfterCallGives
  <2>2. CASE k.op # "put"
    <3>1. \/ r = NextTarget(k)
          \/ \E out \in {"unknown", "transport"} : r = AfterCall(k, out)
      BY DEF AfterSendFails
    <3>2. CASE r = NextTarget(k)
      BY <1>0, <2>2, <3>2, NextTargetIs DEF NextTargetGives, SameCommand, ClientOK
    <3>3. ASSUME NEW out \in {"unknown", "transport"}, r = AfterCall(k, out)
          PROVE  r \in CliType /\ SameCommand(r, k) /\ r.pc # "idle" /\ ClientOK(r)
      <4>1. AfterCallGives(k, out, r)
        BY <1>0, <3>3, AfterCallIs DEF Outcomes, Replies
      <4> QED
        BY <2>2, <4>1 DEF AfterCallGives, SameCommand, ClientOK
    <3> QED
      BY <3>1, <3>2, <3>3
  <2> QED
    BY <2>1, <2>2
<1>3. k.op = "put" => r.pc = "done" /\ r.out = "unknown"
  <2>1. SUFFICES ASSUME k.op = "put" PROVE r.pc = "done" /\ r.out = "unknown"
    OBVIOUS
  <2>2. r = AfterCall(k, "unknown") /\ "unknown" \in Outcomes
    BY <2>1 DEF AfterSendFails, IsRead, Outcomes, Replies
  <2>3. AfterCallGives(k, "unknown", r)
    BY <1>0, <2>2, AfterCallIs
  <2> QED
    BY <2>1, <2>3 DEF AfterCallGives
<1>4. ClientMoves(k, r)
  BY <1>0, <1>2 DEF ClientMoves, SameCommand
<1> HIDE DEF r
<1>5. CASE late' = late
  BY <1>1, <1>4, <1>5, ClientSets DEF JobsStay
<1>6. CASE late' = late \cup {<<c, k.at>>} /\ k.pc = "flight" /\ k.at \in Processes
              /\ k.reply = None
  <2>1. PICK at \in Processes : at = k.at
    BY <1>6
  <2>2. \A d \in Clients : cli'[d] = IF d = c THEN r ELSE cli[d]
    BY <1>1 DEF ClientInv, ClientTypeOK
  <2>3. ClientTypeOK'
    BY <1>1, <1>2, <1>6, <2>1 DEF ClientInv, ClientTypeOK
  <2>4. \A d \in Clients : ClientOK(cli'[d])
    BY <1>2, <2>2 DEF ClientInv
  <2>5. LateOK'
    <3>1. k.op = "put" => r.runs = 0 /\ \A q \in Processes : <<c, q>> \notin late
      BY <1>0, <1>2, <1>6, ServiceAssumption
         DEF MutationCounts, SameCommand, ClientInv, LateOK
    <3>2. ASSUME NEW d \in Clients, NEW p \in Processes, <<d, p>> \in late'
          PROVE  /\ cli'[d].pc # "idle"
                 /\ cli'[d].op = "put" =>
                      /\ cli'[d].pc = "done" /\ cli'[d].out = "unknown" /\ cli'[d].runs = 0
                      /\ \A q \in Processes : <<d, q>> \in late' => q = p
      <4>1. CASE d = c
        BY <1>2, <1>3, <1>6, <2>1, <2>2, <3>1, <3>2, <4>1 DEF SameCommand
      <4>2. CASE d # c
        <5>1. <<d, p>> \in late /\ \A q \in Processes : <<d, q>> \in late' => <<d, q>> \in late
          BY <1>6, <2>1, <3>2, <4>2
        <5> QED
          BY <2>2, <4>2, <5>1 DEF ClientInv, LateOK
      <4> QED
        BY <4>1, <4>2
    <3> QED
      BY <3>2 DEF LateOK
  <2>6. JobsArePluginCalls'
    BY <1>1, <1>2, <2>2 DEF ClientInv, JobsArePluginCalls, SameCommand
  <2> QED
    BY <2>3, <2>4, <2>5, <2>6 DEF ClientInv
<1> QED
  BY <1>1, <1>5, <1>6

\* A request at a server: it changes the record of its client, or goes to the
\* supervisor's mailbox.
Dispatched(c, p, k, r) ==
    /\ r \in CliType
    /\ r.op = k.op /\ r.pc = k.pc /\ r.first = k.first /\ r.out = k.out
    /\ cli' = [cli EXCEPT ![c] = r] /\ plug' = plug
    /\ \E n \in {0, 1} :
          /\ r.runs = k.runs + (IF k.op = "put" THEN n ELSE 0)
          /\ k.pc = "flight" /\ k.at = p /\ k.op = "put"
                => r.reply # None /\ (r.reply = "ok" <=> n = 1)
          /\ ~(k.pc = "flight" /\ k.at = p) => r.reply = k.reply

LEMMA DispatchIs ==
    ASSUME ClientInv, NEW c \in Clients, NEW p \in Processes, Dispatch(c, p)
    PROVE  \/ /\ cli' = cli /\ cli[c].op = "plugin" /\ plug' = [plug EXCEPT ![p].job = c]
           \/ \E r : Dispatched(c, p, cli[c], r)
<1> DEFINE k == cli[c]
           op == Operation(k.op)
           live == k.pc = "flight" /\ k.at = p
<1>0. k \in CliType
  BY ClientFacts
<1>1. op = "put" <=> k.op = "put"
  BY DEF Operation
<1>2. op = "plugin" => k.op = "plugin"
  BY DEF Operation
<1>3. ASSUME NEW reply \in Replies, NEW n \in {0, 1}, plug' = plug,
             k.op = "put" => (reply = "ok" <=> n = 1),
             cli' = [cli EXCEPT ![c].runs = @ + (IF op = "put" THEN n ELSE 0),
                                ![c].reply = IF live THEN reply ELSE @]
      PROVE  \E r : Dispatched(c, p, k, r)
  <2>1. PICK m \in Nat, y \in Replies \cup {None} :
           /\ m = k.runs + (IF op = "put" THEN n ELSE 0)
           /\ y = IF live THEN reply ELSE k.reply
    BY <1>0 DEF CliType
  <2> DEFINE r == [k EXCEPT !.runs = m, !.reply = y]
  <2>2. cli' = [cli EXCEPT ![c] = r]
    BY <1>0, <1>3, <2>1 DEF ClientInv, ClientTypeOK, CliType
  <2>3. /\ r \in CliType /\ r.op = k.op /\ r.pc = k.pc /\ r.first = k.first /\ r.out = k.out
        /\ r.runs = m /\ r.reply = y
    BY <1>0, <2>1 DEF CliType
  <2>4. reply # None
    BY ServiceAssumption DEF Replies
  <2> HIDE DEF r
  <2>5. Dispatched(c, p, k, r)
    BY <1>1, <1>3, <2>1, <2>2, <2>3, <2>4 DEF Dispatched
  <2> QED
    BY <2>5
<1>4. CASE op \notin LocalOps \/ (op = "plugin" /\ file.plugins = {})
  BY <1>3, <1>4 DEF Dispatch, Replies
<1>5. CASE ~(op \notin LocalOps \/ (op = "plugin" /\ file.plugins = {})) /\ op = "shutdown"
  BY <1>1, <1>3, <1>5 DEF Dispatch, Replies
<1>6. CASE ~(op \notin LocalOps \/ (op = "plugin" /\ file.plugins = {})) /\ op = "plugin"
  BY <1>2, <1>6 DEF Dispatch
<1>7. CASE /\ ~(op \notin LocalOps \/ (op = "plugin" /\ file.plugins = {}))
           /\ op \notin {"shutdown", "plugin"}
  BY <1>3, <1>7 DEF Dispatch, Replies
<1> QED
  BY <1>4, <1>5, <1>6, <1>7

\* The supervisor takes a plugin call.
LEMMA JobTaken ==
    ASSUME PlugTypeOK, ClientInv, NEW c \in Clients, NEW p \in Processes, cli[c].op = "plugin",
           cli' = cli, late' \subseteq late, plug' = [plug EXCEPT ![p].job = c]
    PROVE  ClientInv'
<1>1. \A q \in Processes : plug'[q].job = IF q = p THEN c ELSE plug[q].job
  BY DEF PlugTypeOK, PlugType
<1> QED
  BY <1>1 DEF ClientInv, ClientTypeOK, LateOK, JobsArePluginCalls

LEMMA ClientExecutes ==
    ASSUME PlugTypeOK, ClientInv, NEW c \in Clients, Execute(c)
    PROVE  ClientInv'
<1> DEFINE k == cli[c]
<1>1. /\ k \in CliType /\ ClientOK(k) /\ k.pc = "flight" /\ k.reply = None
      /\ k.op = "put" => k.runs = 0 /\ k.out = None
  BY ClientFacts, ServiceAssumption DEF Execute, ClientOK, MutationCounts
<1>2. PICK p \in Processes : p = k.at /\ Dispatch(c, p) /\ late' = late
  BY DEF Execute
<1>3. CASE cli' = cli /\ k.op = "plugin" /\ plug' = [plug EXCEPT ![p].job = c]
  BY <1>2, <1>3, JobTaken
<1>4. ASSUME NEW r, Dispatched(c, p, k, r)
      PROVE  ClientInv'
  <2>1. ClientOK(r)
    BY <1>1, <1>2, <1>4 DEF Dispatched, ClientOK, MutationCounts
  <2>2. ClientMoves(k, r)
    BY <1>1, <1>4, <2>1 DEF Dispatched, ClientMoves
  <2> QED
    BY <1>2, <1>4, <2>2, ClientSets DEF Dispatched, JobsStay
<1> QED
  BY <1>2, <1>3, <1>4, DispatchIs

\* A late mutation is executed at last, by the one server that has it.
LEMMA ClientExecutesLate ==
    ASSUME PlugTypeOK, ClientInv, NEW c \in Clients, NEW p \in Processes, ExecuteLate(c, p)
    PROVE  ClientInv'
<1> DEFINE k == cli[c]
<1>1. /\ k \in CliType /\ ClientOK(k) /\ k.pc # "idle"
      /\ k.op = "put" => /\ k.pc = "done" /\ k.out = "unknown" /\ k.runs = 0
                         /\ \A q \in Processes : <<c, q>> \in late => q = p
  BY ClientFacts DEF ExecuteLate, ClientInv, LateOK
<1>2. Dispatch(c, p) /\ late' = late \ {<<c, p>>}
  BY DEF ExecuteLate
<1>3. CASE cli' = cli /\ k.op = "plugin" /\ plug' = [plug EXCEPT ![p].job = c]
  BY <1>2, <1>3, JobTaken
<1>4. ASSUME NEW r, Dispatched(c, p, k, r)
      PROVE  ClientInv'
  <2>1. CASE k.op # "put"
    <3>1. ClientMoves(k, r)
      BY <1>1, <1>4, <2>1 DEF Dispatched, ClientMoves, ClientOK
    <3> QED
      BY <1>2, <1>4, <3>1, ClientSets DEF Dispatched, JobsStay
  <2>2. CASE k.op = "put"
    <3>1. r.runs \in {0, 1} /\ r.pc = "done" /\ r.out = "unknown" /\ r.op = "put"
      BY <1>1, <1>4, <2>2 DEF Dispatched
    <3>2. ClientOK(r)
      BY <3>1, ServiceAssumption DEF ClientOK, MutationCounts
    <3>3. \A d \in Clients : cli'[d] = IF d = c THEN r ELSE cli[d]
      BY <1>4 DEF Dispatched, ClientInv, ClientTypeOK
    <3>4. ClientTypeOK'
      BY <1>2, <1>4 DEF Dispatched, ClientInv, ClientTypeOK
    <3>5. \A d \in Clients : ClientOK(cli'[d])
      BY <3>2, <3>3 DEF ClientInv
    <3>6. LateOK'
      <4>1. \A q \in Processes : <<c, q>> \notin late'
        BY <1>1, <1>2, <2>2
      <4> QED
        BY <1>2, <3>3, <4>1 DEF ClientInv, LateOK
    <3>7. JobsArePluginCalls'
      BY <1>4, <2>2, <3>1, <3>3 DEF Dispatched, ClientInv, JobsArePluginCalls
    <3> QED
      BY <3>4, <3>5, <3>6, <3>7 DEF ClientInv
  <2> QED
    BY <2>1, <2>2
<1> QED
  BY <1>2, <1>3, <1>4, DispatchIs

\* The remote target answers; a reply is received.
LEMMA ClientHears ==
    ASSUME ClientInv, NEW c \in Clients, ExecuteRemotely(c) \/ Receive(c)
    PROVE  ClientInv'
<1> DEFINE k == cli[c]
<1>1. k \in CliType /\ ClientOK(k) /\ k.pc = "flight"
  BY ClientFacts DEF ExecuteRemotely, Receive
<1>2. CASE ExecuteRemotely(c)
  <2>1. PICK y \in {"ok", "error"}, n \in {0, 1} :
           /\ y = "ok" <=> n = 1
           /\ Set(c, [k EXCEPT !.reply = y, !.runs = @ + (IF k.op = "put" THEN n ELSE 0)])
    <3>1. PICK q \in {[reply |-> "ok", n |-> 1], [reply |-> "error", n |-> 0]} :
             Set(c, [k EXCEPT !.reply = q.reply, !.runs = @ + (IF k.op = "put" THEN q.n ELSE 0)])
      BY <1>2 DEF ExecuteRemotely
    <3>2. CASE q = [reply |-> "ok", n |-> 1]
      <4>1. q.reply = "ok" /\ q.n = 1
        BY <3>2
      <4> QED
        BY <3>1, <4>1
    <3>3. CASE q = [reply |-> "error", n |-> 0]
      <4>1. q.reply = "error" /\ q.n = 0
        BY <3>3
      <4> QED
        BY <3>1, <4>1
    <3> QED
      BY <3>2, <3>3
  <2>2. PICK m \in Nat : m = k.runs + (IF k.op = "put" THEN n ELSE 0)
    BY <1>1 DEF CliType
  <2> DEFINE r == [k EXCEPT !.reply = y, !.runs = m]
  <2>3. Set(c, r)
    BY <1>1, <2>1, <2>2 DEF CliType
  <2>4. /\ r \in CliType /\ r.op = k.op /\ r.pc = k.pc /\ r.out = k.out
        /\ r.runs = m /\ r.reply = y
    BY <1>1 DEF CliType, Replies
  <2>5. k.op = "put" => k.runs = 0
    BY <1>1, <1>2, ServiceAssumption DEF ExecuteRemotely, ClientOK, MutationCounts
  <2> HIDE DEF r
  <2>6. ClientMoves(k, r)
    BY <1>1, <2>1, <2>2, <2>4, <2>5 DEF ClientMoves, ClientOK, MutationCounts
  <2> QED
    BY <2>3, <2>6, ClientAssigns
<1>3. CASE Receive(c)
  <2>1. PICK y \in Replies : y = k.reply /\ Set(c, AfterCall(k, y))
    BY <1>1, <1>3 DEF Receive, CliType
  <2>2. y \in Outcomes
    BY DEF Outcomes
  <2>3. ClientOK(AfterCall(k, y))
    BY <1>1, <2>1, <2>2, CallEndsOK DEF ClientOK, MutationCounts
  <2>4. ClientMoves(k, AfterCall(k, y))
    BY <1>1, <2>2, <2>3, AfterCallIs DEF AfterCallGives, ClientMoves, SameCommand
  <2> QED
    BY <2>1, <2>4, ClientAssigns
<1> QED
  BY <1>2, <1>3

\* A command that begins, or waits for a daemon, has executed nothing.
LEMMA ReadyOK ==
    ASSUME NEW k \in CliType, ClientOK(k), k.pc \in {"isready", "await"}
    PROVE  /\ Ready(k) \in CliType /\ SameCommand(Ready(k), k) /\ ClientOK(Ready(k))
           /\ Ready(k).pc # "idle"
           /\ k.op = "restart" => Ready(k).pc = "done" /\ Ready(k).out = "ok"
<1>1. CASE k.op \in {"start", "restart"}
  <2>1. Ready(k) = Finished(k, "ok")
    BY <1>1 DEF Ready
  <2>2. "ok" \in Outcomes
    BY DEF Outcomes, Replies
  <2> QED
    BY <1>1, <2>1, <2>2, FinishedIs DEF ClientOK, SameCommand
<1>2. CASE k.op \notin {"start", "restart"}
  <2> DEFINE r == [k EXCEPT !.pc = "hand", !.child = None]
  <2>1. Ready(k) = r
    BY <1>2 DEF Ready
  <2>2. /\ r \in CliType /\ SameCommand(r, k) /\ r.pc = "hand"
        /\ r.reply = k.reply /\ r.out = k.out
    BY DEF CliType, SameCommand, Pcs, MaybeProcess
  <2> HIDE DEF r
  <2>3. ClientOK(r)
    BY <2>2 DEF ClientOK, MutationCounts, SameCommand
  <2> QED
    BY <1>2, <2>1, <2>2, <2>3
<1> QED
  BY <1>1, <1>2

LEMMA FinishedOK ==
    ASSUME NEW k \in CliType, ClientOK(k), NEW out \in {"error", "transport"},
           k.pc \in {"isready", "await", "stopwait"}
    PROVE  ClientMoves(k, Finished(k, out))
<1>1. out \in Outcomes
  BY DEF Outcomes, Replies
<1>2. out # None /\ out # "ok"
  BY ServiceAssumption
<1>3. k.op = "put" => k.runs = 0
  BY DEF ClientOK, MutationCounts
<1>4. PICK r \in CliType : r = Finished(k, out) /\ SameCommand(r, k) /\ r.pc = "done" /\ r.out = out
  BY <1>1, FinishedIs
<1>5. ClientOK(r)
  BY <1>2, <1>3, <1>4 DEF ClientOK, MutationCounts, SameCommand
<1> QED
  BY <1>4, <1>5 DEF ClientMoves, SameCommand

\* The waits of start, stop and restart.
LEMMA ClientWaits ==
    ASSUME DaemonInv, PlugTypeOK, ClientInv, NEW c \in Clients,
           EnsureDaemon(c) \/ AwaitReady(c) \/ WaitStopped(c)
    PROVE  ClientInv'
<1> DEFINE k == cli[c]
<1>1. k \in CliType /\ ClientOK(k) /\ k.pc \in {"isready", "await", "stopwait"}
  BY ClientFacts DEF EnsureDaemon, AwaitReady, WaitStopped
<1>2. ASSUME Set(c, Ready(k)), k.pc \in {"isready", "await"}
      PROVE  ClientInv'
  <2>1. ClientMoves(k, Ready(k))
    BY <1>1, <1>2, ReadyOK DEF ClientMoves, SameCommand
  <2> QED
    BY <1>2, <2>1, ClientAssigns
<1>3. ASSUME NEW out \in {"error", "transport"}, Set(c, Finished(k, out))
      PROVE  ClientInv'
  BY <1>1, <1>3, FinishedOK, ClientAssigns
<1>4. CASE EnsureDaemon(c)
  <2>1. CASE SomeUnborn /\ cli' = [cli EXCEPT ![c].pc = "await", ![c].child = Fresh]
                 /\ UNCHANGED <<plug, late>>
    <3>1. PICK f \in Processes : f = Fresh
      BY <2>1 DEF SomeUnborn, Fresh
    <3> DEFINE r == [k EXCEPT !.pc = "await", !.child = f]
    <3>2. cli' = [cli EXCEPT ![c] = r]
      BY <2>1, <3>1 DEF ClientInv, ClientTypeOK
    <3>3. /\ r \in CliType /\ SameCommand(r, k) /\ r.pc = "await"
          /\ r.reply = k.reply /\ r.out = k.out
      BY <1>1 DEF CliType, SameCommand, Pcs, MaybeProcess
    <3> HIDE DEF r
    <3>4. k.pc = "isready"
      BY <1>4 DEF EnsureDaemon
    <3>5. ClientMoves(k, r)
      BY <1>1, <3>3, <3>4 DEF ClientMoves, ClientOK, MutationCounts, SameCommand
    <3> QED
      BY <2>1, <3>2, <3>5, ClientSets DEF JobsStay
  <2> QED
    BY <1>2, <1>3, <1>4, <2>1 DEF EnsureDaemon, pluginVars
<1>5. CASE AwaitReady(c)
  <2>1. CASE Ends(k.child) /\ cli' = [cli EXCEPT ![c] = Finished(k, "transport")]
    <3>1. late' \subseteq late
      BY <2>1 DEF Ends
    <3>2. JobsStay
      BY <2>1, ServiceAssumption DEF Ends, Down, JobsStay, PlugTypeOK
    <3> QED
      BY <1>1, <2>1, <3>1, <3>2, FinishedOK, ClientSets
  <2> QED
    BY <1>2, <1>3, <1>5, <2>1 DEF AwaitReady
<1>6. CASE WaitStopped(c)
  <2>1. CASE Set(c, [k EXCEPT !.pc = "isready"])
    <3> DEFINE r == [k EXCEPT !.pc = "isready"]
    <3>1. r \in CliType /\ SameCommand(r, k) /\ r.pc = "isready"
      BY <1>1 DEF CliType, SameCommand, Pcs
    <3>2. k.op # "put"
      BY <1>1, <1>6 DEF WaitStopped, ClientOK, MutationCounts
    <3> HIDE DEF r
    <3>3. ClientMoves(k, r)
      BY <1>1, <3>1, <3>2 DEF ClientMoves, ClientOK, SameCommand
    <3>4. Set(c, r)
      BY <2>1 DEF r
    <3> QED
      BY <3>3, <3>4, ClientAssigns
  <2> QED
    BY <1>3, <1>6, <2>1 DEF WaitStopped, StopTimeout
<1> QED
  BY <1>4, <1>5, <1>6

\* A supervisor answers plugin calls only.
LEMMA ClientAnswered ==
    ASSUME PlugTypeOK, ClientInv, NEW p \in Processes, NEW y \in Replies, Answer(p, y),
           late' = late, JobsStay
    PROVE  ClientInv'
<1>1. CASE cli' = cli
  BY <1>1, ClientIdle
<1>2. CASE cli' # cli
  <2>1. PICK c \in Clients : /\ c = plug[p].job /\ cli[c].pc = "flight"
                             /\ cli' = [cli EXCEPT ![c].reply = y]
    BY <1>2 DEF Answer
  <2>2. cli[c] \in CliType /\ cli[c].op = "plugin"
    BY <2>1, ClientFacts DEF ClientInv, JobsArePluginCalls
  <2> DEFINE r == [cli[c] EXCEPT !.reply = y]
  <2>3. cli' = [cli EXCEPT ![c] = r]
    BY <2>1 DEF ClientInv, ClientTypeOK
  <2>4. r \in CliType /\ r.op = "plugin" /\ r.pc = "flight"
    BY <2>1, <2>2 DEF CliType
  <2> HIDE DEF r
  <2>5. ClientMoves(cli[c], r)
    BY <2>1, <2>2, <2>4 DEF ClientMoves, ClientOK
  <2> QED
    BY <2>3, <2>5, ClientSets
<1> QED
  BY <1>1, <1>2

LEMMA ClientProcesses ==
    ASSUME PlugTypeOK, ClientInv, NEW p \in Processes, ProcessStep(p)
    PROVE  ClientInv'
<1>1. CASE cli' = cli /\ late' \subseteq late /\ JobsStay
  BY <1>1, ClientIdle
<1>2. /\ LoadConfig(p) \/ OpenLock(p) \/ TryLock(p) \/ WritePid(p) \/ Built(p) \/ AwaitShutdown(p)
            \/ CloseListener(p) \/ RemovePid(p) \/ UnlinkLock(p)
            => UNCHANGED <<plug, cli, late>>
      /\ UNCHANGED <<plug, cli, late>> => cli' = cli /\ late' \subseteq late /\ JobsStay
  BY DEF LoadConfig, OpenLock, TryLock, WritePid, Built, AwaitShutdown, CloseListener,
         RemovePid, UnlinkLock, pluginVars, clientVars, JobsStay
<1>3. ASSUME NEW r \in PlugType, plug' = [plug EXCEPT ![p] = r],
             r.job \in {None, "start"} \/ r.job = plug[p].job
      PROVE  JobsStay
  BY <1>3, ServiceAssumption DEF JobsStay, PlugTypeOK
<1>4. Down \in PlugType /\ Down.job = None
  BY DEF Down, PlugType
<1>5. plug[p] \in PlugType
  BY DEF PlugTypeOK
<1>6. CASE Build(p)
  <2>1. plug' = plug \/ plug' = [plug EXCEPT ![p].job = "start"]
    BY <1>6 DEF Build
  <2>2. JobsStay
    BY <1>5, <2>1, ServiceAssumption DEF JobsStay, PlugTypeOK, PlugType
  <2> QED
    BY <1>1, <1>6, <2>2 DEF Build, clientVars
<1>7. CASE Bind(p)
  BY <1>1, <1>3, <1>4, <1>7 DEF Bind, clientVars, JobsStay
<1>8. CASE Drained(p)
  BY <1>1, <1>3, <1>4, <1>8 DEF Drained, clientVars
<1>9. CASE Release(p)
  BY <1>1, <1>3, <1>4, <1>9 DEF Release, Ends
<1>10. CASE VerifyPlugin(p)
  BY <1>1, <1>5, <1>10 DEF VerifyPlugin, PluginStep, JobsStay, PlugTypeOK, PlugType
<1>11. CASE SpawnPlugin(p)
  BY <1>1, <1>5, <1>11 DEF SpawnPlugin, PluginStep, JobsStay, PlugTypeOK, PlugType
<1>12. CASE HandshakePlugin(p)
  <2>1. PICK j : /\ j = None \/ j = plug[p].job
                 /\ plug' = [plug EXCEPT ![p] = [plug[p] EXCEPT !.st = "up", !.job = j]]
    BY <1>5, <1>12 DEF HandshakePlugin, PluginStep, PlugType
  <2>2. JobsStay
    BY <1>5, <2>1, ServiceAssumption DEF JobsStay, PlugTypeOK, PlugType
  <2> QED
    BY <1>1, <1>12, <2>2 DEF HandshakePlugin, PluginStep
<1>13. CASE StartFails(p)
  BY <1>3, <1>4, <1>13, ClientAnswered DEF StartFails, PluginStep, Replies
<1>14. ASSUME PluginStep(p, [plug[p] EXCEPT !.job = None, !.restarts = 0])
       PROVE  JobsStay /\ late' = late
  BY <1>5, <1>14, ServiceAssumption DEF PluginStep, JobsStay, PlugTypeOK, PlugType
<1>15. CASE InvokePlugin(p)
  BY <1>14, <1>15, ClientAnswered DEF InvokePlugin, Replies
<1>16. CASE BreakPlugin(p)
  <2>1. CASE plug[p].restarts < MaxRestarts
    <3>1. PICK d \in Clients, n \in {plug[p].restarts + 1} : d = plug[p].job
      BY <1>16 DEF BreakPlugin
    <3>2. plug' = [plug EXCEPT ![p] = [Down EXCEPT !.restarts = n, !.job = d]]
      BY <1>16, <2>1, <3>1 DEF BreakPlugin, PluginStep
    <3>3. JobsStay
      BY <3>1, <3>2 DEF JobsStay, PlugTypeOK, Down
    <3> QED
      BY <1>1, <1>16, <2>1, <3>3 DEF BreakPlugin, PluginStep
  <2>2. CASE ~(plug[p].restarts < MaxRestarts)
    BY <1>14, <1>16, <2>2, ClientAnswered DEF BreakPlugin, Replies
  <2> QED
    BY <2>1, <2>2
<1> QED
  BY <1>1, <1>2, <1>6, <1>7, <1>8, <1>9, <1>10, <1>11, <1>12, <1>13, <1>15, <1>16 DEF ProcessStep

LEMMA CommandStep ==
    ASSUME DaemonInv, PlugTypeOK, ClientInv, [Next]_vars
    PROVE  ClientInv'
<1>1. ASSUME NEW p \in Processes, Crash(p)
      PROVE  ClientInv'
  <2>1. JobsStay
    BY <1>1, ServiceAssumption DEF Crash, Ends, Down, JobsStay, PlugTypeOK
  <2> QED
    BY <1>1, <2>1, ClientIdle DEF Crash, Ends
<1>2. ASSUME NEW c \in Clients, ClientStep(c)
      PROVE  ClientInv'
  BY <1>2, ClientCalls, ClientGivesUp, ClientExecutes, ClientHears, ClientWaits DEF ClientStep
<1>3. CASE SwapBinary
  <2>1. \A p \in Processes : plug'[p].job = plug[p].job
    BY <1>3 DEF SwapBinary, PlugTypeOK, PlugType
  <2> QED
    BY <1>3, <2>1, ClientIdle DEF SwapBinary, clientVars, JobsStay
<1>4. CASE (\E a \in Serves : ServeByHand(a)) \/ UNCHANGED vars
  <2>1. UNCHANGED <<plug, cli, late>>
    BY <1>4 DEF ServeByHand, vars, pluginVars, clientVars
  <2> QED
    BY <2>1, ClientIdle DEF JobsStay
<1> QED
  BY <1>1, <1>2, <1>3, <1>4, ClientProcesses, ClientBegins, ClientExecutesLate DEF Next

(***************************************************************************)
(* Restarts                                                                *)
(***************************************************************************)
Past(k) == k.pc \in {"isready", "await"} \/ k.out = "ok"

\* What a step does to a restart: it goes past the wait for the stop only when
\* nobody listens on the configured address, and its notes stay.
RestartKeeps(k, r) ==
    /\ r.op = k.op
    /\ k.op = "restart" =>
          /\ r.first = k.first
          /\ Past(r) => Past(k) \/ listener[file.listen] = None

RestartMoves(c) ==
    cli'[c].op = "restart" =>
       \/ RestartKeeps(cli[c], cli'[c])
       \/ cli'[c].first \in {None, listener["loopback"]} /\ ~Past(cli'[c])

LEMMA RestartSets ==
    ASSUME ClientTypeOK, NEW c \in Clients, NEW r, RestartKeeps(cli[c], r),
           cli' = [cli EXCEPT ![c] = r], NEW d \in Clients
    PROVE  RestartMoves(d)
BY DEF ClientTypeOK, RestartMoves, RestartKeeps, Past

LEMMA RestartIdle ==
    ASSUME cli' = cli, NEW d \in Clients
    PROVE  RestartMoves(d)
BY DEF RestartMoves, RestartKeeps, Past

LEMMA RestartCalls ==
    ASSUME NEW k \in CliType
    PROVE  /\ RestartKeeps(k, NextTarget(k))
           /\ \A out \in Outcomes : RestartKeeps(k, AfterCall(k, out))
<1>1. RestartKeeps(k, NextTarget(k))
  BY NextTargetIs DEF NextTargetGives, RestartKeeps, SameCommand, Past
<1>2. ASSUME NEW out \in Outcomes
      PROVE  RestartKeeps(k, AfterCall(k, out))
  BY AfterCallIs DEF AfterCallGives, RestartKeeps, SameCommand, Past
<1> QED
  BY <1>1, <1>2

\* From the handshake to the reply.
LEMMA RestartAsks ==
    ASSUME ClientInv, NEW c \in Clients, NEW d \in Clients,
           Handshake(c) \/ HandshakeFails(c) \/ Denied(c) \/ Send(c) \/ SendFails(c)
              \/ ExecuteRemotely(c) \/ Receive(c)
    PROVE  RestartMoves(d)
<1> DEFINE k == cli[c]
<1>1. k \in CliType /\ ClientTypeOK
  BY ClientFacts DEF ClientInv
<1>2. ASSUME NEW r, RestartKeeps(k, r), cli' = [cli EXCEPT ![c] = r]
      PROVE  RestartMoves(d)
  BY <1>1, <1>2, RestartSets
<1>3. /\ "transport" \in Outcomes /\ "denied" \in Outcomes /\ "unknown" \in Outcomes
      /\ Replies \subseteq Outcomes
  BY DEF Outcomes, Replies
<1>4. CASE Handshake(c)
  <2>1. PICK e \in {"local", "remote"} : e = Endpoints[k.ep]
    BY <1>1, Targets DEF CliType
  <2> DEFINE met == [k EXCEPT !.known = k.known \cup {e}]
             sends == [met EXCEPT !.pc = "send"]
             misses == [met EXCEPT !.missed = TRUE]
  <2>2. cli' = [cli EXCEPT ![c] = sends] \/ cli' = [cli EXCEPT ![c] = NextTarget(misses)]
    BY <1>4, <2>1 DEF Handshake, Set
  <2>3. RestartKeeps(k, sends)
    BY <1>1 DEF CliType, RestartKeeps, Past
  <2>4. /\ misses \in CliType /\ misses.op = k.op /\ misses.first = k.first
        /\ misses.out = k.out /\ misses.pc = k.pc
    BY <1>1 DEF CliType
  <2> HIDE DEF sends, misses
  <2>5. RestartKeeps(k, NextTarget(misses))
    BY <2>4, RestartCalls DEF RestartKeeps, Past
  <2> QED
    BY <1>2, <2>2, <2>3, <2>5
<1>5. CASE HandshakeFails(c)
  <2>1. cli' = [cli EXCEPT ![c] = NextTarget(k)] \/ cli' = [cli EXCEPT ![c] = AfterCall(k, "transport")]
    BY <1>5 DEF HandshakeFails, Set
  <2> QED
    BY <1>1, <1>2, <1>3, <2>1, RestartCalls
<1>6. CASE Denied(c)
  BY <1>1, <1>2, <1>3, <1>6, RestartCalls DEF Denied, Set
<1>7. CASE Send(c)
  <2>1. PICK at : cli' = [cli EXCEPT ![c] = [k EXCEPT !.pc = "flight", !.at = at]]
    BY <1>7 DEF Send, Set
  <2>2. RestartKeeps(k, [k EXCEPT !.pc = "flight", !.at = at])
    BY <1>1 DEF CliType, RestartKeeps, Past
  <2> QED
    BY <1>2, <2>1, <2>2
<1>8. CASE SendFails(c)
  <2>1. PICK r : /\ cli' = [cli EXCEPT ![c] = r]
                 /\ r = NextTarget(k) \/ \E out \in Outcomes : r = AfterCall(k, out)
    BY <1>3, <1>8 DEF SendFails, AfterSendFails
  <2> QED
    BY <1>1, <1>2, <2>1, RestartCalls
<1>9. CASE ExecuteRemotely(c)
  <2>1. PICK y, m : cli' = [cli EXCEPT ![c] = [k EXCEPT !.reply = y, !.runs = m]]
    <3>1. PICK q : Set(c, [k EXCEPT !.reply = q.reply,
                                    !.runs = @ + (IF k.op = "put" THEN q.n ELSE 0)])
      BY <1>9 DEF ExecuteRemotely
    <3>2. PICK m : m = k.runs + (IF k.op = "put" THEN q.n ELSE 0)
      OBVIOUS
    <3>3. cli' = [cli EXCEPT ![c] = [k EXCEPT !.reply = q.reply, !.runs = m]]
      BY <1>1, <3>1, <3>2 DEF Set, CliType
    <3> QED
      BY <3>3
  <2>2. RestartKeeps(k, [k EXCEPT !.reply = y, !.runs = m])
    BY <1>1 DEF CliType, RestartKeeps, Past
  <2> QED
    BY <1>2, <2>1, <2>2
<1>10. CASE Receive(c)
  <2>1. PICK y \in Replies : cli' = [cli EXCEPT ![c] = AfterCall(k, y)]
    BY <1>1, <1>10 DEF Receive, Set, CliType
  <2> QED
    BY <1>1, <1>2, <1>3, <2>1, RestartCalls
<1> QED
  BY <1>4, <1>5, <1>6, <1>7, <1>8, <1>9, <1>10

\* The waits; only the one for the stop lets a restart pass.
LEMMA RestartWaits ==
    ASSUME DaemonInv, ClientInv, NEW c \in Clients, NEW d \in Clients,
           EnsureDaemon(c) \/ AwaitReady(c) \/ WaitStopped(c)
    PROVE  RestartMoves(d)
<1> DEFINE k == cli[c]
<1>1. k \in CliType /\ ClientTypeOK /\ ClientOK(k)
  BY ClientFacts DEF ClientInv
<1>2. ASSUME NEW r, RestartKeeps(k, r), cli' = [cli EXCEPT ![c] = r]
      PROVE  RestartMoves(d)
  BY <1>1, <1>2, RestartSets
<1>3. ASSUME NEW out \in {"error", "transport"}, cli' = [cli EXCEPT ![c] = Finished(k, out)]
      PROVE  RestartMoves(d)
  <2>1. out \in Outcomes /\ out # "ok"
    BY DEF Outcomes, Replies
  <2>2. RestartKeeps(k, Finished(k, out))
    BY <1>1, <2>1, FinishedIs DEF RestartKeeps, SameCommand, Past
  <2> QED
    BY <1>2, <1>3, <2>2
<1>4. ASSUME cli' = [cli EXCEPT ![c] = Ready(k)], k.pc \in {"isready", "await"}
      PROVE  RestartMoves(d)
  <2>1. RestartKeeps(k, Ready(k))
    BY <1>1, <1>4, ReadyOK DEF RestartKeeps, SameCommand, Past
  <2> QED
    BY <1>2, <1>4, <2>1
<1>5. CASE EnsureDaemon(c)
  <2>1. CASE cli' = [cli EXCEPT ![c].pc = "await", ![c].child = Fresh]
    <3>1. PICK f : f = Fresh
      OBVIOUS
    <3>2. cli' = [cli EXCEPT ![c] = [k EXCEPT !.pc = "await", !.child = f]]
      BY <1>1, <2>1, <3>1 DEF ClientTypeOK
    <3>3. RestartKeeps(k, [k EXCEPT !.pc = "await", !.child = f])
      BY <1>1, <1>5 DEF EnsureDaemon, CliType, RestartKeeps, Past
    <3> QED
      BY <1>2, <3>2, <3>3
  <2> QED
    BY <1>3, <1>4, <1>5, <2>1 DEF EnsureDaemon, Set
<1>6. CASE AwaitReady(c)
  BY <1>3, <1>4, <1>6 DEF AwaitReady, Set
<1>7. CASE WaitStopped(c)
  <2>1. CASE /\ listener[file.listen] = None
             /\ cli' = [cli EXCEPT ![c] = [k EXCEPT !.pc = "isready"]]
    <3>1. RestartKeeps(k, [k EXCEPT !.pc = "isready"])
      BY <1>1, <2>1 DEF CliType, RestartKeeps, Past
    <3> QED
      BY <1>2, <2>1, <3>1
  <2> QED
    BY <1>3, <1>7, <2>1 DEF WaitStopped, StopTimeout, Set
<1> QED
  BY <1>5, <1>6, <1>7

\* Requests at a server and answers of a plugin.
LEMMA RestartServed ==
    ASSUME ClientInv, NEW c \in Clients, NEW d \in Clients, NEW p \in Processes,
           Dispatch(c, p)
    PROVE  RestartMoves(d)
<1>1. ASSUME NEW r, Dispatched(c, p, cli[c], r)
      PROVE  RestartMoves(d)
  <2>1. RestartKeeps(cli[c], r)
    BY <1>1 DEF Dispatched, RestartKeeps, Past
  <2> QED
    BY <1>1, <2>1, RestartSets DEF Dispatched, ClientInv
<1> QED
  BY <1>1, DispatchIs, RestartIdle

LEMMA RestartAnswered ==
    ASSUME ClientInv, NEW d \in Clients, NEW p \in Processes, NEW y, Answer(p, y)
    PROVE  RestartMoves(d)
<1>1. CASE cli' = cli
  BY <1>1, RestartIdle
<1>2. CASE cli' # cli
  <2>1. PICK c \in Clients : cli' = [cli EXCEPT ![c].reply = y]
    BY <1>2 DEF Answer
  <2>2. cli' = [cli EXCEPT ![c] = [cli[c] EXCEPT !.reply = y]] /\ cli[c] \in CliType
    BY <2>1 DEF ClientInv, ClientTypeOK
  <2>3. RestartKeeps(cli[c], [cli[c] EXCEPT !.reply = y])
    BY <2>2 DEF CliType, RestartKeeps, Past
  <2> QED
    BY <2>2, <2>3, RestartSets DEF ClientInv
<1> QED
  BY <1>1, <1>2

LEMMA RestartsMove ==
    ASSUME DaemonInv, ClientInv, [Next]_vars, NEW d \in Clients
    PROVE  RestartMoves(d)
<1>1. ASSUME NEW p \in Processes, ProcessStep(p)
      PROVE  RestartMoves(d)
  <2>1. CASE \E y : Answer(p, y)
    BY <2>1, RestartAnswered
  <2>2. cli' = cli \/ \E y : Answer(p, y)
    BY <1>1 DEF ProcessStep, LoadConfig, OpenLock, TryLock, WritePid, Build, Built, Bind,
         AwaitShutdown, CloseListener, Drained, RemovePid, UnlinkLock, Release, VerifyPlugin,
         SpawnPlugin, HandshakePlugin, StartFails, InvokePlugin, BreakPlugin, clientVars
  <2> QED
    BY <2>1, <2>2, RestartIdle
<1>2. ASSUME NEW c \in Clients, ClientStep(c)
      PROVE  RestartMoves(d)
  BY <1>2, RestartAsks, RestartWaits, RestartServed DEF ClientStep, Execute
<1>3. ASSUME NEW c \in Clients, NEW op \in Commands[c], Begin(c, op)
      PROVE  RestartMoves(d)
  <2> DEFINE r == [Idle EXCEPT !.op = op, !.pc = IF op = "start" THEN "isready" ELSE "hand",
                               !.prev = IF op = "restart" THEN pidfile ELSE None,
                               !.first = IF op = "restart" THEN listener["loopback"] ELSE None]
             e == Finished([Idle EXCEPT !.op = op], "error")
  <2>1. cli' = [cli EXCEPT ![c] = e] \/ cli' = [cli EXCEPT ![c] = r]
    BY <1>3 DEF Begin
  <2>2. r.op = op /\ (op = "restart" => r.first = listener["loopback"] /\ ~Past(r))
    BY ServiceAssumption DEF Idle, Past
  <2>3. e.first = None /\ ~Past(e)
    BY DEF Finished, Idle, Past
  <2> HIDE DEF r, e
  <2>4. CASE d = c
    BY <2>1, <2>2, <2>3, <2>4 DEF RestartMoves, ClientInv, ClientTypeOK
  <2>5. CASE d # c
    BY <2>1, <2>5 DEF RestartMoves, RestartKeeps, ClientInv, ClientTypeOK
  <2> QED
    BY <2>4, <2>5
<1>4. ASSUME NEW c \in Clients, NEW p \in Processes, ExecuteLate(c, p)
      PROVE  RestartMoves(d)
  BY <1>4, RestartServed DEF ExecuteLate
<1>5. (\E p \in Processes : Crash(p)) \/ (\E a \in Serves : ServeByHand(a)) \/ SwapBinary
         \/ UNCHANGED vars => cli' = cli
  BY DEF Crash, ServeByHand, SwapBinary, clientVars, vars
<1> QED
  BY <1>1, <1>2, <1>3, <1>4, <1>5, RestartIdle DEF Next

LEMMA RestartStep ==
    ASSUME DaemonInv, DaemonInv', ClientInv, ClientInv', RestartInv, DaemonMoves, [Next]_vars
    PROVE  RestartInv'
<1>1. UsersListenElsewhere' /\ DefaultIsConfigured'
  BY DEF RestartInv, UsersListenElsewhere, DefaultIsConfigured, DaemonMoves
<1>2. ASSUME NEW c \in Clients, cli'[c].op = "restart", cli'[c].first # None
      PROVE  /\ proc'[cli'[c].first].ph \in Started
             /\ file'.listen = "loopback"
             /\ Past(cli'[c]) => listener'["loopback"] # cli'[c].first
  <2>1. PICK f \in Processes : f = cli'[c].first
    BY <1>2 DEF ClientInv, ClientTypeOK, CliType, MaybeProcess
  <2>2. CASE RestartKeeps(cli[c], cli'[c])
    <3>1. cli[c].op = "restart" /\ cli[c].first = f /\ f # None
      BY <1>2, <2>1, <2>2 DEF RestartKeeps
    <3>2. /\ proc[f].ph \in Started /\ file.listen = "loopback"
          /\ Past(cli[c]) => listener["loopback"] # f
      BY <3>1 DEF RestartInv, RestartOK, Past
    <3>3. proc'[f].ph \in Started /\ file'.listen = "loopback"
      BY <3>2 DEF DaemonMoves
    <3>4. Past(cli'[c]) => listener["loopback"] # f
      BY <1>2, <2>2, <3>1, <3>2 DEF RestartKeeps
    <3>5. listener'["loopback"] = f => listener["loopback"] = f
      BY <3>2 DEF DaemonMoves, Started
    <3> QED
      BY <2>1, <3>3, <3>4, <3>5
  <2>3. CASE cli'[c].first \in {None, listener["loopback"]} /\ ~Past(cli'[c])
    <3>1. listener["loopback"] = f
      BY <1>2, <2>1, <2>3
    <3>2. proc[f].ph = "serve" /\ proc[f].listen = "loopback"
      BY <3>1 DEF DaemonInv, ListenersServe, Addresses
    <3>3. file.listen = "loopback"
      BY <3>2 DEF RestartInv, DefaultIsConfigured
    <3> QED
      BY <2>1, <2>3, <3>2, <3>3 DEF DaemonMoves, Started
  <2> QED
    BY <1>2, <2>2, <2>3, RestartsMove DEF RestartMoves
<1>3. \A c \in Clients : RestartOK(cli[c])'
  BY <1>2 DEF RestartOK, Past
<1> QED
  BY <1>1, <1>3 DEF RestartInv

(***************************************************************************)
(* The initial states                                                      *)
(***************************************************************************)
LEMMA DaemonStarts0 ==
    Init => DaemonInv /\ DefaultIsConfigured
<1> SUFFICES ASSUME Init PROVE DaemonInv /\ DefaultIsConfigured
  OBVIOUS
<1>1. file \in FileType /\ budget \in Nat
  BY ServiceAssumption DEF Init, NoDaemon, OneDaemon, FileType, Addresses
<1>2. Unborn \in ProcType /\ Unborn.ph = "none"
  BY DEF Unborn, ProcType, Phases, Addresses, MaybeProcess
<1>3. CASE NoDaemon
  <2>1. proc = [p \in Processes |-> Unborn] /\ listener = [a \in Addresses |-> None]
    BY <1>3 DEF NoDaemon
  <2>2. DaemonTypeOK
    BY <1>1, <1>2, <1>3 DEF NoDaemon, DaemonTypeOK, MaybeProcess
  <2>3. ListenersServe
    BY <2>1, ServiceAssumption DEF ListenersServe
  <2>4. DefaultIsConfigured
    BY <1>2, <2>1 DEF DefaultIsConfigured
  <2> QED
    BY <2>2, <2>3, <2>4 DEF DaemonInv
<1>4. CASE OneDaemon
  <2>1. PICK d \in Processes : d = CHOOSE p \in Processes : TRUE
    BY ServiceAssumption
  <2>2. PICK a \in Addresses : a = file.listen
    BY <1>1 DEF FileType
  <2> DEFINE r == [Unborn EXCEPT !.ph = "serve", !.listen = a, !.inode = d]
  <2>3. /\ proc = [p \in Processes |-> IF p = d THEN r ELSE Unborn]
        /\ lockname = d /\ pidfile = d
        /\ held = [p \in Processes |-> IF p = d THEN d ELSE None]
        /\ listener = [b \in Addresses |-> IF b = a THEN d ELSE None]
    BY <1>4, <2>1, <2>2 DEF OneDaemon
  <2>4. r \in ProcType /\ r.ph = "serve" /\ r.listen = a
    BY DEF Unborn, ProcType, Phases, MaybeProcess
  <2> HIDE DEF r
  <2>5. DaemonTypeOK
    BY <1>1, <1>2, <2>3, <2>4 DEF DaemonTypeOK, MaybeProcess
  <2>6. ListenersServe
    BY <2>3, <2>4, ServiceAssumption DEF ListenersServe
  <2>7. DefaultIsConfigured
    BY <1>2, <2>2, <2>3, <2>4 DEF DefaultIsConfigured
  <2> QED
    BY <2>5, <2>6, <2>7 DEF DaemonInv
<1> QED
  BY <1>3, <1>4 DEF Init

LEMMA PluginsAndClients0 ==
    Init => PluginInv /\ ClientInv /\ \A c \in Clients : RestartOK(cli[c])
<1> SUFFICES ASSUME Init PROVE PluginInv /\ ClientInv /\ \A c \in Clients : RestartOK(cli[c])
  OBVIOUS
<1>1. Down \in PlugType /\ Down.st = "down" /\ Down.job = None
  BY DEF Down, PlugType
<1> DEFINE r == [Down EXCEPT !.st = "up", !.bin = "pinned"]
<1>2. r \in PlugType /\ r.st = "up" /\ r.bin = "pinned" /\ r.job = None
  BY DEF Down, PlugType
<1>3. \E d, up : plug = [p \in Processes |-> IF p = d /\ up THEN r ELSE Down]
  <2>1. CASE NoDaemon
    <3> HIDE DEF r
    <3>1. plug = [p \in Processes |-> IF p = 0 /\ FALSE THEN r ELSE Down]
      BY <2>1 DEF NoDaemon
    <3> QED
      BY <3>1
  <2>2. CASE OneDaemon
    <3>1. PICK d : d = CHOOSE p \in Processes : TRUE
      OBVIOUS
    <3> HIDE DEF r
    <3>2. plug \in {[p \in Processes |-> IF p = d /\ up THEN r ELSE Down] :
                       up \in {u \in BOOLEAN : u => file.plugins # {}}}
      BY <2>2, <3>1 DEF OneDaemon, r
    <3>3. PICK up \in BOOLEAN : plug = [p \in Processes |-> IF p = d /\ up THEN r ELSE Down]
      BY <3>2
    <3> QED
      BY <3>3
  <2> QED
    BY <2>1, <2>2 DEF Init
<1> HIDE DEF r
<1>4. bin = "pinned" /\ late = {} /\ cli = [c \in Clients |-> Idle]
  BY DEF Init
<1>5. PluginInv
  <2>1. PICK d, up : plug = [p \in Processes |-> IF p = d /\ up THEN r ELSE Down]
    BY <1>3
  <2>2. plug \in [Processes -> PlugType]
    BY <1>1, <1>2, <2>1
  <2>3. \A p \in Processes : plug[p] = Down \/ plug[p] = r
    BY <2>1
  <2>4. \A p \in Processes : plug[p].st = "down" \/ plug[p].bin = "pinned"
    BY <1>1, <1>2, <2>3
  <2>5. bin = "pinned"
    BY <1>4
  <2>6. PlugTypeOK
    BY <2>2, <2>5 DEF PlugTypeOK
  <2>7. VerifiedIsPinned
    BY <2>5 DEF VerifiedIsPinned
  <2>8. PluginIsPinned
    BY <2>4 DEF PluginIsPinned
  <2> QED
    BY <2>6, <2>7, <2>8 DEF PluginInv
<1>6. /\ Idle \in CliType /\ Idle.pc = "idle" /\ Idle.op = None
  BY DEF Idle, CliType, Ops, Pcs, MaybeProcess, Server, Replies, Outcomes
<1>7. None \notin {"put", "restart"} \cup Clients
  BY ServiceAssumption
<1>8. ClientInv
  <2>1. \A p \in Processes : plug[p].job = None
    BY <1>1, <1>2, <1>3
  <2> QED
    BY <1>4, <1>6, <1>7, <2>1
       DEF ClientInv, ClientTypeOK, ClientOK, LateOK, JobsArePluginCalls
<1>9. \A c \in Clients : RestartOK(cli[c])
  BY <1>4, <1>6, <1>7 DEF RestartOK
<1> QED
  BY <1>5, <1>8, <1>9

(***************************************************************************)
(* Theorems                                                                *)
(***************************************************************************)
\* The inductive invariant: listeners and the processes behind them, the
\* digest on its way to the process, the executions of each mutation
\* (process.rs, plugin.rs, client.rs).
THEOREM Invariance == Spec => []ServiceInv
<1>1. Init => ServiceInv
  BY DaemonStarts0, PluginsAndClients0 DEF ServiceInv
<1>2. ServiceInv /\ [Next]_vars => ServiceInv'
  <2>1. SUFFICES ASSUME ServiceInv, [Next]_vars PROVE ServiceInv'
    OBVIOUS
  <2>2. DaemonInv /\ PluginInv /\ ClientInv /\ ClientTypeOK /\ PlugTypeOK
    BY <2>1 DEF ServiceInv, ClientInv, PluginInv
  <2> QED
    BY <2>1, <2>2, DaemonStep, PlugStep, CommandStep DEF ServiceInv
<1> QED
  BY <1>1, <1>2, PTL DEF Spec

\* A plugin process runs the pinned executable, or its file was replaced
\* between the digest and the spawn (plugin.rs start_verified), for any number
\* of processes, restarts and replacements.
THEOREM Pinned == Spec => []PluginIsPinned
<1>1. ServiceInv => PluginIsPinned
  BY DEF ServiceInv, PluginInv
<1> QED
  BY <1>1, Invariance, PTL

\* Of a mutation: "ok" is one execution, a failure that is not called unknown
\* is none, and no path executes it twice (client.rs call, helpers.rs
\* call_with_local_start), whatever requests outlive their clients.
MutationsAreHonest ==
    \A c \in Clients : cli[c].op = "put" =>
        /\ cli[c].runs <= 1
        /\ cli[c].out = "ok" => cli[c].runs = 1
        /\ cli[c].out \in {"transport", "capability", "denied", "error"} => cli[c].runs = 0

THEOREM MutationsHonest == Spec => []MutationsAreHonest
<1>1. ServiceInv => MutationsAreHonest
  <2>1. SUFFICES ASSUME ServiceInv, NEW c \in Clients, cli[c].op = "put"
                 PROVE  /\ cli[c].runs <= 1
                        /\ cli[c].out = "ok" => cli[c].runs = 1
                        /\ cli[c].out \in {"transport", "capability", "denied", "error"}
                              => cli[c].runs = 0
    BY DEF MutationsAreHonest
  <2>2. ClientInv /\ cli[c] \in CliType /\ MutationCounts(cli[c]) /\ cli[c].pc # "idle"
    BY <2>1, ClientFacts, ServiceAssumption DEF ServiceInv, ClientOK
  <2>3. None \notin {"ok", "transport", "capability", "denied", "error"}
    BY ServiceAssumption
  <2>4. CASE cli[c].pc = "done"
    BY <2>2, <2>4 DEF MutationCounts
  <2>5. CASE cli[c].pc # "done"
    <3>1. cli[c].out = None /\ cli[c].runs \in {0, 1}
      BY <2>2, <2>5 DEF MutationCounts, CliType, Pcs
    <3> QED
      BY <2>3, <3>1
  <2> QED
    BY <2>4, <2>5
<1> QED
  BY <1>1, Invariance, PTL

\* What a command reports is true, of mutations and of restarts, when a user
\* puts no daemon on the default address unless the configuration names it.
\* Elsewhere wait_stopped (process.rs) polls another address than the one the
\* old daemon serves.
THEOREM Honest ==
    ASSUME "loopback" \in Serves => \A f \in ConfigFiles : f.listen = "loopback"
    PROVE  Spec => []OutcomeIsHonest
<1>1. Init => ServiceInv /\ RestartInv
  <2>1. Init => file \in ConfigFiles
    BY DEF Init, NoDaemon, OneDaemon
  <2> QED
    BY <2>1, DaemonStarts0, PluginsAndClients0 DEF ServiceInv, RestartInv, UsersListenElsewhere
<1>2. ServiceInv /\ ServiceInv' /\ RestartInv /\ [Next]_vars => RestartInv'
  <2>1. SUFFICES ASSUME ServiceInv, ServiceInv', RestartInv, [Next]_vars PROVE RestartInv'
    OBVIOUS
  <2>2. DaemonMoves
    BY <2>1, DaemonStep DEF ServiceInv, ClientInv
  <2> QED
    BY <2>1, <2>2, RestartStep DEF ServiceInv
<1>3. RestartInv /\ MutationsAreHonest => OutcomeIsHonest
  BY DEF RestartInv, RestartOK, MutationsAreHonest, OutcomeIsHonest
<1> QED
  BY <1>1, <1>2, <1>3, Invariance, MutationsHonest, PTL DEF Spec
=============================================================================
