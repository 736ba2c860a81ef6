------------------------------ MODULE Service ------------------------------
(***************************************************************************)
(* The daemon as a process and the commands that talk to it: the           *)
(* configuration file (config.rs), the lock and pid files (process.rs),    *)
(* start-up of modules and plugins (app.rs, module.rs, plugin.rs), the     *)
(* listener and shutdown (server.rs), the routing client (client.rs) and   *)
(* the start, stop, restart and call commands (cli/).                      *)
(*                                                                         *)
(* An inode of the lock file is named by the process that created it.      *)
(* Several daemons, commands, crashes, lost requests and expired waits     *)
(* interleave freely; every number of them is bounded by a constant.       *)
(***************************************************************************)
EXTENDS Integers, Sequences, FiniteSets, Relation

CONSTANTS
    Processes,      \* process identities a daemon may get
    Clients,        \* command-line invocations
    Commands,       \* Commands[c]: the commands client c may be
    ConfigFiles,    \* configuration files the host may have
    Serves,         \* listen addresses a user gives `hologram serve`
    BuiltinModules, \* the builtin modules: id |-> [deps, operations]
    Preference,     \* client.preference, with a remote target configured
    ReadFallback,   \* client.allow_read_fallback
    RemoteOps,      \* what the remote target offers
    MaxRestarts,    \* MAX_RESTARTS of a plugin call
    MaxEvents,      \* bound on crashes, replaced plugin files and serves by hand
    None

\* Targets, start-up messages and what a command or a call reports are no
\* processes, clients or missing values; schemas are numbered.
ASSUME ServiceAssumption ==
    /\ Processes # {}
    /\ "start" \notin Clients \cup {None}
    /\ None \notin Processes \cup Clients \cup
                {"remote", "put", "restart", "plugin", "ok", "capability", "error",
                 "transport", "unknown", "denied"}
    /\ Serves \subseteq {"loopback", "public"}
    /\ MaxEvents \in Nat
    /\ ConfigFiles \subseteq
          [schema : Nat, listen : {"loopback", "public"}, auth : BOOLEAN, token : BOOLEAN,
           grant : BOOLEAN, limits : BOOLEAN, plugins : SUBSET STRING, pinned : BOOLEAN,
           extra : SUBSET Nat, enabled : SUBSET STRING]

VARIABLES
    file,     \* the configuration file
    proc,     \* proc[p]: a daemon process
    lockname, \* the inode hologram.lock names, or None
    held,     \* held[i]: the process whose OS lock is on inode i, or None
    pidfile,  \* the process hologram.pid names, or None
    listener, \* listener[a]: the process bound to address a, or None
    plug,     \* plug[p]: the plugin supervisor of process p
    bin,      \* what the plugin's executable file holds
    cli,      \* cli[c]: a command
    late,     \* requests whose client has given up, still at a server
    budget    \* events left

vars == <<file, proc, lockname, held, pidfile, listener, plug, bin, cli, late, budget>>

Addresses == {"loopback", "public"}
CurrentSchema == 2
MinimumSchema == 1

(***************************************************************************)
(* Configuration                                                           *)
(***************************************************************************)
\* migrate: an older readable schema is restamped, a newer one is refused.
Migrates(c) == c.schema \in MinimumSchema .. CurrentSchema

\* persist_upgrade: what goes back to disk, restamped and without retired keys.
Upgraded(c) == [c EXCEPT !.schema = CurrentSchema, !.extra = {}]

\* from_source: a key this schema does not know is refused, unless it was
\* retired after the file's own schema, in which case it is dropped.
Parses(c) == \A k \in c.extra : k > c.schema

\* validate_plugins: no builtin's id, and a pinned digest on each.
ValidPlugins(c) == c.plugins \cap DOMAIN BuiltinModules = {} /\ c.pinned

\* validate, on the configuration as the environment and --listen override it;
\* `limits` stands for the checks of a single value (sizes, formats, URLs).
ValidConfig(c, listen) ==
    /\ listen = "public" => c.auth /\ ~c.grant
    /\ c.auth => c.token
    /\ c.limits
    /\ ValidPlugins(c)

\* load: parse, migrate and write back, then override, then validate.
Loads(c, listen) == Parses(c) /\ Migrates(c) /\ ValidConfig(c, listen)
LoadFile(c) == IF Parses(c) /\ Migrates(c) THEN Upgraded(c) ELSE c

\* serve: the file as loaded, and once more after --listen replaced its address.
ServeLoads(c, listen) == Loads(c, c.listen) /\ ValidConfig(c, listen)

(***************************************************************************)
(* Modules                                                                 *)
(***************************************************************************)
\* ModuleRegistry::build and visit: every enabled module known, its
\* dependencies enabled, no cycle, and no operation provided twice.
BuildsModules(enabled) ==
    /\ enabled \subseteq DOMAIN BuiltinModules
    /\ \A m \in enabled : BuiltinModules[m].deps \subseteq enabled
    /\ LET needs == [m, d \in enabled |-> d \in BuiltinModules[m].deps]
       IN  IsIrreflexive(TransitiveClosure(needs, enabled), enabled)
    /\ \A m, n \in enabled :
          m # n => BuiltinModules[m].operations \cap BuiltinModules[n].operations = {}

\* capability_manifest: the operations of a target's handshake.
LocalOps == UNION {BuiltinModules[m].operations : m \in file.enabled}
Offers(e) == IF e = "local" THEN LocalOps ELSE RemoteOps

(***************************************************************************)
(* State                                                                   *)
(***************************************************************************)
Down == [st |-> "down", bin |-> None, swapped |-> FALSE, restarts |-> 0, job |-> None]
Unborn == [ph |-> "none", listen |-> "loopback", inode |-> None,
           waits |-> FALSE, stop |-> FALSE]
Idle == [op |-> None, pc |-> "idle", prev |-> None, first |-> None, child |-> None,
         ep |-> 1, missed |-> FALSE, again |-> FALSE, known |-> {}, at |-> None,
         reply |-> None, runs |-> 0, out |-> None]

Phases == {"none", "load", "open", "try", "locked", "owner", "build", "bind", "serve",
           "drain", "retire", "unpid", "unlinked", "gone"}
Replies == {"ok", "capability", "error"}
Outcomes == Replies \cup {"transport", "unknown", "denied"}
Server == Processes \cup {"remote"}
MaybeProcess == Processes \cup {None}

\* A host with a configuration file, on which no daemon runs, or one that has
\* just bound the configured address.
NoDaemon ==
    /\ file \in ConfigFiles
    /\ proc = [p \in Processes |-> Unborn]
    /\ lockname = None /\ pidfile = None
    /\ held = [p \in Processes |-> None]
    /\ listener = [a \in Addresses |-> None]
    /\ plug = [p \in Processes |-> Down]

OneDaemon ==
    LET d == CHOOSE p \in Processes : TRUE IN
    /\ file \in {c \in ConfigFiles : c.schema = CurrentSchema /\ Loads(c, c.listen)
                                       /\ BuildsModules(c.enabled)}
    /\ proc = [p \in Processes |->
                 IF p = d THEN [Unborn EXCEPT !.ph = "serve", !.listen = file.listen, !.inode = d]
                 ELSE Unborn]
    /\ lockname = d /\ pidfile = d
    /\ held = [p \in Processes |-> IF p = d THEN d ELSE None]
    /\ listener = [a \in Addresses |-> IF a = file.listen THEN d ELSE None]
    /\ plug \in {[p \in Processes |-> IF p = d /\ up THEN [Down EXCEPT !.st = "up", !.bin = "pinned"]
                                      ELSE Down] :
                   up \in {u \in BOOLEAN : u => file.plugins # {}}}

Init ==
    /\ NoDaemon \/ OneDaemon
    /\ bin = "pinned"
    /\ cli = [c \in Clients |-> Idle]
    /\ late = {}
    /\ budget = MaxEvents

Goto(p, ph) == proc' = [proc EXCEPT ![p].ph = ph]
daemonVars == <<proc, lockname, held, pidfile, listener>>
pluginVars == <<plug, bin>>
clientVars == <<cli, late>>

(***************************************************************************)
(* A daemon process, from `hologram serve` to the release of its files     *)
(***************************************************************************)
\* The next process identity; they are interchangeable.
SomeUnborn == \E p \in Processes : proc[p].ph = "none"
Fresh == CHOOSE p \in Processes : proc[p].ph = "none"

\* A user runs `hologram serve --listen a`.
ServeByHand(a) ==
    /\ SomeUnborn /\ budget > 0
    /\ proc' = [proc EXCEPT ![Fresh] = [Unborn EXCEPT !.ph = "load", !.listen = a]]
    /\ budget' = budget - 1
    /\ UNCHANGED <<file, lockname, held, pidfile, listener, pluginVars, clientVars>>

LoadConfig(p) ==
    /\ proc[p].ph = "load"
    /\ Goto(p, IF ServeLoads(file, proc[p].listen) THEN "open" ELSE "gone")
    /\ file' = LoadFile(file)
    /\ UNCHANGED <<lockname, held, pidfile, listener, pluginVars, clientVars, budget>>

\* DaemonGuard::acquire opens the lock file, creating it when it has no name ...
OpenLock(p) ==
    /\ proc[p].ph = "open"
    /\ LET i == IF lockname = None THEN p ELSE lockname
       IN  /\ proc' = [proc EXCEPT ![p].ph = "try", ![p].inode = i]
           /\ lockname' = i
    /\ UNCHANGED <<file, held, pidfile, listener, pluginVars, clientVars, budget>>

\* ... takes the OS lock of the inode it opened, or ends in a conflict ...
TryLock(p) ==
    LET i == proc[p].inode IN
    /\ proc[p].ph = "try"
    /\ IF held[i] = None
       THEN held' = [held EXCEPT ![i] = p] /\ Goto(p, "locked")
       ELSE held' = held /\ Goto(p, "gone")
    /\ UNCHANGED <<file, lockname, pidfile, listener, pluginVars, clientVars, budget>>

\* ... and writes its pid.
WritePid(p) ==
    /\ proc[p].ph = "locked"
    /\ pidfile' = p
    /\ Goto(p, "owner")
    /\ UNCHANGED <<file, lockname, held, listener, pluginVars, clientVars, budget>>

\* AppState::build: modules, then every plugin of the allowlist is started.
Build(p) ==
    /\ proc[p].ph = "owner"
    /\ \/ /\ BuildsModules(file.enabled)
          /\ IF file.plugins = {}
             THEN Goto(p, "bind") /\ plug' = plug
             ELSE Goto(p, "build") /\ plug' = [plug EXCEPT ![p].job = "start"]
       \/ Goto(p, "retire") /\ plug' = plug
    /\ UNCHANGED <<file, lockname, held, pidfile, listener, bin, clientVars, budget>>

\* A failed plugin is recorded and never keeps the daemon from being built;
\* declared residents that fail to load are skipped likewise.
Built(p) ==
    /\ proc[p].ph = "build" /\ plug[p].job = None
    /\ Goto(p, "bind")
    /\ UNCHANGED <<file, lockname, held, pidfile, listener, pluginVars, clientVars, budget>>

Bind(p) ==
    LET a == proc[p].listen IN  \* it may be taken by a program that is no daemon
    /\ proc[p].ph = "bind"
    /\ \/ /\ listener[a] = None
          /\ listener' = [listener EXCEPT ![a] = p] /\ Goto(p, "serve") /\ plug' = plug
       \/ listener' = listener /\ Goto(p, "retire") /\ plug' = [plug EXCEPT ![p] = Down]
    /\ UNCHANGED <<file, lockname, held, pidfile, bin, clientVars, budget>>

\* axum's shutdown task is polled for the first time and waits on the Notify.
AwaitShutdown(p) ==
    /\ proc[p].ph = "serve" /\ ~proc[p].waits
    /\ proc' = [proc EXCEPT ![p].waits = TRUE]
    /\ UNCHANGED <<file, lockname, held, pidfile, listener, pluginVars, clientVars, budget>>

CloseListener(p) ==
    /\ proc[p].ph = "serve" /\ proc[p].stop
    /\ listener' = [listener EXCEPT ![proc[p].listen] = None]
    /\ Goto(p, "drain")
    /\ UNCHANGED <<file, lockname, held, pidfile, pluginVars, clientVars, budget>>

\* Mutant: the drain also waits for requests whose client has gone away.
InFlightOrLate(p) ==
    \/ \E c \in Clients : cli[c].pc = "flight" /\ cli[c].at = p
    \/ \E c \in Clients : <<c, p>> \in late

InFlight(p) == \E c \in Clients : cli[c].pc = "flight" /\ cli[c].at = p

\* The drain is over: the engine and the plugins are stopped, the audit log
\* is flushed. Resident applications are left as they are.
Drained(p) ==
    /\ proc[p].ph = "drain" /\ ~InFlight(p)
    /\ Goto(p, "retire")
    /\ plug' = [plug EXCEPT ![p] = Down]
    /\ UNCHANGED <<file, lockname, held, pidfile, listener, bin, clientVars, budget>>

\* DaemonGuard::drop removes both names, whoever they belong to by now ...
RemovePid(p) ==
    /\ proc[p].ph = "retire"
    /\ pidfile' = None
    /\ Goto(p, "unpid")
    /\ UNCHANGED <<file, lockname, held, listener, pluginVars, clientVars, budget>>

UnlinkLock(p) ==
    /\ proc[p].ph = "unpid"
    /\ lockname' = None
    /\ Goto(p, "unlinked")
    /\ UNCHANGED <<file, held, pidfile, listener, pluginVars, clientVars, budget>>

\* ... and the process ends: the OS releases its lock and its listener.
Ends(p) ==
    /\ held' = [i \in Processes |-> IF held[i] = p THEN None ELSE held[i]]
    /\ listener' = [a \in Addresses |-> IF listener[a] = p THEN None ELSE listener[a]]
    /\ plug' = [plug EXCEPT ![p] = Down]
    /\ late' = {r \in late : r[2] # p}
    /\ proc' = [proc EXCEPT ![p] = [Unborn EXCEPT !.ph = "gone"]]

Release(p) ==
    /\ proc[p].ph = "unlinked"
    /\ Ends(p)
    /\ UNCHANGED <<file, lockname, pidfile, bin, cli, budget>>

\* The process dies: its files stay, its lock does not.
Crash(p) ==
    /\ proc[p].ph \notin {"none", "gone"} /\ budget > 0
    /\ budget' = budget - 1
    /\ Ends(p)
    /\ UNCHANGED <<file, lockname, pidfile, bin, cli>>

(***************************************************************************)
(* The plugin supervisor of a daemon. Its actor handles one message at a   *)
(* time: the start at build time, or a client's Invoke.                    *)
(***************************************************************************)
PluginStep(p, r) ==
    /\ plug' = [plug EXCEPT ![p] = r]
    /\ UNCHANGED <<file, daemonVars, bin, late, budget>>

\* The message ends: an Invoke answers its client, if it still waits.
Answer(p, reply) ==
    LET c == plug[p].job IN
    cli' = IF c \in Clients /\ cli[c].pc = "flight" /\ cli[c].at = p
           THEN [cli EXCEPT ![c].reply = reply] ELSE cli

\* Mutant: the digest is checked before the first spawn only.
VerifiesFirst(p) == bin = "pinned" \/ plug[p].restarts > 0

\* verify_sha256, before every spawn.
Verifies(p) == bin = "pinned"

VerifyPlugin(p) ==
    /\ plug[p].job # None /\ plug[p].st = "down" /\ Verifies(p)
    /\ PluginStep(p, [plug[p] EXCEPT !.st = "verified"])
    /\ cli' = cli

SpawnPlugin(p) ==
    /\ plug[p].st = "verified"
    /\ PluginStep(p, [plug[p] EXCEPT !.st = "spawned", !.bin = bin])
    /\ cli' = cli

\* connect, then Describe (id and protocol) and Ping: only then is there a client.
HandshakePlugin(p) ==
    /\ plug[p].st = "spawned"
    /\ PluginStep(p, [plug[p] EXCEPT !.st = "up", !.job = IF @ = "start" THEN None ELSE @])
    /\ cli' = cli

\* Any step of start fails: the child is torn down and the message ends.
StartFails(p) ==
    /\ plug[p].job # None /\ plug[p].st # "up"
    /\ Answer(p, "error")
    /\ PluginStep(p, Down)

\* The child executes the operation and its answer arrives, or refuses it.
InvokePlugin(p) ==
    LET c == plug[p].job IN
    /\ c \in Clients /\ plug[p].st = "up"
    /\ PluginStep(p, [plug[p] EXCEPT !.job = None, !.restarts = 0])
    /\ \/ Answer(p, "error")
       \/ Answer(p, "ok")

\* The transport breaks, after the operation ran or before: the child is torn
\* down and the operation sent again, MaxRestarts times for one message.
BreakPlugin(p) ==
    LET c == plug[p].job IN
    /\ c \in Clients /\ plug[p].st = "up"
    /\ IF plug[p].restarts < MaxRestarts
       THEN /\ PluginStep(p, [Down EXCEPT !.restarts = plug[p].restarts + 1, !.job = c])
            /\ cli' = cli
       ELSE /\ PluginStep(p, [plug[p] EXCEPT !.job = None, !.restarts = 0])
            /\ Answer(p, "error")

\* Something outside replaces the plugin's executable.
SwapBinary ==
    /\ budget > 0 /\ bin = "pinned"
    /\ bin' = "other"
    /\ plug' = [p \in Processes |-> [plug[p] EXCEPT !.swapped = @ \/ plug[p].st = "verified"]]
    /\ budget' = budget - 1
    /\ UNCHANGED <<file, daemonVars, clientVars>>

(***************************************************************************)
(* The routing client and the commands                                     *)
(***************************************************************************)
Operation(op) == IF op \in {"stop", "restart"} THEN "shutdown" ELSE op
IsRead(op) == op = "get"
Set(c, k) ==
    /\ cli' = [cli EXCEPT ![c] = k]
    /\ UNCHANGED <<file, daemonVars, pluginVars, late, budget>>
Finished(k, out) ==
    [Idle EXCEPT !.op = k.op, !.pc = "done", !.first = k.first, !.runs = k.runs, !.out = out]

\* stop takes an unreachable daemon for a stopped one.
StopOutcome(out) == IF out = "transport" THEN "ok" ELSE out

\* What a command does with the outcome of LiveClient::call. A call that did
\* not reach a server that offers the operation starts the local daemon and is
\* made once more; restart ignores the outcome.
AfterCall(k, out) ==
    CASE k.op = "restart" -> [k EXCEPT !.pc = "stopwait", !.at = None, !.reply = None]
      [] k.op = "stop" -> Finished(k, StopOutcome(out))
      [] OTHER ->
           IF out \in {"transport", "capability"} /\ ~k.again
           THEN [k EXCEPT !.pc = "isready", !.again = TRUE, !.ep = 1, !.missed = FALSE,
                          !.at = None, !.reply = None]
           ELSE Finished(k, out)

\* from_config: the targets in order of preference.
Endpoints == IF Preference = "local" THEN <<"local", "remote">> ELSE <<"remote", "local">>

NextTarget(k) ==
    IF k.ep < Len(Endpoints)
    THEN [k EXCEPT !.pc = "hand", !.ep = @ + 1, !.at = None, !.reply = None]
    ELSE AfterCall(k, IF k.missed THEN "capability" ELSE "transport")

Reachable(e) == e = "remote" \/ listener["loopback"] # None

\* A command begins by loading the configuration.
Begin(c, op) ==
    /\ cli[c].pc = "idle"
    /\ file' = LoadFile(file)
    /\ cli' = [cli EXCEPT ![c] =
          IF ~Loads(file, file.listen) THEN Finished([Idle EXCEPT !.op = op], "error")
          ELSE [Idle EXCEPT !.op = op, !.pc = IF op = "start" THEN "isready" ELSE "hand",
                            !.prev = IF op = "restart" THEN pidfile ELSE None,
                            !.first = IF op = "restart" THEN listener["loopback"] ELSE None]]
    /\ UNCHANGED <<daemonVars, pluginVars, late, budget>>

\* handshake: a cached manifest, or the target's own.
Handshake(c) ==
    LET k == cli[c]
        e == Endpoints[k.ep]
        met == [k EXCEPT !.known = @ \cup {e}] IN
    /\ k.pc = "hand"
    /\ e \in k.known \/ Reachable(e)
    /\ Set(c, IF Operation(k.op) \in Offers(e) THEN [met EXCEPT !.pc = "send"]
              ELSE NextTarget([met EXCEPT !.missed = TRUE]))

\* The target cannot be reached (a local listener that accepts, answers).
HandshakeFails(c) ==
    LET k == cli[c] IN
    /\ k.pc = "hand" /\ Endpoints[k.ep] \notin k.known
    /\ Endpoints[k.ep] = "local" => ~Reachable("local")
    /\ Set(c, IF IsRead(k.op) /\ ReadFallback THEN NextTarget(k) ELSE AfterCall(k, "transport"))

\* The remote target refuses the token, at the handshake or at the request.
Denied(c) ==
    /\ cli[c].pc \in {"hand", "send"} /\ Endpoints[cli[c].ep] = "remote"
    /\ Set(c, AfterCall(cli[c], "denied"))

Send(c) ==
    LET k == cli[c]
        e == Endpoints[k.ep] IN
    /\ k.pc = "send" /\ Reachable(e)
    /\ Set(c, [k EXCEPT !.pc = "flight",
                        !.at = IF e = "local" THEN listener["loopback"] ELSE e])

\* Mutant: a mutation whose fate is unknown is tried on the next target.
AfterSendFailsOver(k) == NextTarget(k)

\* The request or its answer is lost. A read falls back; what a mutation did
\* is unknown, and it is sent nowhere else.
AfterSendFails(k) ==
    IF ~IsRead(k.op) THEN AfterCall(k, "unknown")
    ELSE IF ReadFallback THEN NextTarget(k) ELSE AfterCall(k, "transport")

\* The client gives up, at connect or while it waits; a request that has
\* reached a server may still be executed there (a late read changes nothing).
SendFails(c) ==
    LET k == cli[c] IN
    /\ k.pc \in {"send", "flight"}
    /\ cli' = [cli EXCEPT ![c] = AfterSendFails(k)]
    /\ late' = IF k.pc = "flight" /\ k.at \in Processes /\ k.reply = None /\ ~IsRead(k.op)
                  /\ plug[k.at].job # c /\ proc[k.at].ph # "gone"
               THEN late \cup {<<c, k.at>>} ELSE late
    /\ UNCHANGED <<file, daemonVars, pluginVars, budget>>

\* dispatch at server p: Shutdown wakes the server if it already waits (a
\* Notify keeps no permit), plugin.call goes to the supervisor's mailbox,
\* anything else runs to its end or is refused.
Dispatch(c, p) ==
    LET op == Operation(cli[c].op)
        live == cli[c].pc = "flight" /\ cli[c].at = p
        Done(reply, n) == [cli EXCEPT ![c].runs = @ + (IF op = "put" THEN n ELSE 0),
                                      ![c].reply = IF live THEN reply ELSE @] IN
    IF op \notin LocalOps \/ (op = "plugin" /\ file.plugins = {})
    THEN cli' = Done("capability", 0) /\ UNCHANGED <<proc, plug>>
    ELSE CASE op = "shutdown" ->
                /\ cli' = Done("ok", 0)
                /\ proc' = [proc EXCEPT ![p].stop = @ \/ proc[p].waits]
                /\ UNCHANGED plug
           [] op = "plugin" ->
                /\ plug[p].job = None
                /\ plug' = [plug EXCEPT ![p].job = c]
                /\ UNCHANGED <<proc, cli>>
           [] OTHER ->
                /\ \/ cli' = Done("ok", 1)
                   \/ cli' = Done("error", 0)
                /\ UNCHANGED <<proc, plug>>

Serving(p) == proc[p].ph \in {"serve", "drain"}

Execute(c) ==
    LET k == cli[c] IN
    /\ k.pc = "flight" /\ k.at \in Processes /\ k.reply = None
    /\ Serving(k.at) /\ plug[k.at].job # c
    /\ Dispatch(c, k.at)
    /\ UNCHANGED <<file, lockname, held, pidfile, listener, bin, late, budget>>

\* A request nobody waits for any more is executed all the same.
ExecuteLate(c, p) ==
    /\ <<c, p>> \in late /\ Serving(p)
    /\ Dispatch(c, p)
    /\ late' = late \ {<<c, p>>}
    /\ UNCHANGED <<file, lockname, held, pidfile, listener, bin, budget>>

ExecuteRemotely(c) ==
    LET k == cli[c] IN
    /\ k.pc = "flight" /\ k.at = "remote" /\ k.reply = None
    /\ \E r \in {[reply |-> "ok", n |-> 1], [reply |-> "error", n |-> 0]} :
          Set(c, [k EXCEPT !.reply = r.reply, !.runs = @ + (IF k.op = "put" THEN r.n ELSE 0)])

Receive(c) ==
    /\ cli[c].pc = "flight" /\ cli[c].reply # None
    /\ Set(c, AfterCall(cli[c], cli[c].reply))

\* What follows once a daemon answers: start and restart are over, a call is
\* made again with the manifests it already has.
Ready(k) ==
    IF k.op \in {"start", "restart"} THEN Finished(k, "ok")
    ELSE [k EXCEPT !.pc = "hand", !.child = None]

\* ensure_daemon and start_daemon: nothing to do when a daemon answers, else a
\* child is spawned (or the spawn fails).
EnsureDaemon(c) ==
    LET k == cli[c] IN
    /\ k.pc = "isready"
    /\ \/ /\ listener[file.listen] # None
          /\ Set(c, Ready(k))
       \/ /\ listener[file.listen] = None
          /\ SomeUnborn
          /\ proc' = [proc EXCEPT ![Fresh] = [Unborn EXCEPT !.ph = "load", !.listen = file.listen]]
          /\ cli' = [cli EXCEPT ![c].pc = "await", ![c].child = Fresh]
          /\ UNCHANGED <<file, lockname, held, pidfile, listener, pluginVars, late, budget>>
       \/ /\ listener[file.listen] = None /\ ~SomeUnborn
          /\ Set(c, Finished(k, "error"))

\* The child has exited, or the readiness budget is spent.
ChildFailed(c) == proc[cli[c].child].ph = "gone"
ReadyTimeout(c) == proc[cli[c].child].ph # "gone"

\* wait_ready: any listener on the address counts as the child's.
AwaitReady(c) ==
    LET k == cli[c] IN
    /\ k.pc = "await"
    /\ \/ listener[file.listen] # None /\ Set(c, Ready(k))
       \/ listener[file.listen] = None /\ ChildFailed(c) /\ Set(c, Finished(k, "transport"))
       \/ /\ listener[file.listen] = None /\ ReadyTimeout(c)
          /\ Ends(k.child)
          /\ cli' = [cli EXCEPT ![c] = Finished(k, "transport")]
          /\ UNCHANGED <<file, lockname, pidfile, bin, budget>>

StopTimeout(k) == Finished(k, "transport")

\* wait_stopped: the listener is closed and the pid file no longer names the
\* previous owner.
WaitStopped(c) ==
    LET k == cli[c] IN
    /\ k.pc = "stopwait"
    /\ \/ /\ listener[file.listen] = None
          /\ k.prev = None \/ pidfile # k.prev
          /\ Set(c, [k EXCEPT !.pc = "isready"])
       \/ Set(c, StopTimeout(k))

ProcessStep(p) ==
    \/ LoadConfig(p) \/ OpenLock(p) \/ TryLock(p) \/ WritePid(p) \/ Build(p) \/ Built(p)
    \/ Bind(p) \/ AwaitShutdown(p) \/ CloseListener(p) \/ Drained(p)
    \/ RemovePid(p) \/ UnlinkLock(p) \/ Release(p)
    \/ VerifyPlugin(p) \/ SpawnPlugin(p) \/ HandshakePlugin(p) \/ StartFails(p)
    \/ InvokePlugin(p) \/ BreakPlugin(p)

ClientStep(c) ==
    \/ Handshake(c) \/ HandshakeFails(c) \/ Denied(c) \/ Send(c) \/ SendFails(c)
    \/ Execute(c) \/ ExecuteRemotely(c) \/ Receive(c)
    \/ EnsureDaemon(c) \/ AwaitReady(c) \/ WaitStopped(c)

\* A step that only the process itself and the plugin's file can see (loading,
\* building), the pid written under a lock just taken and the exit after the
\* lock's name is gone are not interleaved with the steps of others: they
\* commute with them.
Settling(p) == proc[p].ph \in {"load", "locked", "owner", "build", "unlinked"}
Settled == \A p \in Processes : ~Settling(p)

Next ==
    \/ \E p \in Processes : (Settled \/ Settling(p)) /\ ProcessStep(p)
    \/ \E p \in Processes : Settled /\ Crash(p)
    \/ \E a \in Serves : Settled /\ ServeByHand(a)
    \/ \E c \in Clients : Settled /\ ClientStep(c)
    \/ \E c \in Clients : \E op \in Commands[c] : Settled /\ Begin(c, op)
    \/ \E c \in Clients, p \in Processes : Settled /\ ExecuteLate(c, p)
    \/ SwapBinary

Fairness ==
    /\ \A p \in Processes : WF_vars(ProcessStep(p))
    /\ \A c \in Clients : WF_vars(ClientStep(c))

Spec == Init /\ [][Next]_vars /\ Fairness

(***************************************************************************)
(* Properties                                                              *)
(***************************************************************************)
\* What a command reports is true. Of a mutation: "ok" was executed exactly
\* once, an error that names no unknown state means no server executed it, and
\* neither fallback, nor retry after starting the daemon, nor a request that
\* outlives its client ever executes it twice (client.rs call,
\* helpers.rs call_with_local_start). Of a restart: the daemon that answered
\* when it began listens no more (restart.rs, process.rs wait_stopped).
OutcomeIsHonest ==
    \A c \in Clients :
        /\ cli[c].op = "put" =>
             /\ cli[c].runs <= 1
             /\ cli[c].out = "ok" => cli[c].runs = 1
             /\ cli[c].out \in {"transport", "capability", "denied", "error"} => cli[c].runs = 0
        /\ cli[c].op = "restart" /\ cli[c].out = "ok" /\ cli[c].first # None
             => listener["loopback"] # cli[c].first

\* A plugin process runs the pinned executable, also after restarts; the only
\* way around it is a file replaced between the digest and the spawn of the
\* same start (plugin.rs start_verified).
PluginIsPinned ==
    \A p \in Processes :
        plug[p].st \in {"spawned", "up"} /\ plug[p].bin # "pinned" => plug[p].swapped

\* Every command returns: each wait of it ends by itself or by its deadline
\* (process.rs wait_ready, wait_stopped; client.rs timeouts). And a daemon that
\* has taken a shutdown request ends and releases its lock, whatever its
\* clients do: again and again none is left that was asked to stop and still
\* runs (server.rs serve_with_ready).
StopsAndCommandsEnd ==
    /\ []<>(\A c \in Clients : cli[c].pc \in {"idle", "done"})
    /\ []<>(\A p \in Processes : ~proc[p].stop)
=============================================================================
