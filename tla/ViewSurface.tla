----------------------------- MODULE ViewSurface -----------------------------
(***************************************************************************)
(* The portable View surface of the desktop host: the asset store, the     *)
(* windows and the requests of their webviews (view_surface.rs and main.rs *)
(* of src/apps/desktop/src-tauri, hologram-view-surface), between the View *)
(* layer that attaches and detaches (holo_view_provider.rs) and the broker *)
(* that takes intents to the application (holo_provider.rs).               *)
(*                                                                         *)
(* A View is named by its attachment token: the token hashes a process-    *)
(* wide sequence number, so every View layer has a label of its own and    *)
(* stage never finds a previous attachment under it.  The generation and   *)
(* the replacing branches of attach and rollback are dead code here.  Each *)
(* View stands for the tree it belongs to, and the gate is the invocation  *)
(* mutex of its application.                                               *)
(***************************************************************************)
EXTENDS Integers, FiniteSets

CONSTANTS
  Views,
  Before,             \* those whose application's primary starts before them
  Asks,               \* requests of webviews
  MaxWindowFaults     \* bound on the windows that fail to open or to close

ASSUME SurfaceAssumption ==
  /\ Before \subseteq Views
  /\ MaxWindowFaults \in Nat
  /\ "none" \notin Views \cup Asks /\ "stop" \notin Asks

VARIABLES
  tree,         \* the lifecycle of the tree that has View v
  layer,        \* AttachmentState of the View layer
  step,         \* what attach or detach of v waits for
  up,           \* the Views whose primary runs
  swept,        \* how the stop of the View layer went in this sweep
  attachments,  \* the Views in the asset store
  window,       \* the Views with a window
  gate,         \* who holds the invocation mutex of v's application
  ask,          \* ask[r]: a request, its target and its answer
  faults

surfaceVars == <<tree, layer, step, up, swept, attachments, window, gate, ask, faults>>

NoAsk == [phase |-> "idle", from |-> "none", host |-> "none", kind |-> "none", got |-> "none"]

SurfaceInit ==
  /\ tree = [v \in Views |-> "idle"]
  /\ layer = [v \in Views |-> "Prepared"]
  /\ step = [v \in Views |-> "rest"]
  /\ up = {}
  /\ swept = [v \in Views |-> "no"]
  /\ attachments = {} /\ window = {}
  /\ gate = [v \in Views |-> "none"]
  /\ ask = [r \in Asks |-> NoAsk]
  /\ faults = 0

-----------------------------------------------------------------------------
(* attach, called by the start of the View layer.                          *)

Begins(v) ==
  /\ tree[v] = "idle"
  /\ tree' = [tree EXCEPT ![v] = "starting"]
  /\ up' = IF v \in Before THEN up \cup {v} ELSE up
  /\ step' = [step EXCEPT ![v] = "opening"]
  /\ UNCHANGED <<layer, swept, window, gate, ask, faults>>

\* stage: the assets are in the store before there is a window.  The bundle
\* was decoded by the provider, whose paths are stricter than the store's.
StageAssets(v) == Begins(v) /\ attachments' = attachments \cup {v}

OpenWindow(v) ==
  /\ step[v] = "opening"
  /\ window' = window \cup {v}
  /\ layer' = [layer EXCEPT ![v] = "Attached"]
  /\ step' = [step EXCEPT ![v] = "rest"]
  /\ UNCHANGED <<tree, up, swept, attachments, gate, ask, faults>>

OpenFails(v) ==
  /\ step[v] = "opening" /\ faults < MaxWindowFaults
  /\ faults' = faults + 1
  /\ step' = [step EXCEPT ![v] = "undoing"]
  /\ UNCHANGED <<tree, layer, up, swept, attachments, window, gate, ask>>

\* What the failed window left is closed and the attachment rolled back; the
\* layer is still Prepared and its tree is rolled back.
RollBackAttachment(v) ==
  /\ step[v] = "undoing"
  /\ window' = window \ {v}
  /\ attachments' = attachments \ {v}
  /\ step' = [step EXCEPT ![v] = "rest"]
  /\ tree' = [tree EXCEPT ![v] = "rollback"]
  /\ UNCHANGED <<layer, up, swept, gate, ask, faults>>

\* The layers after the View: the primary may be one of them, and one of them
\* may fail.
Rest(v, phase) == tree[v] = phase /\ step[v] = "rest"

PrimaryStarts(v) ==
  /\ Rest(v, "starting") /\ v \notin up
  /\ up' = up \cup {v}
  /\ UNCHANGED <<tree, layer, step, swept, attachments, window, gate, ask, faults>>

TreeStarts(v) ==
  /\ Rest(v, "starting") /\ v \in up
  /\ tree' = [tree EXCEPT ![v] = "running"]
  /\ UNCHANGED <<layer, step, up, swept, attachments, window, gate, ask, faults>>

TreeFails(v) ==
  /\ Rest(v, "starting")
  /\ tree' = [tree EXCEPT ![v] = "rollback"]
  /\ UNCHANGED <<layer, step, up, swept, attachments, window, gate, ask, faults>>

-----------------------------------------------------------------------------
(* The sweep of a stop or of a rollback, and detach, called by it.         *)

Stopping(v) ==
  /\ tree[v] \in {"running", "failed"}
  /\ gate' = [gate EXCEPT ![v] = "stop"]
  /\ tree' = [tree EXCEPT ![v] = "stopping"]
  /\ swept' = [swept EXCEPT ![v] = "no"]
  /\ UNCHANGED <<layer, step, up, attachments, window, ask, faults>>

\* Mutant: a stop does not wait for the invocation that holds the gate.
StopAtOnce(v) == Stopping(v)

\* A stop holds the gate for the whole sweep (RunningApplication::stop); the
\* rollback of a failed start goes without it.
StopTree(v) == gate[v] = "none" /\ Stopping(v)

Sweeping(v) == Rest(v, "stopping") \/ Rest(v, "rollback")

\* Layers stop in the reverse of the order in which they started.
PrimaryStops(v) ==
  /\ Sweeping(v) /\ v \in up
  /\ v \in Before => swept[v] # "no"
  /\ up' = up \ {v}
  /\ UNCHANGED <<tree, layer, step, swept, attachments, window, gate, ask, faults>>

ViewsTurn(v) == Sweeping(v) /\ swept[v] = "no" /\ (v \in Before \/ v \notin up)

\* A View that was never attached, or is detached, has nothing to detach.
StopDetached(v) ==
  /\ ViewsTurn(v) /\ layer[v] \in {"Prepared", "Stopped"}
  /\ layer' = [layer EXCEPT ![v] = "Stopped"]
  /\ swept' = [swept EXCEPT ![v] = "ok"]
  /\ UNCHANGED <<tree, step, up, attachments, window, gate, ask, faults>>

Detach(v) ==
  /\ ViewsTurn(v) /\ layer[v] = "Attached"
  /\ attachments' = attachments \ {v}
  /\ step' = [step EXCEPT ![v] = "closing"]
  /\ UNCHANGED <<tree, layer, up, swept, window, gate, ask, faults>>

\* close: the window may be gone already.
CloseWindow(v) ==
  /\ step[v] = "closing"
  /\ window' = window \ {v}
  /\ layer' = [layer EXCEPT ![v] = "Stopped"]
  /\ swept' = [swept EXCEPT ![v] = "ok"]
  /\ step' = [step EXCEPT ![v] = "rest"]
  /\ UNCHANGED <<tree, up, attachments, gate, ask, faults>>

\* A window that does not close gets its attachment back.
CloseFails(v) ==
  /\ step[v] = "closing" /\ v \in window /\ faults < MaxWindowFaults
  /\ faults' = faults + 1
  /\ attachments' = attachments \cup {v}
  /\ swept' = [swept EXCEPT ![v] = "err"]
  /\ step' = [step EXCEPT ![v] = "rest"]
  /\ UNCHANGED <<tree, layer, up, window, gate, ask>>

\* A failed stop can be tried again; nobody comes back to a rollback.
SweepEnds(v) ==
  /\ Sweeping(v) /\ swept[v] # "no" /\ v \notin up
  /\ tree' = [tree EXCEPT ![v] =
        CASE @ = "stopping" -> IF swept[v] = "ok" THEN "stopped" ELSE "failed"
          [] @ = "rollback" -> IF swept[v] = "ok" THEN "dropped" ELSE "abandoned"]
  /\ gate' = [gate EXCEPT ![v] = IF @ = "stop" THEN "none" ELSE @]
  /\ UNCHANGED <<layer, step, up, swept, attachments, window, ask, faults>>

\* The user closes the window: it goes at once, and the stop of its session
\* is another command (stop_window in DesktopSessions).
CloseRequested(v) ==
  /\ v \in window
  /\ window' = window \ {v}
  /\ UNCHANGED <<tree, layer, step, up, swept, attachments, gate, ask, faults>>

-----------------------------------------------------------------------------
(* Requests.  The handler runs in a task of its own: the window that asked *)
(* may be gone when it looks the attachment up.                            *)

Kinds == {"asset", "unknown", "intent", "malformed"}

Request(r, v, host, kind) ==
  /\ ask[r].phase \in {"idle", "answered"} /\ v \in window
  /\ ask' = [ask EXCEPT ![r] = [NoAsk EXCEPT !.phase = "sent", !.from = v, !.host = host,
                                             !.kind = kind]]
  /\ UNCHANGED <<tree, layer, step, up, swept, attachments, window, gate, faults>>

\* The label of the webview names the attachment, and the origin has to be
\* its own.
Admits(r) == ask[r].from \in attachments /\ ask[r].host = ask[r].from

Answer(r, got) == ask' = [ask EXCEPT ![r].phase = "answered", ![r].got = got]

\* lookup: an asset of the attachment, or an error.
LookUp(r) ==
  /\ ask[r].phase = "sent" /\ ask[r].kind \in {"asset", "unknown"}
  /\ Answer(r, IF Admits(r) /\ ask[r].kind = "asset" THEN ask[r].host ELSE "error")
  /\ UNCHANGED <<tree, layer, step, up, swept, attachments, window, gate, faults>>

\* intent_response up to the broker, which keeps the handler it was given
\* whatever becomes of the attachment, and refuses what is out of bounds.
IntentTarget(r) ==
  /\ ask[r].phase = "sent" /\ ask[r].kind \in {"intent", "malformed"}
  /\ IF Admits(r) /\ ask[r].kind = "intent"
     THEN ask' = [ask EXCEPT ![r].phase = "queued"]
     ELSE Answer(r, "error")
  /\ UNCHANGED <<tree, layer, step, up, swept, attachments, window, gate, faults>>

\* A primary that does not run refuses.
IntentEnters(r) ==
  /\ ask[r].phase = "queued" /\ gate[ask[r].host] = "none"
  /\ IF ask[r].host \in up
     THEN /\ gate' = [gate EXCEPT ![ask[r].host] = r]
          /\ ask' = [ask EXCEPT ![r].phase = "invoking"]
     ELSE Answer(r, "error") /\ UNCHANGED gate
  /\ UNCHANGED <<tree, layer, step, up, swept, attachments, window, faults>>

\* The primary fails, its outputs exceed the bounds of an intent, or they are
\* the answer.
IntentReturns(r) ==
  /\ ask[r].phase = "invoking"
  /\ \E got \in {"error", ask[r].host} : Answer(r, got)
  /\ gate' = [gate EXCEPT ![ask[r].host] = IF @ = r THEN "none" ELSE @]
  /\ UNCHANGED <<tree, layer, step, up, swept, attachments, window, faults>>

SurfaceNext ==
  \/ \E v \in Views :
       \/ StageAssets(v) \/ OpenWindow(v) \/ OpenFails(v) \/ RollBackAttachment(v)
       \/ PrimaryStarts(v) \/ TreeStarts(v) \/ TreeFails(v)
       \/ StopTree(v) \/ PrimaryStops(v) \/ StopDetached(v) \/ Detach(v)
       \/ CloseWindow(v) \/ CloseFails(v) \/ SweepEnds(v) \/ CloseRequested(v)
  \/ \E r \in Asks :
       \/ \E v, host \in Views, kind \in Kinds : Request(r, v, host, kind)
       \/ LookUp(r) \/ IntentTarget(r) \/ IntentEnters(r) \/ IntentReturns(r)

-----------------------------------------------------------------------------
(* Properties.                                                             *)

\* A window is served for as long as nobody is closing it, whichever of the
\* two sides failed: its attachment is there before it opens and comes back
\* when it does not close; a layer at rest in Attached has the attachment its
\* next stop looks for; and a tree that has ended leaves neither (attach and
\* detach).  A webview gets the assets and the outputs of its own View or an
\* error, and its intent runs with that View attached: a stop waits for the
\* gate before it detaches; only the rollback of a failed start does not
\* (intent_response, RunningApplication::stop).
WindowsAreServed ==
  /\ \A v \in Views :
       /\ v \in window => v \in attachments \/ step[v] = "closing"
       /\ layer[v] = "Attached" /\ step[v] = "rest" => v \in attachments
       /\ tree[v] \in {"stopped", "dropped"} => v \notin attachments \cup window
  /\ \A r \in Asks :
       /\ ask[r].got \in {"none", "error", ask[r].from}
       /\ ask[r].phase = "invoking" /\ ask[r].host \notin attachments =>
            tree[ask[r].host] \in {"rollback", "dropped"}
=============================================================================
