------------------------------- MODULE AppInit -------------------------------
(***************************************************************************)
(* `hologram app init` (cli/app.rs): a source manifest from flags, from    *)
(* the answers to prompts or from the Python template, validated with the  *)
(* compiler's rules (HoloCompile) and written with atomic_write.  Several  *)
(* generators may work in one directory, and a prompt can take for ever.   *)
(*                                                                         *)
(* The flags: given are the optional layer fields among them, entry and    *)
(* contract their values; 0 is no --primary, primaries count from 1;       *)
(* project stands for --project and --lock; children and delegations are   *)
(* the numbers of --child and --child-capabilities.                        *)
(***************************************************************************)
EXTENDS HoloCompile

CONSTANTS
    Generators,    \* processes of app init
    Terminals,     \* those that run on a terminal
    Flags,         \* the command lines they are called with
    Chosen,        \* the contracts, entries and surfaces a user may type
    MaxInits, MaxPrompted    \* bounds on the commands and on the layers of one

ASSUME InitAssumption ==
    /\ Terminals \subseteq Generators /\ MaxInits \in Nat /\ MaxPrompted \in Nat
    /\ \A f \in Flags : f.primary \in Nat

VARIABLES
    text,      \* hologram.json: a manifest, or NoText
    init,      \* init[g]: what generator g is doing
    inits,     \* the number of commands started
    refused    \* the last command that ended with a configuration error

initVars == <<text, init, inits, refused>>

NoText == [schema |-> 0]
IdleInit == [phase |-> "idle"]

AppInitInit ==
    /\ text = NoText /\ inits = 0 /\ refused = IdleInit
    /\ init = [g \in Generators |-> IdleInit]

--------------------------------------------------------------------------------
(* Layers *)

SourceLayer(kind, from, given, contract, entry, surface) ==
    [kind |-> kind, from |-> from, given |-> given, contract |-> contract,
     entry |-> entry, surface |-> surface]

\* Mutant: only the plain component contract has an entry of its own.
DefaultWasmEntryPlain(contract) == IF contract = "component@1" THEN "run" ELSE "holo_run"

(* default_wasm_entry: every component contract but store-graph-read@1. *)
DefaultWasmEntry(contract) ==
    IF contract \in ComponentContracts \ {"store-graph-read@1"} THEN "run" ELSE "holo_run"

(* The contract and the entry of a Wasm layer have defaults. *)
LayerFromArgs(f) ==
    LET kind == IF f.kind = "none" THEN "wasm" ELSE f.kind
        wasm == kind = "wasm"
        contract == IF "contract" \in f.given \/ ~wasm THEN f.contract ELSE CoreContract
    IN  SourceLayer(kind, "path", f.given \cup (IF wasm THEN {"contract", "entry"} ELSE {}),
            contract,
            IF "entry" \in f.given \/ ~wasm THEN f.entry ELSE DefaultWasmEntry(contract),
            f.surface)

(* Without --yes the kind and the path have to be there. *)
NamesLayer(f) == f.yes \/ (f.kind # "none" /\ f.path)

PythonAccepts(f) ==
    /\ f.kind = "none" /\ ~f.path /\ ~f.yes
    /\ f.given \cap {"surface", "engine", "contract"} = {}
    /\ "entry" \in f.given
    /\ f.profile = "wasi-component" => "arch" \notin f.given /\ ~f.base

PythonLayer(f) ==
    IF f.profile = "wasi-component"
    THEN SourceLayer("wasm", "wasi-component", {"entry", "contract"}, "component@1", "run", "")
    ELSE SourceLayer("rootfs", "python-rootfs", {"arch"}, "", "", "")

(* What a user is asked for each kind; an empty answer takes the default. *)
Prompted(kind, contract, entry, surface) ==
    LET guest == IF contract = "" THEN CoreContract ELSE contract
    IN  CASE kind = "wasm" -> SourceLayer("wasm", "path", {"entry", "contract"}, guest,
                                 IF entry = "" THEN DefaultWasmEntry(guest) ELSE entry, "")
          [] kind = "tensor" -> SourceLayer("tensor", "path", {"entry"}, "", "session", "")
          [] kind = "rootfs" -> SourceLayer("rootfs", "path", {"entry", "arch"}, "", "boot", "")
          [] kind = "view" -> SourceLayer("view", "path", {"surface"}, "", "",
                                 IF surface = "" THEN "portable" ELSE surface)
          [] kind = "inference_model" ->
                SourceLayer("inference_model", "path", {"entry", "engine"}, "", "ai.default", "")

(* The first layer that can bear the exit; 0 if there is none. *)
DefaultPrimary(layers) ==
    LET bearing == {i \in DOMAIN layers : layers[i].kind \in {"wasm", "rootfs"}}
    IN  IF bearing = {} THEN 0 ELSE Min(bearing)

--------------------------------------------------------------------------------
(* The command *)

HasLayerFlags(f) ==
    \/ f.kind # "none" \/ f.path \/ f.given # {} \/ f.python \/ f.profile # "none"
    \/ f.base \/ f.project \/ f.children > 0 \/ f.delegations > 0

End(g) == init' = [init EXCEPT ![g] = IdleInit]
Refuse(g, f, layers) ==
    /\ End(g)
    /\ refused' = [phase |-> "refused", flags |-> f, layers |-> layers]

(* A manifest that is there now is kept, unless --force. *)
InitConflict(g, f) ==
    /\ init[g].phase = "idle" /\ inits < MaxInits
    /\ text # NoText /\ ~f.force
    /\ inits' = inits + 1
    /\ UNCHANGED <<text, init, refused>>

(* On a terminal, without layer flags and without --yes, the user is asked. *)
InitStart(g, f) ==
    LET asks == g \in Terminals /\ ~f.yes /\ ~HasLayerFlags(f)
        start(phase, layers) == init' = [init EXCEPT ![g] =
            [phase |-> phase, flags |-> f, layers |-> layers, asked |-> asks]]
    IN  /\ init[g].phase = "idle" /\ inits < MaxInits
        /\ text = NoText \/ f.force
        /\ inits' = inits + 1
        /\ UNCHANGED text
        /\ IF asks THEN start("prompting", <<>>) /\ UNCHANGED refused
           ELSE IF f.python /\ PythonAccepts(f)
                THEN start("layered", <<PythonLayer(f)>>) /\ UNCHANGED refused
           ELSE IF ~f.python /\ NamesLayer(f)
                THEN start("layered", <<LayerFromArgs(f)>>) /\ UNCHANGED refused
           ELSE Refuse(g, f, <<>>)

(* One layer, and whether there is another. *)
PromptLayer(g, kind, contract, entry, surface, more) ==
    /\ init[g].phase = "prompting" /\ Len(init[g].layers) < MaxPrompted
    /\ init' = [init EXCEPT
            ![g].layers = Append(@, Prompted(kind, contract, entry, surface)),
            ![g].phase = IF more THEN "prompting" ELSE "layered"]
    /\ UNCHANGED <<text, inits, refused>>

(* The input ends where a field has no default, or the user gives up. *)
PromptEnds(g) ==
    /\ init[g].phase = "prompting"
    /\ End(g) /\ UNCHANGED <<text, inits, refused>>

Specification(primary, layers, children) ==
    [schema |-> 4, library |-> primary = 0, primary |-> primary, layers |-> layers,
     children |-> children]

(* The primary is the flag's, the answer or the default. *)
PrimaryOf(g, answer) ==
    LET f == init[g].flags
    IN  IF f.noPrimary THEN 0
        ELSE IF f.primary # 0 THEN f.primary
        ELSE IF init[g].asked THEN answer ELSE DefaultPrimary(init[g].layers)

(* A child needs its delegation; a prompt asks for both. *)
ChildrenPaired(f) == f.children = f.delegations

(* What does not validate is not written. *)
InitAssemble(g, answer) ==
    LET f == init[g].flags
        layers == init[g].layers
        spec == Specification(PrimaryOf(g, answer), layers, f.children)
    IN  /\ init[g].phase = "layered"
        /\ ~init[g].asked => answer = 0
        /\ IF ChildrenPaired(f) /\ ValidManifest(spec)
           THEN /\ init' = [init EXCEPT ![g] = [phase |-> "staged", spec |-> spec, flags |-> f]]
                /\ UNCHANGED refused
           ELSE Refuse(g, f, layers)
        /\ UNCHANGED <<text, inits>>

(* atomic_write: the new text is in a file of its own; the old one goes     *)
(* before the new one is renamed into its place.                            *)
RemoveOld(g) ==
    /\ init[g].phase = "staged" /\ text # NoText
    /\ text' = NoText
    /\ init' = [init EXCEPT ![g].phase = "renaming"]
    /\ UNCHANGED <<inits, refused>>

RenameNew(g) ==
    /\ init[g].phase \in {"staged", "renaming"}
    /\ init[g].phase = "staged" => text = NoText
    /\ text' = init[g].spec
    /\ End(g) /\ UNCHANGED <<inits, refused>>

InitKilled(g) ==
    /\ init[g].phase # "idle"
    /\ End(g) /\ UNCHANGED <<text, inits, refused>>

InitNext ==
    \E g \in Generators :
        \/ \E f \in Flags : InitConflict(g, f) \/ InitStart(g, f)
        \/ \E kind \in DOMAIN LayerRule, c \in Chosen, more \in BOOLEAN :
              PromptLayer(g, kind, c.contract, c.entry, c.surface, more)
        \/ PromptEnds(g)
        \/ \E answer \in 0 .. MaxPrompted + 1 : InitAssemble(g, answer)
        \/ RemoveOld(g) \/ RenameNew(g) \/ InitKilled(g)

--------------------------------------------------------------------------------
(* What the flags ask for, by the rules of the layer kinds alone: every     *)
(* field the kind needs is given or has a default, none that it rejects.    *)
Defaulted(kind) == IF kind = "wasm" THEN {"entry", "contract"} ELSE {}

Asks(f) ==
    LET kind == IF f.kind = "none" THEN "wasm" ELSE f.kind
    IN  /\ ChildrenPaired(f)
        /\ f.primary <= 1
        /\ IF f.python
           THEN PythonAccepts(f)
           ELSE /\ NamesLayer(f)
                /\ LayerRule[kind].needs \subseteq f.given \cup Defaulted(kind)
                /\ LayerRule[kind].rejects \cap f.given = {}
                /\ "contract" \in f.given => KnownContract(f.contract)
                /\ "entry" \in f.given /\ f.contract \in ComponentContracts => f.entry = "run"
                /\ kind = "view" => f.surface = "portable"

(* InitIsExact: hologram.json is absent or a whole manifest that compile    *)
(* accepts, whoever writes it and whenever a generator is killed; and a     *)
(* command line is refused only if it asks for a layer its kind does not    *)
(* allow: the defaults that fill it in never make it invalid                *)
(* (layer_from_args, validate_compile_manifest).  The exception is the one  *)
(* contract that default_wasm_entry does not list.                          *)
InitIsExact ==
    /\ text # NoText => ValidManifest(text)
    /\ LET f == refused.flags
       IN  refused # IdleInit /\ Asks(f) =>
              f.contract = "store-graph-read@1" /\ "entry" \notin f.given
================================================================================
