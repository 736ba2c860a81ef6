------------------------------- MODULE Update -------------------------------
(***************************************************************************)
(* Self-update and rollback (src/update.rs): the release manifest, the     *)
(* download's checks, and the renames that put a binary in place of the    *)
(* one that is running.  A rename may fail and the command may be killed   *)
(* between any two calls.                                                  *)
(***************************************************************************)
EXTENDS Naturals, FiniteSets

CONSTANTS Releases,  \* manifests and downloads: [schema, channel, protocol, target, size, digest]
          MaxCommands, MaxRenameFaults

VARIABLES binary,    \* current, previous, failed and temporary: good, bad or none
          step,      \* where the running command is
          offered,   \* the release it installs
          commands, renameFaults, killed

updateVars == <<binary, step, offered, commands, renameFaults, killed>>

NoRelease == [schema |-> FALSE, channel |-> FALSE, protocol |-> FALSE, target |-> FALSE,
              secure |-> FALSE, size |-> FALSE, digest |-> FALSE]

\* The binary, and the files that are kept beside it.
Files == {"current", "previous", "failed", "temporary"}

UpdateInit ==
    /\ binary = [f \in Files |-> IF f = "current" THEN "good" ELSE "none"]
    /\ step = "idle" /\ offered = NoRelease
    /\ commands = 0 /\ renameFaults = 0 /\ killed = FALSE

Steady == UNCHANGED <<offered, commands, renameFaults, killed>>
Return == step' = "idle"

\* The command is the binary itself, so one runs only while current is there.
Install(r) ==
    /\ step = "idle" /\ commands < MaxCommands /\ binary.current # "none"
    /\ commands' = commands + 1
    /\ offered' = r
    /\ step' = "check"
    /\ killed' = FALSE
    /\ UNCHANGED <<binary, renameFaults>>

\* check and the first half of install: https or loopback, schema 1, the
\* configured channel, a protocol range with ours in it, an artifact for this
\* target, and a download of the size and the digest the manifest names.
Accepts(r) == r.secure /\ r.schema /\ r.channel /\ r.protocol /\ r.target /\ r.size /\ r.digest

CheckRelease ==
    /\ step = "check"
    /\ step' = IF Accepts(offered) THEN "write" ELSE "idle"
    /\ UNCHANGED binary /\ Steady

\* replace_current_binary.
WriteTemporary ==
    /\ step = "write"
    /\ binary' = [binary EXCEPT !.temporary = IF offered.digest THEN "good" ELSE "bad"]
    /\ step' = "clear"
    /\ Steady

ClearPrevious ==
    /\ step = "clear"
    /\ binary' = [binary EXCEPT !.previous = "none"]
    /\ step' = "retire"
    /\ Steady

Move(from, to) == [binary EXCEPT ![to] = binary[from], ![from] = "none"]

\* current becomes previous, temporary becomes current.
Retire ==
    /\ step = "retire"
    /\ binary' = Move("current", "previous")
    /\ step' = "place"
    /\ Steady

Place ==
    /\ step = "place"
    /\ binary' = Move("temporary", "current")
    /\ Return /\ Steady

\* Mutant: a failed rename is reported without putting the old binary back.
UndoNothing(from) ==
    /\ renameFaults < MaxRenameFaults
    /\ renameFaults' = renameFaults + 1
    /\ Return
    /\ UNCHANGED <<binary, offered, commands, killed>>

\* The rename into place fails: the binary that was moved away is moved back.
Undo(from) ==
    /\ renameFaults < MaxRenameFaults
    /\ renameFaults' = renameFaults + 1
    /\ binary' = Move(from, "current")
    /\ Return
    /\ UNCHANGED <<offered, commands, killed>>

PlaceFails == step = "place" /\ Undo("previous")

\* rollback and replace_from_path: current becomes failed, previous becomes current.
Rollback ==
    /\ step = "idle" /\ commands < MaxCommands /\ binary.current # "none"
    /\ commands' = commands + 1
    /\ step' = IF binary.previous = "none" THEN "idle" ELSE "discard"
    /\ killed' = FALSE
    /\ UNCHANGED <<binary, offered, renameFaults>>

Discard ==
    /\ step = "discard"
    /\ binary' = [binary EXCEPT !.failed = "none"]
    /\ step' = "demote"
    /\ Steady

Demote ==
    /\ step = "demote"
    /\ binary' = Move("current", "failed")
    /\ step' = "restore"
    /\ Steady

Restore ==
    /\ step = "restore"
    /\ binary' = Move("previous", "current")
    /\ Return /\ Steady

RestoreFails == step = "restore" /\ Undo("failed")

\* The first rename fails, or the write does: nothing was moved.
MoveFails ==
    /\ step \in {"write", "retire", "demote"} /\ renameFaults < MaxRenameFaults
    /\ renameFaults' = renameFaults + 1
    /\ Return
    /\ UNCHANGED <<binary, offered, commands, killed>>

Kill ==
    /\ step # "idle"
    /\ killed' = TRUE
    /\ Return
    /\ UNCHANGED <<binary, offered, commands, renameFaults>>

UpdateNext ==
    \/ \E r \in Releases : Install(r)
    \/ CheckRelease \/ WriteTemporary \/ ClearPrevious \/ Retire \/ Place \/ PlaceFails
    \/ Rollback \/ Discard \/ Demote \/ Restore \/ RestoreFails \/ MoveFails \/ Kill

\* Whatever sequence of updates and rollbacks ran, and whichever single rename
\* failed, a command that returned leaves a binary the manifest vouched for in
\* place; one that was killed leaves such a binary at least beside it.
BinaryStaysInstalled ==
    /\ step = "idle" /\ ~killed => binary.current = "good"
    /\ \E f \in {"current", "previous", "failed"} : binary[f] = "good"
    /\ binary.current # "bad"
=============================================================================
