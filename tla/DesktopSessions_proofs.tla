----------------------- MODULE DesktopSessions_proofs -----------------------
(***************************************************************************)
(* Proofs, for every set of archives and applications and every set of     *)
(* start, stop and one-shot commands: the indexes of the session registry  *)
(* agree with its entries, an application is open once until a failed stop *)
(* puts an entry back, and no tree that is up is lost.                     *)
(***************************************************************************)
EXTENDS DesktopSessions, TLAPS

\* What the indexes point at.
PointInv ==
  /\ \A a \in Archives : archives[a] # None => archives[a] \in entries /\ ArchiveOf[archives[a]] = a
  /\ \A a \in Applications :
       applications[a] # None => applications[a] \in entries /\ a \in SessionApps(applications[a])
  /\ \A w \in Labels : windows[w] # None => windows[w] \in entries /\ w \in labels[windows[w]]

\* A registered session was registered by its start.
EntryInv == \A s \in entries : cmd[s] = "opened"

\* A stop command has session s in its hands from the removal of the entry to
\* its return.
InHand(t, s) == job[t] = s /\ pc[t] \in {"stopping", "restoring"}

\* What it has in its hands is a session that was opened and is out of the
\* registry.
BusyInv ==
  \A t \in Stops : pc[t] \in {"stopping", "restoring"} =>
    job[t] \in Starts /\ job[t] \notin entries /\ cmd[job[t]] = "opened"

\* A session is in the hands of one stop command only.
OneStopInv ==
  \A t, u \in Stops : \A s \in Starts : InHand(t, s) /\ InHand(u, s) => t = u

\* Until a failed stop has put an entry back, every registered session is
\* found under its archive and under each of its applications.
IndexInv ==
  ~retried => \A s \in entries :
    /\ archives[ArchiveOf[s]] = s
    /\ \A a \in SessionApps(s) : applications[a] = s

\* Where the start command of a session is says what its tree is.
TreeInv ==
  \A s \in Starts :
    /\ cmd[s] \in {"idle", "starting"} => tree[s] = "absent"
    /\ cmd[s] = "ended" => tree[s] \in {"absent", "Stopped"}
    /\ cmd[s] = "opened" => s \in entries \/ tree[s] = "Stopped" \/ \E t \in Stops : InHand(t, s)

IInv ==
  /\ TypeOK
  /\ PointInv
  /\ EntryInv
  /\ BusyInv
  /\ OneStopInv
  /\ IndexInv
  /\ TreeInv

-----------------------------------------------------------------------------
(* The inductive invariant, one action after the other.                    *)

\* Every command is for an archive, which has applications of its own.
LEMMA Homes ==
  /\ \A s \in Starts : s \in Labels /\ ArchiveOf[s] \in Archives
  /\ \A s \in Starts : SessionApps(s) \subseteq Applications /\ SessionApps(s) # {}
  /\ \A r, s \in Starts : ArchiveOf[r] = ArchiveOf[s] => SessionApps(r) = SessionApps(s)
BY SessionAssumption DEF Labels, SessionApps

\* Nothing is open at first.
LEMMA InitIInv == Init => IInv
<1> USE SessionAssumption DEF Init
<1>1. Init => TypeOK
  <2>1. Init => labels \in [Starts -> SUBSET Labels] /\ todo \in [Stops -> SUBSET Starts] /\ retried \in BOOLEAN
    OBVIOUS
  <2>2. Init => tree \in [Starts -> {"absent", "Running", "Stopping", "Stopped", "Failed"}]
    OBVIOUS
  <2> QED
    BY <2>1, <2>2 DEF TypeOK
<1>2. Init => PointInv /\ EntryInv /\ BusyInv /\ OneStopInv
  BY DEF PointInv, EntryInv, BusyInv, OneStopInv, InHand
<1>3. Init => IndexInv /\ TreeInv
  BY DEF IndexInv, TreeInv
<1> QED
  BY <1>1, <1>2, <1>3 DEF IInv

\* Starting an open archive changes the command only.
LEMMA StartExistingIInv ==
  ASSUME IInv, NEW s \in Starts, StartExisting(s)
  PROVE  IInv'
<1> USE SessionAssumption DEF IInv, index, StartExisting
<1>1. TypeOK'
  BY DEF TypeOK
<1>2. PointInv'
  BY DEF TypeOK, PointInv
<1>3. EntryInv' /\ BusyInv'
  BY DEF TypeOK, EntryInv, BusyInv, InHand
<1>4. OneStopInv'
  BY DEF TypeOK, OneStopInv, InHand
<1>5. IndexInv'
  BY DEF TypeOK, IndexInv
<1>6. TreeInv'
  BY DEF TypeOK, TreeInv, InHand
<1> QED
  BY <1>1, <1>2, <1>3, <1>4, <1>5, <1>6

\* So does a start that is refused at the first look.
LEMMA StartRefusedIInv ==
  ASSUME IInv, NEW s \in Starts, StartRefused(s)
  PROVE  IInv'
<1> USE SessionAssumption DEF IInv, index, StartRefused
<1>1. TypeOK'
  BY DEF TypeOK
<1>2. PointInv'
  BY DEF TypeOK, PointInv
<1>3. EntryInv' /\ BusyInv'
  BY DEF TypeOK, EntryInv, BusyInv, InHand
<1>4. OneStopInv'
  BY DEF TypeOK, OneStopInv, InHand
<1>5. IndexInv'
  BY DEF TypeOK, IndexInv
<1>6. TreeInv'
  BY DEF TypeOK, TreeInv, InHand
<1> QED
  BY <1>1, <1>2, <1>3, <1>4, <1>5, <1>6

\* A start that goes on has taken the lock.
LEMMA StartBeginIInv ==
  ASSUME IInv, NEW s \in Starts, StartBegin(s)
  PROVE  IInv'
<1> USE SessionAssumption DEF IInv, index, StartBegin
<1>1. TypeOK'
  BY DEF TypeOK
<1>2. PointInv'
  BY DEF TypeOK, PointInv
<1>3. EntryInv' /\ BusyInv'
  BY DEF TypeOK, EntryInv, BusyInv, InHand
<1>4. OneStopInv'
  BY DEF TypeOK, OneStopInv, InHand
<1>5. IndexInv'
  BY DEF TypeOK, IndexInv
<1>6. TreeInv'
  BY DEF TypeOK, TreeInv, InHand
<1> QED
  BY <1>1, <1>2, <1>3, <1>4, <1>5, <1>6

\* The tree of a start is not registered yet, but the start is about to.
LEMMA StartedIInv ==
  ASSUME IInv, NEW s \in Starts, Started(s)
  PROVE  IInv'
<1> USE SessionAssumption DEF IInv, index, Started
<1>1. TypeOK'
  BY DEF TypeOK, Labels
<1>2. PointInv'
  BY DEF TypeOK, PointInv
<1>3. EntryInv' /\ BusyInv'
  BY DEF TypeOK, EntryInv, BusyInv, InHand
<1>4. OneStopInv'
  BY DEF TypeOK, OneStopInv, InHand
<1>5. IndexInv'
  BY DEF TypeOK, IndexInv
<1>6. TreeInv'
  BY DEF TypeOK, TreeInv, InHand
<1> QED
  BY <1>1, <1>2, <1>3, <1>4, <1>5, <1>6

\* A tree that failed to start was rolled back.
LEMMA StartFailsIInv ==
  ASSUME IInv, NEW s \in Starts, StartFails(s)
  PROVE  IInv'
<1> USE SessionAssumption DEF IInv, index, StartFails
<1>1. TypeOK'
  BY DEF TypeOK
<1>2. PointInv'
  BY DEF TypeOK, PointInv
<1>3. EntryInv' /\ BusyInv'
  BY DEF TypeOK, EntryInv, BusyInv, InHand
<1>4. OneStopInv'
  BY DEF TypeOK, OneStopInv, InHand
<1>5. IndexInv'
  BY DEF TypeOK, IndexInv
<1>6. TreeInv'
  BY DEF TypeOK, TreeInv, InHand
<1> QED
  BY <1>1, <1>2, <1>3, <1>4, <1>5, <1>6

\* register_started indexes a session none of whose applications is open.
LEMMA RegisterIInv ==
  ASSUME IInv, NEW s \in Starts, Register(s)
  PROVE  IInv'
<1> USE SessionAssumption DEF IInv, index, Register, LabelsFor
<1>1. TypeOK'
  BY DEF TypeOK
<1>2. PointInv'
  BY DEF TypeOK, PointInv, EntryInv, BusyInv
<1>3. EntryInv' /\ BusyInv'
  BY DEF TypeOK, EntryInv, BusyInv, InHand
<1>4. OneStopInv'
  BY DEF TypeOK, OneStopInv, InHand
<1>5. IndexInv'
  <2> SUFFICES ASSUME ~retried, NEW r \in entries', r # s
               PROVE  /\ archives'[ArchiveOf[r]] = r
                      /\ \A a \in SessionApps(r) : applications'[a] = r
    BY Homes DEF TypeOK, IndexInv
  <2>1. r \in entries /\ r \in Starts
    BY DEF TypeOK
  <2>2. archives[ArchiveOf[r]] = r /\ \A a \in SessionApps(r) : applications[a] = r
    BY <2>1 DEF IndexInv
  <2>3. \A a \in SessionApps(r) : a \notin SessionApps(s)
    BY <2>1, <2>2 DEF TypeOK
  <2>4. ArchiveOf[r] # ArchiveOf[s]
    BY <2>1, <2>3, Homes
  <2> QED
    BY <2>1, <2>2, <2>3, <2>4, Homes DEF TypeOK
<1>6. TreeInv'
  BY DEF TypeOK, TreeInv, InHand
<1> QED
  BY <1>1, <1>2, <1>3, <1>4, <1>5, <1>6

\* A refused registration keeps the tree in the hands of its start.
LEMMA RegisterRefusedIInv ==
  ASSUME IInv, NEW s \in Starts, RegisterRefused(s)
  PROVE  IInv'
<1> USE SessionAssumption DEF IInv, index, RegisterRefused
<1>1. TypeOK'
  BY DEF TypeOK
<1>2. PointInv'
  BY DEF TypeOK, PointInv
<1>3. EntryInv' /\ BusyInv'
  BY DEF TypeOK, EntryInv, BusyInv, InHand
<1>4. OneStopInv'
  BY DEF TypeOK, OneStopInv, InHand
<1>5. IndexInv'
  BY DEF TypeOK, IndexInv
<1>6. TreeInv'
  BY DEF TypeOK, TreeInv, InHand
<1> QED
  BY <1>1, <1>2, <1>3, <1>4, <1>5, <1>6

\* The undone tree has stopped, or is the exception.
LEMMA UndoneIInv ==
  ASSUME IInv, NEW s \in Starts, NEW ok \in BOOLEAN, Undone(s, ok)
  PROVE  IInv'
<1> USE SessionAssumption DEF IInv, index, Undone, TreeStops
<1>1. TypeOK'
  BY DEF TypeOK
<1>2. PointInv'
  BY DEF TypeOK, PointInv
<1>3. EntryInv' /\ BusyInv'
  BY DEF TypeOK, EntryInv, BusyInv, InHand
<1>4. OneStopInv'
  BY DEF TypeOK, OneStopInv, InHand
<1>5. IndexInv'
  BY DEF TypeOK, IndexInv
<1>6. TreeInv'
  BY DEF TypeOK, TreeInv, InHand
<1> QED
  BY <1>1, <1>2, <1>3, <1>4, <1>5, <1>6

\* A close request only remembers the session of its window.
LEMMA CloseWindowIInv ==
  ASSUME IInv, NEW t \in Stops, NEW w \in Labels, CloseWindow(t, w)
  PROVE  IInv'
<1> USE SessionAssumption DEF IInv, index, CloseWindow
<1>1. TypeOK'
  BY DEF TypeOK
<1>2. PointInv'
  BY DEF TypeOK, PointInv
<1>3. EntryInv' /\ BusyInv'
  BY DEF TypeOK, EntryInv, BusyInv, InHand
<1>4. OneStopInv'
  BY DEF TypeOK, OneStopInv, InHand
<1>5. IndexInv'
  BY DEF TypeOK, IndexInv
<1>6. TreeInv'
  BY DEF TypeOK, TreeInv, InHand
<1> QED
  BY <1>1, <1>2, <1>3, <1>4, <1>5, <1>6

\* Quit only lists the sessions.
LEMMA StopAllIInv ==
  ASSUME IInv, NEW t \in Stops, StopAll(t)
  PROVE  IInv'
<1> USE SessionAssumption DEF IInv, index, StopAll
<1>1. TypeOK'
  BY DEF TypeOK
<1>2. PointInv'
  BY DEF TypeOK, PointInv
<1>3. EntryInv' /\ BusyInv'
  BY DEF TypeOK, EntryInv, BusyInv, InHand
<1>4. OneStopInv'
  BY DEF TypeOK, OneStopInv, InHand
<1>5. IndexInv'
  BY DEF TypeOK, IndexInv
<1>6. TreeInv'
  BY DEF TypeOK, TreeInv, InHand
<1> QED
  BY <1>1, <1>2, <1>3, <1>4, <1>5, <1>6

\* stop_session removes the entry with everything that points to it, and has
\* the tree in its hands.
LEMMA StopTakeIInv ==
  ASSUME IInv, NEW t \in Stops, NEW s \in Starts, StopTake(t, s)
  PROVE  IInv'
<1> USE SessionAssumption DEF IInv, index, StopTake, Asked, Due, Dropped
<1>1. TypeOK'
  BY DEF TypeOK
<1>2. PointInv'
  BY DEF TypeOK, PointInv
<1>3. EntryInv' /\ BusyInv'
  BY DEF TypeOK, EntryInv, BusyInv, InHand
<1>4. OneStopInv'
  BY DEF TypeOK, OneStopInv, BusyInv, InHand
<1>5. IndexInv'
  <2> SUFFICES ASSUME ~retried, NEW r \in entries'
               PROVE  /\ archives'[ArchiveOf[r]] = r
                      /\ \A a \in SessionApps(r) : applications'[a] = r
    BY DEF IndexInv
  <2>1. r \in entries /\ r \in Starts /\ r # s
    BY DEF TypeOK
  <2>2. archives[ArchiveOf[r]] = r /\ \A a \in SessionApps(r) : applications[a] = r
    BY <2>1 DEF IndexInv
  <2>3. archives[ArchiveOf[s]] = s /\ \A a \in SessionApps(s) : applications[a] = s
    BY DEF IndexInv
  <2> QED
    BY <2>1, <2>2, <2>3, Homes DEF TypeOK
<1>6. TreeInv'
  BY DEF TypeOK, TreeInv, EntryInv, BusyInv, OneStopInv, InHand
<1> QED
  BY <1>1, <1>2, <1>3, <1>4, <1>5, <1>6

\* A session that is not open any more is somebody else's.
LEMMA StopNotOpenIInv ==
  ASSUME IInv, NEW t \in Stops, NEW s \in Starts, StopNotOpen(t, s)
  PROVE  IInv'
<1> USE SessionAssumption DEF IInv, index, StopNotOpen, Asked, Due, Finish
<1>1. TypeOK'
  BY DEF TypeOK
<1>2. PointInv'
  BY DEF TypeOK, PointInv
<1>3. EntryInv' /\ BusyInv'
  BY DEF TypeOK, EntryInv, BusyInv, InHand
<1>4. OneStopInv'
  BY DEF TypeOK, OneStopInv, InHand
<1>5. IndexInv'
  BY DEF TypeOK, IndexInv
<1>6. TreeInv'
  BY DEF TypeOK, TreeInv, InHand
<1> QED
  BY <1>1, <1>2, <1>3, <1>4, <1>5, <1>6

\* The end of quit changes the command only.
LEMMA StopAllEndsIInv ==
  ASSUME IInv, NEW t \in Stops, StopAllEnds(t)
  PROVE  IInv'
<1> USE SessionAssumption DEF IInv, index, StopAllEnds
<1>1. TypeOK'
  BY DEF TypeOK
<1>2. PointInv'
  BY DEF TypeOK, PointInv
<1>3. EntryInv' /\ BusyInv'
  BY DEF TypeOK, EntryInv, BusyInv, InHand
<1>4. OneStopInv'
  BY DEF TypeOK, OneStopInv, InHand
<1>5. IndexInv'
  BY DEF TypeOK, IndexInv
<1>6. TreeInv'
  BY DEF TypeOK, TreeInv, InHand
<1> QED
  BY <1>1, <1>2, <1>3, <1>4, <1>5, <1>6

\* A stopped session is in no index when its labels are dropped.
LEMMA StopSucceedsIInv ==
  ASSUME IInv, NEW t \in Stops, StopSucceeds(t)
  PROVE  IInv'
<1> USE SessionAssumption DEF IInv, index, StopSucceeds, TreeStops, Finish
<1>1. TypeOK'
  BY DEF TypeOK
<1>2. PointInv'
  BY DEF TypeOK, PointInv, EntryInv, BusyInv
<1>3. EntryInv' /\ BusyInv'
  BY DEF TypeOK, EntryInv, BusyInv, InHand
<1>4. OneStopInv'
  BY DEF TypeOK, OneStopInv, InHand
<1>5. IndexInv'
  BY DEF TypeOK, IndexInv
<1>6. TreeInv'
  BY DEF TypeOK, TreeInv, EntryInv, BusyInv, OneStopInv, InHand
<1> QED
  BY <1>1, <1>2, <1>3, <1>4, <1>5, <1>6

\* A tree that did not stop stays with the command.
LEMMA StopFailsIInv ==
  ASSUME IInv, NEW t \in Stops, StopFails(t)
  PROVE  IInv'
<1> USE SessionAssumption DEF IInv, index, StopFails, TreeStops
<1>1. TypeOK'
  BY DEF TypeOK
<1>2. PointInv'
  BY DEF TypeOK, PointInv
<1>3. EntryInv' /\ BusyInv'
  BY DEF TypeOK, EntryInv, BusyInv, InHand
<1>4. OneStopInv'
  BY DEF TypeOK, OneStopInv, InHand
<1>5. IndexInv'
  BY DEF TypeOK, IndexInv
<1>6. TreeInv'
  BY DEF TypeOK, TreeInv, EntryInv, BusyInv, OneStopInv, InHand
<1> QED
  BY <1>1, <1>2, <1>3, <1>4, <1>5, <1>6

\* The entry comes back with all its indexes.
LEMMA StopRestoreIInv ==
  ASSUME IInv, NEW t \in Stops, StopRestore(t)
  PROVE  IInv'
<1> USE SessionAssumption DEF IInv, index, StopRestore, Finish
<1>1. TypeOK'
  <2>1. job[t] \in Starts
    BY DEF BusyInv
  <2>2. todo[t] \ {job[t]} \in SUBSET Starts
    BY DEF TypeOK
  <2>3. todo' \in [Stops -> SUBSET Starts] /\ pc' \in [Stops -> {"idle", "window", "all", "stopping", "restoring", "done"}]
    BY <2>2 DEF TypeOK
  <2> QED
    BY <2>1, <2>3, Homes DEF TypeOK
<1>2. PointInv'
  BY DEF TypeOK, PointInv
<1>3. EntryInv' /\ BusyInv'
  BY DEF TypeOK, EntryInv, BusyInv, OneStopInv, InHand
<1>4. OneStopInv'
  BY DEF TypeOK, OneStopInv, InHand
<1>5. IndexInv'
  BY DEF TypeOK, IndexInv
<1>6. TreeInv'
  BY DEF TypeOK, TreeInv, InHand
<1> QED
  BY <1>1, <1>2, <1>3, <1>4, <1>5, <1>6

\* A one-shot execution is in no index.
LEMMA RunAttachesIInv ==
  ASSUME IInv, NEW r \in Runs, RunAttaches(r)
  PROVE  IInv'
<1> USE SessionAssumption DEF IInv, index, RunAttaches
<1>1. TypeOK'
  BY DEF TypeOK, Labels
<1>2. PointInv'
  BY DEF TypeOK, PointInv
<1>3. EntryInv' /\ BusyInv'
  BY DEF TypeOK, EntryInv, BusyInv, InHand
<1>4. OneStopInv'
  BY DEF TypeOK, OneStopInv, InHand
<1>5. IndexInv'
  BY DEF TypeOK, IndexInv
<1>6. TreeInv'
  BY DEF TypeOK, TreeInv, InHand
<1> QED
  BY <1>1, <1>2, <1>3, <1>4, <1>5, <1>6

\* Nor is one that ends.
LEMMA RunDetachesIInv ==
  ASSUME IInv, NEW r \in Runs, RunDetaches(r)
  PROVE  IInv'
<1> USE SessionAssumption DEF IInv, index, RunDetaches
<1>1. TypeOK'
  BY DEF TypeOK
<1>2. PointInv'
  BY DEF TypeOK, PointInv
<1>3. EntryInv' /\ BusyInv'
  BY DEF TypeOK, EntryInv, BusyInv, InHand
<1>4. OneStopInv'
  BY DEF TypeOK, OneStopInv, InHand
<1>5. IndexInv'
  BY DEF TypeOK, IndexInv
<1>6. TreeInv'
  BY DEF TypeOK, TreeInv, InHand
<1> QED
  BY <1>1, <1>2, <1>3, <1>4, <1>5, <1>6

\* Every step keeps the inductive invariant.
LEMMA NextIInv == IInv /\ [Next]_vars => IInv'
<1> SUFFICES ASSUME IInv, [Next]_vars PROVE IInv'
  OBVIOUS
<1>1. ASSUME NEW s \in Starts, Start(s) PROVE IInv'
  BY <1>1, StartExistingIInv, StartRefusedIInv, StartBeginIInv, StartedIInv, StartFailsIInv, RegisterIInv,
     RegisterRefusedIInv, UndoneIInv DEF Start
<1>2. ASSUME NEW t \in Stops, Stop(t) PROVE IInv'
  BY <1>2, CloseWindowIInv, StopAllIInv, StopTakeIInv, StopNotOpenIInv, StopAllEndsIInv, StopSucceedsIInv,
     StopFailsIInv, StopRestoreIInv DEF Stop
<1>3. CASE UNCHANGED vars
  BY <1>3 DEF vars, index, IInv, TypeOK, PointInv, EntryInv, BusyInv, OneStopInv, IndexInv, TreeInv, InHand
<1> QED
  BY <1>1, <1>2, <1>3, RunAttachesIInv, RunDetachesIInv DEF Next

-----------------------------------------------------------------------------
(* What the session registry guarantees.                                   *)

\* The inductive invariant holds in every reachable state.
THEOREM Invariance == Spec => []IInv
BY InitIInv, NextIInv, PTL DEF Spec

\* Every variable keeps its type, however starts, stops and one-shot
\* executions interleave.
THEOREM TypeCorrect == Spec => []TypeOK
<1>1. IInv => TypeOK
  BY DEF IInv
<1> QED
  BY <1>1, Invariance, PTL

\* start_session's "session index is stale" cannot happen: no index points
\* past the registry, and until a failed stop puts an entry back no two open
\* sessions share an application.
THEOREM Consistent == Spec => []RegistryConsistent
<1>1. IInv => RegistryConsistent
  <2> SUFFICES ASSUME IInv PROVE RegistryConsistent
    OBVIOUS
  <2>1. ~retried => Disjoint(entries)
    BY DEF IInv, IndexInv, Disjoint
  <2> QED
    BY <2>1 DEF IInv, PointInv, RegistryConsistent
<1> QED
  BY <1>1, Invariance, PTL

\* A tree that is up is registered, or a start or stop command has it, or it
\* is the one exception: refused at registration and then not stopped.
THEOREM NothingLost == Spec => []NoLostSession
<1>1. IInv => NoLostSession
  BY DEF IInv, TypeOK, TreeInv, InHand, NoLostSession
<1> QED
  BY <1>1, Invariance, PTL

=============================================================================
