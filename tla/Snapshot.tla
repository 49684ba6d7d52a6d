------------------------------- MODULE Snapshot -------------------------------
(***************************************************************************)
(* The shadow git repository of a project: Track records the work tree as a *)
(* commit, Restore brings a commit's files back, Prune drops old references *)
(* and collects what they alone kept.  The operations of a Manager exclude  *)
(* one another by the lock of the shadow directory; the tools that edit the *)
(* work tree do not take it.  Any git command may fail, and a cancelled     *)
(* context or a crash ends an operation where it is.                        *)
(***************************************************************************)
EXTENDS Naturals, Sequences, FiniteSets

CONSTANTS
  Paths,          \* the files of the work tree
  Contents,       \* what a file may hold; alike contents are one value
  Absent,         \* the file is not there
  Ignored,        \* the paths .gitignore keeps from being added
  LastField,      \* [Paths -> Paths]: the path a line of the status ends with
  Callers,        \* who uses the Manager
  MaxSnapshots    \* bound on the commits made

ASSUME SnapshotAssumption ==
  /\ Ignored \subseteq Paths
  /\ LastField \in [Paths -> Paths]
  /\ Absent \notin Contents /\ {"free", "tool"} \cap Callers = {}
  /\ MaxSnapshots \in Nat

VARIABLES
  work,        \* the work tree
  commits,     \* every commit made: its tree and its parent, 0 for none
  current,     \* refs/snapshots/current
  named,       \* the commits that have a reference of their own
  objects,     \* the commits still in the object store
  returned,    \* the hashes Track has returned
  shadowLock,  \* who holds the lock, or "free"
  op           \* what each caller is doing

snapVars == <<work, commits, current, named, objects, returned, shadowLock, op>>

Trees == [Paths -> Contents \cup {Absent}]
Hashes == 1..MaxSnapshots
Stages == {"idle", "track", "moved", "restore", "restored", "prune"}

\* hash: the commit at hand; todo: paths to remove, or references to delete;
\* alone: nobody else has changed the work tree since Restore looked at it;
\* "restored" lasts until somebody does.
Op(at, hash, todo) == [at |-> at, hash |-> hash, todo |-> todo, alone |-> TRUE]
Idle == Op("idle", 0, {})

SnapInit ==
  /\ work \in Trees
  /\ commits = <<>> /\ current = 0
  /\ named = {} /\ objects = {} /\ returned = {}
  /\ shadowLock = "free"
  /\ op = [c \in Callers |-> Idle]

-----------------------------------------------------------------------------
(* What git computes.                                                       *)

\* git add -A: ignored files are not in the tree.
CaptureCurrentTree == [p \in Paths |-> IF p \in Ignored THEN Absent ELSE work[p]]

Tree(h) == commits[h].tree

Of(S, tree, x) == {p \in S : tree[p] = x}
Lesser(m, n) == IF m < n THEN m ELSE n

\* The added paths git diff may report: a path that is new while one alike is
\* gone is a rename, which mapStatus calls modified.
Additions(from, to) ==
  LET new == {p \in Paths : from[p] = Absent /\ to[p] # Absent}
      gone == {p \in Paths : from[p] # Absent /\ to[p] = Absent}
      renamed == {R \in SUBSET new :
                    \A x \in Contents :
                       Cardinality(Of(R, to, x))
                         = Lesser(Cardinality(Of(new, to, x)), Cardinality(Of(gone, from, x)))}
  IN  {new \ R : R \in renamed}

\* What the references reach through the parents of the commits: what is in
\* every set that holds them and its own parents.
Reachable(refs) ==
  LET made == 1..Len(commits)
      closed == {S \in SUBSET made :
                   refs \ {0} \subseteq S /\ \A h \in S : commits[h].parent \in S \cup {0}}
  IN  {h \in made : \A S \in closed : h \in S}

-----------------------------------------------------------------------------
(* Track.                                                                   *)

\* Mutation: the lock is not waited for.
EnterUnlocked(c) == op[c].at \in {"idle", "restored"} /\ shadowLock' = c

\* An operation takes the lock, and gives it back when it returns.
Enter(c) == shadowLock = "free" /\ op[c].at \in {"idle", "restored"} /\ shadowLock' = c
Return(c, o) == shadowLock' = "free" /\ op' = [op EXCEPT ![c] = o]

\* add -A, write-tree, commit-tree with the current snapshot for a parent, or
\* with none: that rev-parse has failed is not looked at.
Track(c) ==
  /\ Enter(c) /\ Len(commits) < MaxSnapshots
  /\ \E parent \in {current, 0} :
       commits' = Append(commits, [tree |-> CaptureCurrentTree, parent |-> parent])
  /\ objects' = objects \cup {Len(commits')}
  /\ op' = [op EXCEPT ![c] = Op("track", Len(commits'), {})]
  /\ UNCHANGED <<work, current, named, returned>>

MoveCurrent(c) ==
  /\ op[c].at = "track"
  /\ current' = op[c].hash
  /\ op' = [op EXCEPT ![c].at = "moved"]
  /\ UNCHANGED <<work, commits, named, objects, returned, shadowLock>>

NameSnapshot(c) ==
  /\ op[c].at = "moved"
  /\ named' = named \cup {op[c].hash}
  /\ returned' = returned \cup {op[c].hash}
  /\ Return(c, Idle)
  /\ UNCHANGED <<work, commits, current, objects>>

-----------------------------------------------------------------------------
(* Restore.                                                                 *)

\* The tree is captured and compared; the added paths are to be removed.
Restore(c, h) ==
  /\ Enter(c) /\ h \in objects
  /\ \E added \in Additions(Tree(h), CaptureCurrentTree) :
       op' = [op EXCEPT ![c] = Op("restore", h, {LastField[p] : p \in added})]
  /\ UNCHANGED <<work, commits, current, named, objects, returned>>

\* The work tree changes: a Restore of any other caller is not alone with it,
\* and what a Restore has brought back is gone.
Alters(who) ==
  [c \in Callers |->
     CASE c # who /\ op[c].at = "restore" -> [op[c] EXCEPT !.alone = FALSE]
       [] c # who /\ op[c].at = "restored" -> Idle
       [] OTHER -> op[c]]

RemovePath(c) ==
  /\ op[c].at = "restore"
  /\ \E p \in op[c].todo :
       /\ work' = [work EXCEPT ![p] = Absent]
       /\ op' = [Alters(c) EXCEPT ![c].todo = @ \ {p}]
  /\ UNCHANGED <<commits, current, named, objects, returned, shadowLock>>

\* Mutation: only the files that are gone are checked out.
CheckedOutMissing(h) == [p \in Paths |-> IF work[p] # Absent THEN work[p] ELSE Tree(h)[p]]

\* What a checkout of the snapshot's files makes of the work tree.
CheckedOut(h) == [p \in Paths |-> IF Tree(h)[p] = Absent THEN work[p] ELSE Tree(h)[p]]

\* git checkout hash -- . : a snapshot without files matches nothing and fails.
Checkout(c) ==
  /\ op[c].at = "restore" /\ op[c].todo = {}
  /\ \E p \in Paths : Tree(op[c].hash)[p] # Absent
  /\ work' = CheckedOut(op[c].hash)
  /\ shadowLock' = "free"
  /\ op' = [Alters(c) EXCEPT ![c] = IF @.alone THEN Op("restored", @.hash, {}) ELSE Idle]
  /\ UNCHANGED <<commits, current, named, objects, returned>>

-----------------------------------------------------------------------------
(* Prune, and what surrounds the operations.                                *)

\* References no younger than the cutoff go; "current" stays.
Prune(c) ==
  /\ Enter(c)
  /\ \E cutoff \in 1..Len(commits) :
       op' = [op EXCEPT ![c] = Op("prune", cutoff, {h \in named : h <= cutoff})]
  /\ UNCHANGED <<work, commits, current, named, objects, returned>>

DeleteRef(c) ==
  /\ op[c].at = "prune"
  /\ \E h \in op[c].todo :
       /\ named' = named \ {h}
       /\ op' = [op EXCEPT ![c].todo = @ \ {h}]
  /\ UNCHANGED <<work, commits, current, objects, returned, shadowLock>>

\* git gc --prune=now.
Collect(c) ==
  /\ op[c].at = "prune" /\ op[c].todo = {}
  /\ objects' = objects \cap Reachable(named \cup {current})
  /\ Return(c, Idle)
  /\ UNCHANGED <<work, commits, current, named, returned>>

\* A command fails or the context is cancelled: the operation returns an error.
GiveUp(c) ==
  /\ op[c].at \in {"track", "moved", "restore", "prune"}
  /\ Return(c, Idle)
  /\ UNCHANGED <<work, commits, current, named, objects, returned>>

\* A tool writes or deletes a file.
ToolEdits(p, x) ==
  /\ work[p] # x
  /\ work' = [work EXCEPT ![p] = x]
  /\ op' = Alters("tool")
  /\ UNCHANGED <<commits, current, named, objects, returned, shadowLock>>

SnapNext ==
  \/ \E c \in Callers :
       \/ Track(c) \/ MoveCurrent(c) \/ NameSnapshot(c)
       \/ \E h \in returned : Restore(c, h)
       \/ RemovePath(c) \/ Checkout(c)
       \/ Prune(c) \/ DeleteRef(c) \/ Collect(c) \/ GiveUp(c)
  \/ \E p \in Paths, x \in Contents \cup {Absent} : ToolEdits(p, x)

SnapSpec == SnapInit /\ [][SnapNext]_snapVars

-----------------------------------------------------------------------------
(* Properties.                                                              *)

SnapTypeOK ==
  /\ work \in Trees
  /\ commits \in Seq([tree : Trees, parent : 0..MaxSnapshots]) /\ Len(commits) <= MaxSnapshots
  /\ current \in 0..Len(commits)
  /\ named \subseteq 1..Len(commits)
  /\ objects \subseteq 1..Len(commits)
  /\ returned \subseteq 1..Len(commits)
  /\ shadowLock \in Callers \cup {"free"}
  /\ op \in [Callers -> [at : Stages, hash : 0..MaxSnapshots,
                         todo : SUBSET (Paths \cup Hashes), alone : BOOLEAN]]

\* The garbage collection of a Prune takes no snapshot that has a reference, and
\* none that another operation is about to give one or is bringing back,
\* wherever an earlier operation broke off: the lock keeps them apart.
SnapshotsSurvive ==
  /\ named \cup ({current} \ {0}) \subseteq objects
  /\ \A c \in Callers : op[c].at \in {"track", "moved", "restore"} => op[c].hash \in objects

\* A Restore that nobody disturbed leaves every file of the snapshot as the
\* snapshot has it, whatever an earlier, broken Restore had removed.
RestoreBringsBack ==
  \A c \in Callers :
    op[c].at = "restored" =>
      \A p \in Paths : Tree(op[c].hash)[p] # Absent => work[p] = Tree(op[c].hash)[p]
=============================================================================
