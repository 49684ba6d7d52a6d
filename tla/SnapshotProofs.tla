---------------------------- MODULE SnapshotProofs ----------------------------
(***************************************************************************)
(* Proofs about Snapshot, for any work tree, any number of callers and of   *)
(* commits.                                                                 *)
(***************************************************************************)
EXTENDS Snapshot, SequenceTheorems, TLAPS

\* What an operation has in hand, between its first command and its last.
Busy == {"track", "moved", "restore", "prune"}

\* The lock is held by whoever is between two commands, so that there is at
\* most one; the commits in hand have been made.
Excluded ==
  \A c \in Callers : /\ op[c].at \in Busy => shadowLock = c
                     /\ op[c].hash \in 0..Len(commits)
                     /\ op[c].at \in {"track", "moved"} => op[c].hash # 0

SnapInv == SnapTypeOK /\ Excluded /\ SnapshotsSurvive

Commit == [tree : Trees, parent : 0..MaxSnapshots]
OpType == [at : Stages, hash : 0..MaxSnapshots, todo : SUBSET (Paths \cup Hashes), alone : BOOLEAN]

-----------------------------------------------------------------------------
(* What the helpers return.                                                 *)

\* What a reference names is reached.
LEMMA ReferencesReach ==
  ASSUME NEW refs, refs \ {0} \subseteq 1..Len(commits)
  PROVE  refs \ {0} \subseteq Reachable(refs)
  BY DEF Reachable

\* The paths Restore will remove are paths.
LEMMA RemovesPaths ==
  ASSUME NEW from, NEW to, NEW added \in Additions(from, to)
  PROVE  {LastField[p] : p \in added} \subseteq Paths
<1>1. added \subseteq Paths
  BY DEF Additions
<1>2. QED
  BY <1>1, SnapshotAssumption

\* A change of the work tree leaves the other callers where they are, but for
\* a Restore that is over.
LEMMA AltersKeeps ==
  ASSUME NEW who, op \in [Callers -> OpType]
  PROVE  /\ Alters(who) \in [Callers -> OpType]
         /\ \A c \in Callers :
              /\ Alters(who)[c].at \in Busy <=> op[c].at \in Busy
              /\ Alters(who)[c].at \in Busy =>
                   Alters(who)[c].at = op[c].at /\ Alters(who)[c].hash = op[c].hash
              /\ Alters(who)[c].hash \in {op[c].hash, 0}
<1>1. Idle \in OpType /\ Idle.at = "idle" /\ Idle.hash = 0
  BY SnapshotAssumption DEF Idle, Op, OpType, Stages
<1>2. ASSUME NEW c \in Callers
      PROVE  /\ Alters(who)[c] \in OpType
             /\ Alters(who)[c].at \in Busy <=> op[c].at \in Busy
             /\ Alters(who)[c].at \in Busy =>
                  Alters(who)[c].at = op[c].at /\ Alters(who)[c].hash = op[c].hash
             /\ Alters(who)[c].hash \in {op[c].hash, 0}
  <2>1. CASE c # who /\ op[c].at = "restore"
    <3>1. Alters(who)[c] = [op[c] EXCEPT !.alone = FALSE]
      BY <2>1 DEF Alters
    <3>2. QED
      BY <3>1 DEF OpType
  <2>2. CASE c # who /\ op[c].at = "restored"
    <3>1. Alters(who)[c] = Idle
      BY <2>2 DEF Alters
    <3>2. QED
      BY <1>1, <2>2, <3>1 DEF Busy
  <2>3. CASE ~(c # who /\ op[c].at \in {"restore", "restored"})
    <3>1. Alters(who)[c] = op[c]
      BY <2>3 DEF Alters
    <3>2. QED
      BY <3>1
  <2>4. QED
    BY <2>1, <2>2, <2>3
<1>3. Alters(who) \in [Callers -> OpType]
  BY <1>2 DEF Alters
<1>4. QED
  BY <1>2, <1>3

-----------------------------------------------------------------------------
(* The invariant.                                                           *)

LEMMA Counted ==
  ASSUME SnapTypeOK
  PROVE  Len(commits) \in 0..MaxSnapshots /\ 1..Len(commits) \subseteq Hashes
<1>1. commits \in Seq(Commit) /\ Len(commits) <= MaxSnapshots
  BY DEF SnapTypeOK, Commit
<1>2. QED
  BY <1>1, LenProperties, SnapshotAssumption DEF Hashes

LEMMA SnapInvInit == SnapInit => SnapInv
<1> SUFFICES ASSUME SnapInit PROVE SnapInv
  OBVIOUS
<1>1. SnapTypeOK
  BY SnapshotAssumption DEF SnapInit, SnapTypeOK, Idle, Op, Stages
<1>2. Excluded /\ SnapshotsSurvive
  BY DEF SnapInit, Excluded, SnapshotsSurvive, Idle, Op, Busy
<1>3. QED
  BY <1>1, <1>2 DEF SnapInv

\* Track and its references.
LEMMA TrackInv ==
  ASSUME SnapInv, NEW c \in Callers, Track(c) \/ MoveCurrent(c) \/ NameSnapshot(c)
  PROVE  SnapInv'
<1> USE DEF SnapInv
<1>1. CASE Track(c)
  <2>1. PICK parent \in {current, 0} :
          commits' = Append(commits, [tree |-> CaptureCurrentTree, parent |-> parent])
    BY <1>1 DEF Track
  <2>2. [tree |-> CaptureCurrentTree, parent |-> parent] \in Commit
    <3>1. CaptureCurrentTree \in Trees
      BY DEF SnapTypeOK, CaptureCurrentTree, Trees
    <3>2. parent \in 0..MaxSnapshots
      BY <2>1, SnapshotAssumption, LenProperties DEF SnapTypeOK
    <3>3. QED
      BY <3>1, <3>2 DEF Commit
  <2>3. commits' \in Seq(Commit) /\ Len(commits') = Len(commits) + 1
    BY <2>1, <2>2, AppendProperties DEF SnapTypeOK, Commit
  <2>4. Len(commits) \in Nat /\ Len(commits') <= MaxSnapshots
    BY <1>1, <2>3, SnapshotAssumption DEF Track, SnapTypeOK
  <2>5. op' = [op EXCEPT ![c] = [at |-> "track", hash |-> Len(commits'), todo |-> {}, alone |-> TRUE]]
    BY <1>1 DEF Track, Op
  <2>6. SnapTypeOK'
    <3>1. op' \in [Callers -> OpType]
      BY <2>3, <2>4, <2>5, SnapshotAssumption DEF SnapTypeOK, OpType, Stages
    <3>2. UNCHANGED <<work, current, named, returned>> /\ shadowLock' = c
          /\ objects' = objects \cup {Len(commits')}
      BY <1>1 DEF Track, Enter
    <3>3. /\ current' \in 0..Len(commits') /\ named' \subseteq 1..Len(commits')
          /\ objects' \subseteq 1..Len(commits') /\ returned' \subseteq 1..Len(commits')
      <4>1. 1..Len(commits) \subseteq 1..Len(commits') /\ Len(commits') \in 1..Len(commits')
            /\ 0..Len(commits) \subseteq 0..Len(commits')
        BY <2>3, <2>4
      <4>2. QED
        BY <3>2, <4>1 DEF SnapTypeOK
    <3>4. QED
      BY <2>3, <2>4, <3>1, <3>2, <3>3 DEF SnapTypeOK, Commit, OpType
  <2>7. Excluded'
    BY <1>1, <2>3, <2>4, <2>5, SnapshotAssumption DEF Track, Enter, Excluded, Busy, SnapTypeOK
  <2>8. SnapshotsSurvive'
    BY <1>1, <2>5 DEF Track, SnapshotsSurvive, SnapTypeOK
  <2>9. QED
    BY <2>6, <2>7, <2>8
<1>2. CASE MoveCurrent(c)
  <2>1. SnapTypeOK'
    BY <1>2, SnapshotAssumption DEF MoveCurrent, SnapTypeOK, Stages, Excluded
  <2>2. Excluded'
    BY <1>2 DEF MoveCurrent, Excluded, Busy, SnapTypeOK
  <2>3. SnapshotsSurvive'
    BY <1>2 DEF MoveCurrent, SnapshotsSurvive, SnapTypeOK
  <2>4. QED
    BY <2>1, <2>2, <2>3
<1>3. CASE NameSnapshot(c)
  <2>1. op[c].hash \in 1..Len(commits) /\ op[c].hash \in objects
    BY <1>3 DEF NameSnapshot, Excluded, SnapshotsSurvive, SnapTypeOK
  <2>2. SnapTypeOK'
    <3>1. Idle \in OpType
      BY SnapshotAssumption DEF Idle, Op, OpType, Stages
    <3>2. op' \in [Callers -> OpType]
      BY <1>3, <3>1 DEF NameSnapshot, Return, SnapTypeOK, OpType
    <3>3. QED
      BY <1>3, <2>1, <3>2 DEF NameSnapshot, Return, SnapTypeOK, OpType
  <2>3. Excluded'
    BY <1>3 DEF NameSnapshot, Return, Idle, Op, Excluded, Busy, SnapTypeOK
  <2>4. SnapshotsSurvive'
    BY <1>3, <2>1 DEF NameSnapshot, Return, Idle, Op, SnapshotsSurvive, SnapTypeOK
  <2>5. QED
    BY <2>2, <2>3, <2>4
<1>4. QED
  BY <1>1, <1>2, <1>3

\* Restore: a commit that is there is brought back.
LEMMA RestoreInv ==
  ASSUME SnapInv, NEW c \in Callers,
         (\E h \in returned : Restore(c, h)) \/ RemovePath(c) \/ Checkout(c)
  PROVE  SnapInv'
<1> USE DEF SnapInv
<1>1. CASE \E h \in returned : Restore(c, h)
  <2>1. PICK h \in returned : Restore(c, h)
    BY <1>1
  <2>2. PICK added \in Additions(Tree(h), CaptureCurrentTree) :
          op' = [op EXCEPT ![c] = Op("restore", h, {LastField[p] : p \in added})]
    BY <2>1 DEF Restore
  <2>3. {LastField[p] : p \in added} \subseteq Paths
    BY <2>2, RemovesPaths
  <2>4. h \in objects /\ h \in 1..Len(commits) /\ Len(commits) \in Nat
    BY <2>1 DEF Restore, SnapTypeOK
  <2>5. Op("restore", h, {LastField[p] : p \in added}) \in OpType
    BY <2>3, <2>4, SnapshotAssumption DEF Op, OpType, Stages, SnapTypeOK
  <2>6. op' \in [Callers -> OpType]
    BY <2>2, <2>5 DEF SnapTypeOK, OpType
  <2>7. SnapTypeOK'
    BY <2>1, <2>6 DEF Restore, Enter, SnapTypeOK, OpType
  <2>8. Excluded'
    BY <2>1, <2>2, <2>4, SnapshotAssumption DEF Restore, Enter, Op, Excluded, Busy, SnapTypeOK
  <2>9. SnapshotsSurvive'
    BY <2>1, <2>2, <2>4 DEF Restore, Op, SnapshotsSurvive, SnapTypeOK
  <2>10. QED
    BY <2>7, <2>8, <2>9
<1>2. CASE RemovePath(c)
  <2>1. PICK p \in op[c].todo : work' = [work EXCEPT ![p] = Absent]
                               /\ op' = [Alters(c) EXCEPT ![c].todo = @ \ {p}]
    BY <1>2 DEF RemovePath
  <2>2. op \in [Callers -> OpType]
    BY DEF SnapTypeOK, OpType
  <2>3. op' \in [Callers -> OpType]
    BY <2>1, <2>2, AltersKeeps DEF OpType
  <2>4. work' \in Trees
    BY <2>1 DEF SnapTypeOK, Trees
  <2>5. \A d \in Callers : op'[d].at = Alters(c)[d].at /\ op'[d].hash = Alters(c)[d].hash
    BY <2>1, <2>2, AltersKeeps DEF OpType
  <2>6. SnapTypeOK'
    BY <1>2, <2>3, <2>4 DEF RemovePath, SnapTypeOK, OpType
  <2>7. Excluded' /\ SnapshotsSurvive'
    BY <1>2, <2>2, <2>5, AltersKeeps, SMTT(30) DEF RemovePath, Excluded, SnapshotsSurvive, Busy, SnapTypeOK
  <2>8. QED
    BY <2>6, <2>7
<1>3. CASE Checkout(c)
  <2>1. op \in [Callers -> OpType] /\ Alters(c) \in [Callers -> OpType]
    BY AltersKeeps DEF SnapTypeOK, OpType
  <2>2. work' \in Trees
    <3>1. op[c].hash \in 1..Len(commits)
      BY <1>3, <2>1 DEF Checkout, SnapshotsSurvive, SnapTypeOK
    <3>2. Tree(op[c].hash) \in Trees
      <4>1. commits[op[c].hash] \in Commit
        BY <3>1, ElementOfSeq DEF SnapTypeOK, Commit
      <4>2. QED
        BY <4>1 DEF Tree, Commit
    <3>3. QED
      BY <1>3, <3>2 DEF Checkout, CheckedOut, SnapTypeOK, Trees
  <2>3. PICK o \in OpType : op' = [Alters(c) EXCEPT ![c] = o] /\ o.at \notin Busy
                           /\ o.hash \in {Alters(c)[c].hash, 0}
    <3>1. Op("restored", Alters(c)[c].hash, {}) \in OpType /\ Idle \in OpType
      BY <2>1, SnapshotAssumption DEF Op, Idle, OpType, Stages
    <3>2. QED
      BY <1>3, <3>1 DEF Checkout, Op, Idle, Busy
  <2>4. op' \in [Callers -> OpType]
    BY <2>1, <2>3
  <2>5. SnapTypeOK'
    BY <1>3, <2>2, <2>4 DEF Checkout, SnapTypeOK, OpType
  <2>6. \A d \in Callers : d # c => op'[d] = Alters(c)[d]
    BY <2>1, <2>3
  <2>7. op'[c] = o
    BY <2>1, <2>3
  <2>8. Excluded'
    <3>1. \A d \in Callers \ {c} : op[d].at \notin Busy
      BY <1>3 DEF Checkout, Excluded, Busy
    <3>2. QED
      BY <1>3, <2>1, <2>3, <2>6, <2>7, <3>1, AltersKeeps DEF Checkout, Excluded, Busy, SnapTypeOK
  <2>9. SnapshotsSurvive'
    BY <1>3, <2>1, <2>3, <2>6, <2>7, AltersKeeps DEF Checkout, SnapshotsSurvive, Busy
  <2>10. QED
    BY <2>5, <2>8, <2>9
<1>4. QED
  BY <1>1, <1>2, <1>3

\* Prune, and operations that break off.
LEMMA PruneInv ==
  ASSUME SnapInv, NEW c \in Callers,
         Prune(c) \/ DeleteRef(c) \/ Collect(c) \/ GiveUp(c)
  PROVE  SnapInv'
<1> USE DEF SnapInv
<1>1. CASE Prune(c)
  <2>1. PICK cutoff \in 1..Len(commits) :
          op' = [op EXCEPT ![c] = Op("prune", cutoff, {h \in named : h <= cutoff})]
    BY <1>1 DEF Prune
  <2>2. Op("prune", cutoff, {h \in named : h <= cutoff}) \in OpType
    <3>1. cutoff \in 0..MaxSnapshots /\ named \subseteq Hashes
      <4>1. cutoff \in Hashes /\ named \subseteq Hashes
        BY <2>1, Counted DEF SnapTypeOK
      <4>2. QED
        BY <4>1, SnapshotAssumption DEF Hashes
    <3>2. QED
      BY <3>1 DEF Op, OpType, Stages
  <2>3. op' \in [Callers -> OpType]
    BY <2>1, <2>2 DEF SnapTypeOK, OpType
  <2>4. SnapTypeOK'
    BY <1>1, <2>3 DEF Prune, Enter, SnapTypeOK, OpType
  <2>5. Excluded'
    BY <1>1, <2>1, SnapshotAssumption, LenProperties
    DEF Prune, Enter, Op, Excluded, Busy, SnapTypeOK
  <2>6. SnapshotsSurvive'
    BY <1>1, <2>1 DEF Prune, Op, SnapshotsSurvive, SnapTypeOK
  <2>7. QED
    BY <2>4, <2>5, <2>6
<1>2. CASE DeleteRef(c)
  <2>1. PICK h \in op[c].todo : named' = named \ {h} /\ op' = [op EXCEPT ![c].todo = @ \ {h}]
    BY <1>2 DEF DeleteRef
  <2>2. op' \in [Callers -> OpType]
    BY <2>1 DEF SnapTypeOK, OpType
  <2>3. SnapTypeOK'
    BY <1>2, <2>1, <2>2 DEF DeleteRef, SnapTypeOK, OpType
  <2>4. Excluded' /\ SnapshotsSurvive'
    BY <1>2, <2>1 DEF DeleteRef, Excluded, SnapshotsSurvive, Busy, SnapTypeOK
  <2>5. QED
    BY <2>3, <2>4
<1>3. Idle \in OpType /\ Idle.at = "idle" /\ Idle.hash = 0
  BY SnapshotAssumption DEF Idle, Op, OpType, Stages
<1>4. ASSUME op' = [op EXCEPT ![c] = Idle]
      PROVE  op' \in [Callers -> OpType] /\ op'[c] = Idle
             /\ \A d \in Callers : d # c => op'[d] = op[d]
  BY <1>3, <1>4 DEF SnapTypeOK, OpType
<1>5. CASE Collect(c)
  <2>1. /\ op' = [op EXCEPT ![c] = Idle] /\ shadowLock' = "free"
        /\ objects' = objects \cap Reachable(named \cup {current})
        /\ UNCHANGED <<work, commits, current, named, returned>>
    BY <1>5 DEF Collect, Return
  <2>2. SnapTypeOK'
    BY <1>4, <2>1 DEF SnapTypeOK, OpType
  <2>3. \A d \in Callers : d # c => op[d].at \notin Busy
    BY <1>5 DEF Collect, Excluded, Busy
  <2>4. Excluded'
    BY <1>3, <1>4, <2>1, <2>3, LenProperties DEF Excluded, Busy, SnapTypeOK
  <2>5. SnapshotsSurvive'
    <3>1. (named \cup {current}) \ {0} \subseteq Reachable(named \cup {current})
      <4>1. (named \cup {current}) \ {0} \subseteq 1..Len(commits)
        BY LenProperties DEF SnapTypeOK
      <4>2. QED
        BY <4>1, ReferencesReach
    <3>2. named \cup ({current} \ {0}) \subseteq objects'
      <4>1. 0 \notin named
        BY Counted DEF SnapTypeOK
      <4>2. named \cup ({current} \ {0}) \subseteq (named \cup {current}) \ {0}
        BY <4>1
      <4>3. named \cup ({current} \ {0}) \subseteq objects
        BY DEF SnapshotsSurvive
      <4>4. QED
        BY <2>1, <3>1, <4>2, <4>3
    <3>3. QED
      BY <1>3, <1>4, <2>1, <2>3, <3>2 DEF SnapshotsSurvive, Busy
  <2>6. QED
    BY <2>2, <2>4, <2>5
<1>6. CASE GiveUp(c)
  <2>1. /\ op' = [op EXCEPT ![c] = Idle] /\ shadowLock' = "free"
        /\ UNCHANGED <<work, commits, current, named, objects, returned>>
        /\ op[c].at \in Busy
    BY <1>6 DEF GiveUp, Return, Busy
  <2>2. SnapTypeOK'
    BY <1>4, <2>1 DEF SnapTypeOK, OpType
  <2>3. \A d \in Callers : d # c => op[d].at \notin Busy
    BY <2>1 DEF Excluded, Busy
  <2>4. Excluded'
    BY <1>3, <1>4, <2>1, <2>3, LenProperties DEF Excluded, Busy, SnapTypeOK
  <2>5. SnapshotsSurvive'
    BY <1>3, <1>4, <2>1 DEF SnapshotsSurvive
  <2>6. QED
    BY <2>2, <2>4, <2>5
<1>7. QED
  BY <1>1, <1>2, <1>5, <1>6

\* A tool changes the work tree, and nothing of the repository.
LEMMA ToolInv ==
  ASSUME SnapInv, NEW p \in Paths, NEW x \in Contents \cup {Absent}, ToolEdits(p, x)
  PROVE  SnapInv'
<1>1. /\ work' = [work EXCEPT ![p] = x] /\ op' = Alters("tool")
      /\ UNCHANGED <<commits, current, named, objects, returned, shadowLock>>
  BY DEF ToolEdits
<1>2. op \in [Callers -> OpType]
  BY DEF SnapInv, SnapTypeOK, OpType
<1>3. SnapTypeOK'
  BY <1>1, <1>2, AltersKeeps DEF SnapInv, SnapTypeOK, OpType, Trees
<1>4. Excluded' /\ SnapshotsSurvive'
  <2>1. Excluded'
    BY <1>1, <1>2, AltersKeeps, Counted DEF SnapInv, Excluded, Busy
  <2>2. SnapshotsSurvive'
    BY <1>1, <1>2, AltersKeeps DEF SnapInv, SnapshotsSurvive, Busy
  <2>3. QED
    BY <2>1, <2>2
<1>5. QED
  BY <1>3, <1>4 DEF SnapInv

LEMMA SnapInvStep == ASSUME SnapInv, [SnapNext]_snapVars PROVE SnapInv'
<1>1. CASE \E c \in Callers :
             \/ Track(c) \/ MoveCurrent(c) \/ NameSnapshot(c)
             \/ \E h \in returned : Restore(c, h)
             \/ RemovePath(c) \/ Checkout(c)
             \/ Prune(c) \/ DeleteRef(c) \/ Collect(c) \/ GiveUp(c)
  BY <1>1, TrackInv, RestoreInv, PruneInv
<1>2. CASE \E p \in Paths, x \in Contents \cup {Absent} : ToolEdits(p, x)
  BY <1>2, ToolInv
<1>3. CASE UNCHANGED snapVars
  BY <1>3 DEF snapVars, SnapInv, SnapTypeOK, Excluded, SnapshotsSurvive, Busy
<1>4. QED
  BY <1>1, <1>2, <1>3 DEF SnapNext

\* Whatever commands fail, and whoever tracks, restores, prunes or edits: each
\* variable keeps its type, and the lock is held by whoever is at work.
THEOREM AlwaysSnapInv == SnapSpec => []SnapInv
<1>1. SnapInv /\ [SnapNext]_snapVars => SnapInv'
  BY SnapInvStep
<1>2. QED
  BY <1>1, SnapInvInit, PTL DEF SnapSpec

\* The types of the snapshot manager's state (snapshot.go:39-47), for any work tree.
THEOREM SnapTypeCorrect == SnapSpec => []SnapTypeOK
<1>1. SnapInv => SnapTypeOK
  BY DEF SnapInv
<1>2. QED
  BY <1>1, AlwaysSnapInv, PTL

\* The collection at the end of Prune (snapshot.go:245) never takes a commit
\* that is referenced, being made or being restored, for any number of callers
\* of one Manager.
THEOREM SnapshotsAreSafe == SnapSpec => []SnapshotsSurvive
<1>1. SnapInv => SnapshotsSurvive
  BY DEF SnapInv
<1>2. QED
  BY <1>1, AlwaysSnapInv, PTL

-----------------------------------------------------------------------------
(* What Restore brings back.                                                *)

\* The snapshot a caller has restored, and nobody has changed since.
Restored ==
  \A c \in Callers : op[c].at = "restored" =>
    /\ op[c].hash \in 1..Len(commits)
    /\ \A p \in Paths : Tree(op[c].hash)[p] # Absent => work[p] = Tree(op[c].hash)[p]

\* A step that leaves the work tree and the commits made alone.
LEMMA RestoredStays ==
  ASSUME SnapInv, Restored,
         work' = work,
         commits' = commits \/ \E k \in Commit : commits' = Append(commits, k),
         \A c \in Callers : op'[c].at = "restored" => op'[c] = op[c]
  PROVE  Restored'
<1>1. commits \in Seq(Commit) /\ Len(commits) \in Nat
  BY Counted DEF SnapInv, SnapTypeOK, Commit
<1>2. \A h \in 1..Len(commits) : h \in 1..Len(commits') /\ commits'[h] = commits[h]
  BY <1>1, AppendProperties
<1>3. QED
  BY <1>2 DEF Restored, Tree

\* A step that changes the work tree: what had been restored is gone.
LEMMA RestoredEnds ==
  ASSUME SnapInv, NEW who, NEW c \in Callers, Alters(who)[c].at = "restored"
  PROVE  c = who
<1>1. CASE c # who /\ op[c].at = "restored"
  <2>1. Alters(who)[c] = Idle
    BY <1>1 DEF Alters
  <2>2. QED
    BY <2>1 DEF Idle, Op
<1>2. CASE c # who /\ op[c].at = "restore"
  <2>1. Alters(who)[c] = [op[c] EXCEPT !.alone = FALSE]
    BY <1>2 DEF Alters
  <2>2. QED
    BY <1>2, <2>1 DEF SnapInv, SnapTypeOK
<1>3. CASE c # who /\ op[c].at \notin {"restore", "restored"}
  <2>1. Alters(who)[c] = op[c]
    BY <1>3 DEF Alters
  <2>2. QED
    BY <1>3, <2>1
<1>4. QED
  BY <1>1, <1>2, <1>3

LEMMA StepRestored == ASSUME SnapInv, Restored, [SnapNext]_snapVars PROVE Restored'
<1> USE DEF Busy
<1>0. op \in [Callers -> OpType]
  BY DEF SnapInv, SnapTypeOK, OpType
<1>1. ASSUME NEW c \in Callers, Track(c) PROVE Restored'
  <2>1. /\ work' = work
        /\ \E parent \in {current, 0} :
             commits' = Append(commits, [tree |-> CaptureCurrentTree, parent |-> parent])
        /\ op' = [op EXCEPT ![c] = Op("track", Len(commits'), {})]
    BY <1>1 DEF Track
  <2>2. CaptureCurrentTree \in Trees
    BY DEF SnapInv, SnapTypeOK, CaptureCurrentTree, Trees
  <2>3. {current, 0} \subseteq 0..MaxSnapshots
    BY Counted, SnapshotAssumption DEF SnapInv, SnapTypeOK
  <2>4. \E k \in Commit : commits' = Append(commits, k)
    BY <2>1, <2>2, <2>3 DEF Commit
  <2>5. \A d \in Callers : op'[d].at = "restored" => op'[d] = op[d]
    BY <1>0, <2>1 DEF Op
  <2>6. QED
    BY <2>1, <2>4, <2>5, RestoredStays
<1>2. ASSUME NEW c \in Callers,
             \/ MoveCurrent(c) \/ NameSnapshot(c) \/ \E h \in returned : Restore(c, h)
             \/ Prune(c) \/ DeleteRef(c) \/ Collect(c) \/ GiveUp(c)
      PROVE Restored'
  <2>1. work' = work /\ commits' = commits
    BY <1>2 DEF MoveCurrent, NameSnapshot, Restore, Prune, DeleteRef, Collect, GiveUp
  <2>2. CASE MoveCurrent(c) \/ DeleteRef(c)
    <3>1. \A d \in Callers : op'[d].at = "restored" => op'[d] = op[d]
      BY <1>0, <2>2 DEF MoveCurrent, DeleteRef, OpType
    <3>2. QED
      BY <2>1, <3>1, RestoredStays
  <2>3. CASE NameSnapshot(c) \/ Collect(c) \/ GiveUp(c)
    <3>1. \A d \in Callers : op'[d].at = "restored" => op'[d] = op[d]
      BY <1>0, <2>3 DEF NameSnapshot, Collect, GiveUp, Return, Idle, Op
    <3>2. QED
      BY <2>1, <3>1, RestoredStays
  <2>4. CASE Prune(c) \/ \E h \in returned : Restore(c, h)
    <3>1. \A d \in Callers : op'[d].at = "restored" => op'[d] = op[d]
      BY <1>0, <2>4 DEF Prune, Restore, Op
    <3>2. QED
      BY <2>1, <3>1, RestoredStays
  <2>5. QED
    BY <1>2, <2>2, <2>3, <2>4
<1>3. ASSUME NEW c \in Callers, RemovePath(c) PROVE Restored'
  <2>1. PICK p \in op[c].todo : op' = [Alters(c) EXCEPT ![c].todo = @ \ {p}]
    BY <1>3 DEF RemovePath
  <2>2. \A d \in Callers : op'[d].at = Alters(c)[d].at
    BY <1>0, <2>1, AltersKeeps DEF OpType
  <2>3. Alters(c)[c].at = "restore"
    BY <1>3 DEF RemovePath, Alters
  <2>4. \A d \in Callers : op'[d].at # "restored"
    BY <2>2, <2>3, RestoredEnds
  <2>5. QED
    BY <2>4 DEF Restored
<1>4. ASSUME NEW c \in Callers, Checkout(c) PROVE Restored'
  <2>1. op[c].hash \in 1..Len(commits)
    BY <1>4 DEF Checkout, SnapInv, SnapshotsSurvive, SnapTypeOK
  <2>2. Alters(c) \in [Callers -> OpType] /\ Alters(c)[c] = op[c]
    BY <1>0, AltersKeeps DEF Alters
  <2>3. /\ work' = CheckedOut(op[c].hash) /\ commits' = commits
        /\ op' = [Alters(c) EXCEPT ![c] = IF op[c].alone THEN Op("restored", op[c].hash, {}) ELSE Idle]
    BY <1>4, <2>2 DEF Checkout
  <2>4. \A d \in Callers \ {c} : op'[d].at # "restored"
    BY <2>2, <2>3, RestoredEnds
  <2>5. op'[c].at = "restored" => op'[c].hash = op[c].hash
    BY <2>2, <2>3 DEF Op, Idle
  <2>6. \A p \in Paths :
          Tree(op[c].hash)[p] # Absent => CheckedOut(op[c].hash)[p] = Tree(op[c].hash)[p]
    BY DEF CheckedOut
  <2>7. QED
    BY <2>1, <2>3, <2>4, <2>5, <2>6 DEF Restored, Tree
<1>5. ASSUME NEW p \in Paths, NEW x \in Contents \cup {Absent}, ToolEdits(p, x)
      PROVE  Restored'
  <2>1. \A d \in Callers : op'[d].at # "restored"
    BY <1>5, RestoredEnds, SnapshotAssumption DEF ToolEdits
  <2>2. QED
    BY <2>1 DEF Restored
<1>6. CASE UNCHANGED snapVars
  BY <1>6 DEF snapVars, Restored, Tree
<1>7. QED
  BY <1>1, <1>2, <1>3, <1>4, <1>5, <1>6 DEF SnapNext

\* A Restore nobody disturbed has brought back every file of the snapshot
\* (snapshot.go:160-174), whatever renames and odd names made it remove, and
\* however many earlier ones broke off.
THEOREM RestoreIsComplete == SnapSpec => []RestoreBringsBack
<1>1. SnapInit => Restored
  BY DEF SnapInit, Restored, Idle, Op
<1>2. SnapInv /\ Restored /\ [SnapNext]_snapVars => Restored'
  BY StepRestored
<1>3. Restored => RestoreBringsBack
  BY DEF Restored, RestoreBringsBack
<1>4. QED
  BY <1>1, <1>2, <1>3, AlwaysSnapInv, PTL DEF SnapSpec
=============================================================================
