-------------------------------- MODULE Memory --------------------------------
(***************************************************************************)
(* A memory directory: topic files, and the index of them that is put into  *)
(* every request.  WriteTopic and DeleteTopic change a file and then build  *)
(* the index anew, in steps that take no lock; either part may fail.  The   *)
(* index is cut to a number of lines and of bytes, when it is built and     *)
(* when it is loaded.                                                       *)
(***************************************************************************)
EXTENDS Integers, Sequences, FiniteSets, SequencesExt, FiniteSetsExt

CONSTANTS
  Topics,     \* the names, in alphabetical order: numbers
  LineBytes,  \* [Topics -> Nat]: the length of a topic's line
  Header,     \* the lengths of the lines before the entries
  MaxLines,   \* MaxIndexLines (200 in the code)
  MaxBytes,   \* MaxIndexBytes (25 000 in the code)
  Keepers     \* the processes that write to the directory

ASSUME MemoryAssumption ==
  /\ Topics \subseteq Nat /\ IsFiniteSet(Topics)
  /\ LineBytes \in [Topics -> Nat] /\ Header \in Seq(Nat)
  /\ MaxLines \in Nat /\ MaxBytes \in Nat
  /\ "tool" \notin Keepers

VARIABLES
  topics,    \* the topic files
  unparsed,  \* the files without the frontmatter of a topic
  index,     \* the topics MEMORY.md lists, in its order
  keeper     \* each process: where it is, and what it has found

memVars == <<topics, unparsed, index, keeper>>

Keeping(at, found) == [at |-> at, found |-> found, alone |-> TRUE]

MemInit ==
  /\ topics = {} /\ unparsed = {}
  /\ index = <<>>
  /\ keeper = [k \in Keepers |-> Keeping("idle", {})]

-----------------------------------------------------------------------------
(* The limits.                                                              *)

Bytes(lines) ==
  LET upTo[n \in 0..Len(lines)] == IF n = 0 THEN 0 ELSE upTo[n - 1] + lines[n]
  IN  upTo[Len(lines)]

\* strings.Join: a newline between the lines.
Joined(lines) == Bytes(lines) + (IF lines = <<>> THEN 0 ELSE Len(lines) - 1)

\* Mutation: the bytes are counted without the newlines.
ClipUnjoined(lines) ==
  LET fits == {n \in 0..Len(lines) : n <= MaxLines /\ Bytes(SubSeq(lines, 1, n)) <= MaxBytes}
  IN  SubSeq(lines, 1, Max(fits))

\* First the lines are cut, then the last is dropped until the bytes fit.
Clip(lines) ==
  LET cut == IF Len(lines) > MaxLines THEN MaxLines ELSE Len(lines)
      dropped[n \in 0..cut] ==
        IF Joined(SubSeq(lines, 1, n)) > MaxBytes /\ n > 0 THEN dropped[n - 1] ELSE n
  IN  SubSeq(lines, 1, dropped[cut])

\* The index as it is built: header, entries, and the end of the last line.
IndexLines(names) == Header \o [i \in DOMAIN names |-> LineBytes[names[i]]] \o <<0>>

\* The i-th name has i names up to it.
Alphabetical(S) ==
  [i \in 1..Cardinality(S) |-> CHOOSE t \in S : Cardinality({u \in S : u <= t}) = i]

\* The entries that are left of it.
Kept(names) ==
  LET lines == Len(Clip(IndexLines(names))) - Len(Header)
  IN  SubSeq(names, 1, IF lines > Len(names) THEN Len(names) ELSE lines)

-----------------------------------------------------------------------------
(* The operations.                                                          *)

\* A file or the index changes: no other process is alone with the directory.
Disturbs(who) == [k \in Keepers |-> [keeper[k] EXCEPT !.alone = @ /\ (k = who \/ keeper[k].at = "idle")]]

\* WriteTopic, up to the index.
WriteTopic(k, t) ==
  /\ keeper[k].at \in {"idle", "built"}
  /\ topics' = topics \cup {t}
  /\ unparsed' = unparsed \ {t}
  /\ keeper' = [Disturbs(k) EXCEPT ![k] = Keeping("changed", {})]
  /\ UNCHANGED index

\* DeleteTopic, up to the index: a missing file is no error.
DeleteTopic(k, t) ==
  /\ keeper[k].at \in {"idle", "built"}
  /\ topics' = topics \ {t}
  /\ unparsed' = unparsed \ {t}
  /\ keeper' = [Disturbs(k) EXCEPT ![k] = Keeping("changed", {})]
  /\ UNCHANGED index

\* The file is created or cut to nothing, and not written: an error, no index.
WriteBreaksOff(k, t) ==
  /\ keeper[k].at \in {"idle", "built"}
  /\ topics' = topics \cup {t} /\ unparsed' = unparsed \cup {t}
  /\ keeper' = [Disturbs(k) EXCEPT ![k] = Keeping("idle", {})]
  /\ UNCHANGED index

\* RebuildIndex: the directory is listed,
ListTopics(k) ==
  /\ keeper[k].at = "changed"
  /\ keeper' = [keeper EXCEPT ![k].at = "listed", ![k].found = topics]
  /\ UNCHANGED <<topics, unparsed, index>>

\* each file is read, those that cannot be are left out,
ReadTopics(k) ==
  /\ keeper[k].at = "listed"
  /\ keeper' = [keeper EXCEPT ![k].at = "read",
                              ![k].found = (@ \cap topics) \ unparsed]
  /\ UNCHANGED <<topics, unparsed, index>>

\* and the index is written.
WriteIndex(k) ==
  /\ keeper[k].at = "read"
  /\ index' = Kept(Alphabetical(keeper[k].found))
  /\ keeper' = [Disturbs(k) EXCEPT ![k].at = "built"]
  /\ UNCHANGED <<topics, unparsed>>

\* A step fails, and the error is returned: the index is as it was, or broken
\* off if it was being written.
RebuildFails(k) ==
  /\ keeper[k].at \in {"changed", "listed", "read"}
  /\ \/ index' = index
     \/ keeper[k].at = "read" /\ index' = <<>>
  /\ keeper' = [Disturbs(k) EXCEPT ![k] = Keeping("idle", {})]
  /\ UNCHANGED <<topics, unparsed>>

\* A tool edits a topic file by hand, and leaves it without its frontmatter.
EditByHand(t) ==
  /\ t \in topics
  /\ unparsed' = unparsed \cup {t}
  /\ keeper' = Disturbs("tool")
  /\ UNCHANGED <<topics, index>>

MemNext ==
  \/ \E k \in Keepers :
       \/ \E t \in Topics : WriteTopic(k, t) \/ WriteBreaksOff(k, t) \/ DeleteTopic(k, t)
       \/ ListTopics(k) \/ ReadTopics(k) \/ WriteIndex(k) \/ RebuildFails(k)
  \/ \E t \in Topics : EditByHand(t)

MemSpec == MemInit /\ [][MemNext]_memVars

-----------------------------------------------------------------------------
(* Properties.                                                              *)

MemTypeOK ==
  /\ topics \subseteq Topics /\ unparsed \subseteq topics
  /\ index \in Seq(Topics)
  /\ keeper \in [Keepers -> [at : {"idle", "changed", "listed", "read", "built"},
                             found : SUBSET Topics, alone : BOOLEAN]]

\* Whatever failed, and whoever wrote beside whom: the index on disk, with its
\* header, is within both limits, as the string it is (the newlines count).
\* Which entries go when not all fit is not claimed.
IndexFits ==
  LET text == Header \o [i \in DOMAIN index |-> LineBytes[index[i]]]
  IN  index # <<>> => Len(text) <= MaxLines /\ Joined(text) <= MaxBytes

\* A change that returned without error, and met no other, leaves an index that
\* lists topics that exist, each once, and all of them when they fit, even if
\* earlier changes had failed halfway.
IndexFollowsTopics ==
  \A k \in Keepers :
    keeper[k].at = "built" /\ keeper[k].alone =>
      LET readable == topics \ unparsed
      IN  /\ ToSet(index) \subseteq readable /\ Len(index) = Cardinality(ToSet(index))
          /\ Clip(IndexLines(Alphabetical(readable))) = IndexLines(Alphabetical(readable))
               => ToSet(index) = readable

\* The index that goes into the requests fits, and says what there is.
IndexIsRight == IndexFits /\ IndexFollowsTopics
=============================================================================
