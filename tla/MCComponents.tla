---------------------------- MODULE MCComponents ------------------------------
(***************************************************************************)
(* Small instances of the components that share no state with one another, *)
(* checked side by side: a behaviour takes the steps of one of them, "part",*)
(* and the others rest in their initial states.                             *)
(***************************************************************************)
EXTENDS Snapshot, EventFeed, RunsListing, Sessions, Memory, Configuration,
        ProviderStream, Skills

CONSTANTS
  Parts,   \* the components to be checked
  f, xf    \* files: "f", and "x f", whose status line ends with "f" too

VARIABLE part

vars == <<part, snapVars, feedVars, listingVars, sessVars, memVars, configVars,
          streamVars, skillVars>>

-----------------------------------------------------------------------------
(* The instances.                                                           *)

\* Snapshot: what the status lines are read as.
MCPaths == {f, xf}
EndsWithF == [p \in MCPaths |-> f]

\* RunsListing: pages of one, of more than there is, and of what failed.
MCQueries ==
  [limit : {0, 1, 9, -1}, status : {""}] \cup [limit : {1}, status : {"failed", "running"}]

\* Memory: lines of 2, 3 and 4 bytes; two of them fit.
MCTopics == 1..3
MCLineBytes == [t \in MCTopics |-> t + 1]
MCHeader == <<2, 0>>

\* Configuration: a number, a setting that may be unset, and a flag, which a file
\* may turn on, turn off ("zero"), or leave alone.
MCSettings == {"turns", "memory", "disabled"}
MCDefaults ==
  [set \in MCSettings |-> IF set = "turns" THEN "w" ELSE "unset"]
MCFiles ==
  {file \in [MCSettings -> {"v", "w", "zero", "unset"}] :
     /\ file["memory"] # "w" /\ file["disabled"] # "w"
     /\ \E set \in MCSettings : file[set] = "unset"}

\* ProviderStream: up to three blocks, a call's arguments in two pieces.
Block(kind) == [kind |-> kind, pieces |-> IF kind = "call" THEN 2 ELSE 1]
MCReplies == UNION {[1..n -> {Block(k) : k \in {"text", "thinking", "call"}}] : n \in 0..3}

-----------------------------------------------------------------------------

\* A component that rests has one initial state.
Resting ==
  /\ part # "snapshot" => work = [p \in Paths |-> Absent]
  /\ part # "skills" => files = [d \in Dirs |-> [n \in Skills |-> "none"]]
  /\ part # "providers" => protocol = "google" /\ reply = <<>>

Init ==
  /\ part \in Parts
  /\ SnapInit /\ FeedInit /\ ListingInit /\ SessInit /\ MemInit /\ ConfigInit
  /\ StreamInit /\ SkillInit /\ Resting

Next ==
  /\ UNCHANGED part
  /\ \/ /\ part = "snapshot" /\ SnapNext
        /\ UNCHANGED <<feedVars, listingVars, sessVars, memVars, configVars, streamVars, skillVars>>
     \/ /\ part = "feed" /\ FeedNext
        /\ UNCHANGED <<snapVars, listingVars, sessVars, memVars, configVars, streamVars, skillVars>>
     \/ /\ part = "listing" /\ ListingNext
        /\ UNCHANGED <<snapVars, feedVars, sessVars, memVars, configVars, streamVars, skillVars>>
     \/ /\ part = "sessions" /\ SessNext
        /\ UNCHANGED <<snapVars, feedVars, listingVars, memVars, configVars, streamVars, skillVars>>
     \/ /\ part = "memory" /\ MemNext
        /\ UNCHANGED <<snapVars, feedVars, listingVars, sessVars, configVars, streamVars, skillVars>>
     \/ /\ part = "config" /\ ConfigNext
        /\ UNCHANGED <<snapVars, feedVars, listingVars, sessVars, memVars, streamVars, skillVars>>
     \/ /\ part = "providers" /\ StreamNext
        /\ UNCHANGED <<snapVars, feedVars, listingVars, sessVars, memVars, configVars, skillVars>>
     \/ /\ part = "skills" /\ SkillNext
        /\ UNCHANGED <<snapVars, feedVars, listingVars, sessVars, memVars, configVars, streamVars>>

Spec == Init /\ [][Next]_vars

\* Every variable of every component keeps its type; the channels, the history
\* and the listing keep within their bounds.
TypesOK ==
  /\ SnapTypeOK /\ FeedTypeOK /\ SessTypeOK /\ MemTypeOK /\ ConfigTypeOK
  /\ StreamTypeOK /\ SkillTypeOK
  /\ Len(runs) <= MaxRuns
=============================================================================
