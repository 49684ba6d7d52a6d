-------------------------------- MODULE Skills --------------------------------
(***************************************************************************)
(* The activate_skill tool and its loader.  The process has one of each,    *)
(* and every session's calls go through it: a call fills the catalog if it  *)
(* is empty, directory by directory and skill by skill, in maps that no     *)
(* lock protects, and then loads the skill it names, unless that has been   *)
(* activated already.  The skill files may change meanwhile.                *)
(***************************************************************************)
EXTENDS Naturals, FiniteSets

CONSTANTS
  Skills,       \* the names of skills
  SearchPaths,  \* how many directories are searched, the last has precedence
  Users         \* the sessions of the process

ASSUME SkillsAssumption == SearchPaths \in Nat /\ "" \notin Skills

VARIABLES
  files,      \* what each directory has for each name
  paths,      \* FSLoader.paths: the directory a skill is loaded from, 0 for none
  entries,    \* skillTool.entries and validNames: the catalog
  activated,  \* skillTool.activated
  user,       \* each session's call
  told,       \* what the calls of each session have been answered
  fresh       \* since discoveries began that may have overlapped, and none was
              \* under way before, no file has changed and none has failed

skillVars == <<files, paths, entries, activated, user, told, fresh>>

Dirs == 1..SearchPaths

\* "broken": ParseFile refuses it, for its frontmatter, name or directory.
SkillFile == {"none", "broken", "good"}
Answers == {"content", "already", "unknown", "error"}

NoPaths == [n \in Skills |-> 0]

\* dir: the directory listed last; left: its names still to be read; parsed: the
\* skill read from it and not yet entered; path: where Activate found the skill.
Calling(at, n) ==
  [at |-> at, name |-> n, again |-> FALSE, dir |-> 0, left |-> {}, parsed |-> "", path |-> 0]
Waiting == Calling("idle", "")

SkillInit ==
  /\ files \in [Dirs -> [Skills -> {"none", "good"}]]
  /\ paths = NoPaths /\ entries = {} /\ activated = {}
  /\ user = [s \in Users |-> Waiting]
  /\ told = [s \in Users |-> [n \in Skills |-> {}]]
  /\ fresh = FALSE

-----------------------------------------------------------------------------
(* FSLoader.                                                                *)

Scanning == \E s \in Users : user[s].at = "scan"

\* Discover begins: the maps are new, also to a discovery that is under way.
\* "again": it was Activate that called it.
Discover(s, n, again) ==
  /\ paths' = NoPaths
  /\ fresh' = (Scanning => fresh)
  /\ user' = [user EXCEPT ![s] = [Calling("scan", n) EXCEPT !.again = again]]

\* A directory has been gone through, or none has yet.
BetweenDirs(s) == user[s].at = "scan" /\ user[s].left = {} /\ user[s].parsed = ""

\* discoverInDir: the next directory is listed, with the names that have no
\* SKILL.md.
ListDir(s) ==
  /\ BetweenDirs(s) /\ user[s].dir < SearchPaths
  /\ \E names \in SUBSET Skills :
       /\ {n \in Skills : files[user[s].dir + 1][n] # "none"} \subseteq names
       /\ user' = [user EXCEPT ![s].dir = @ + 1, ![s].left = names]
  /\ UNCHANGED <<files, paths, entries, activated, told, fresh>>

\* One name of it: a skill that does not parse is skipped,
ParseSkill(s, n) ==
  /\ user[s].at = "scan" /\ user[s].parsed = "" /\ n \in user[s].left
  /\ user' = [user EXCEPT ![s].left = @ \ {n},
                          ![s].parsed = IF files[user[s].dir][n] = "good" THEN n ELSE ""]
  /\ UNCHANGED <<files, paths, entries, activated, told, fresh>>

\* Mutation: the first skill of a name is kept.
EnteredFirst(n, dir) == IF paths[n] = 0 THEN [paths EXCEPT ![n] = dir] ELSE paths

\* A skill of a later directory replaces one of the same name.
Entered(n, dir) == [paths EXCEPT ![n] = dir]

\* and one that does is entered, in the maps as they are now.
EnterSkill(s) ==
  /\ user[s].at = "scan" /\ user[s].parsed # ""
  /\ paths' = Entered(user[s].parsed, user[s].dir)
  /\ user' = [user EXCEPT ![s].parsed = ""]
  /\ UNCHANGED <<files, entries, activated, told, fresh>>

Answer(s, answer) ==
  /\ told' = [told EXCEPT ![s][user[s].name] = @ \cup {answer}]
  /\ user' = [user EXCEPT ![s] = Waiting]

\* A directory that is there and cannot be listed ends the call, half of the
\* maps filled.
ScanFails(s) ==
  /\ BetweenDirs(s) /\ user[s].dir < SearchPaths
  /\ Answer(s, "error") /\ fresh' = FALSE
  /\ UNCHANGED <<files, paths, entries, activated>>

-----------------------------------------------------------------------------
(* skillTool.Call.                                                          *)

\* ensureCatalog: an empty catalog is filled, every time.
Call(s, n) ==
  /\ user[s].at = "idle"
  /\ IF entries # {}
     THEN /\ user' = [user EXCEPT ![s] = Calling("ready", n)]
          /\ UNCHANGED <<paths, fresh>>
     ELSE Discover(s, n, FALSE)
  /\ UNCHANGED <<files, entries, activated, told>>

\* Discover returns: to the tool, which copies the catalog, or to Activate,
\* which looks for the path once more.
Discovered(s) ==
  /\ BetweenDirs(s) /\ user[s].dir = SearchPaths
  /\ IF user[s].again
     THEN /\ user' = [user EXCEPT ![s].at = "load", ![s].path = paths[user[s].name]]
          /\ UNCHANGED entries
     ELSE /\ user' = [user EXCEPT ![s].at = "ready"]
          /\ entries' = {n \in Skills : paths[n] # 0}
  /\ UNCHANGED <<files, paths, activated, told, fresh>>

\* The name is marked before the skill is loaded.
Mark(s) ==
  /\ user[s].at = "ready"
  /\ IF user[s].name \in entries \ activated
     THEN /\ activated' = activated \cup {user[s].name}
          /\ user' = [user EXCEPT ![s].at = "activate"]
          /\ UNCHANGED told
     ELSE /\ Answer(s, IF user[s].name \in entries THEN "already" ELSE "unknown")
          /\ UNCHANGED activated
  /\ UNCHANGED <<files, paths, entries, fresh>>

\* Activate: a name without a path is looked for once more.
Activate(s) ==
  /\ user[s].at = "activate"
  /\ IF paths[user[s].name] = 0
     THEN Discover(s, user[s].name, TRUE)
     ELSE /\ user' = [user EXCEPT ![s].at = "load", ![s].path = paths[user[s].name]]
          /\ UNCHANGED <<paths, fresh>>
  /\ UNCHANGED <<files, entries, activated, told>>

\* ParseFile of the path that was found, as the file is now.
LoadSkill(s) ==
  /\ user[s].at = "load"
  /\ LET dir == user[s].path
     IN  Answer(s, IF dir # 0 /\ files[dir][user[s].name] = "good" THEN "content" ELSE "error")
  /\ UNCHANGED <<files, paths, entries, activated, fresh>>

\* Somebody edits, adds or removes a skill.
EditSkill(d, n, x) ==
  /\ files[d][n] # x
  /\ files' = [files EXCEPT ![d][n] = x]
  /\ fresh' = FALSE
  /\ UNCHANGED <<paths, entries, activated, user, told>>

SkillNext ==
  \/ \E s \in Users :
       \/ \E n \in Skills : Call(s, n) \/ ParseSkill(s, n)
       \/ ListDir(s) \/ EnterSkill(s) \/ ScanFails(s) \/ Discovered(s)
       \/ Mark(s) \/ Activate(s) \/ LoadSkill(s)
  \/ \E d \in Dirs, n \in Skills, x \in SkillFile : EditSkill(d, n, x)

SkillSpec == SkillInit /\ [][SkillNext]_skillVars

-----------------------------------------------------------------------------
(* Properties.                                                              *)

SkillTypeOK ==
  /\ files \in [Dirs -> [Skills -> SkillFile]]
  /\ paths \in [Skills -> Dirs \cup {0}]
  /\ entries \subseteq Skills /\ activated \subseteq Skills
  /\ user \in [Users -> [at : {"idle", "scan", "ready", "activate", "load"},
                         name : Skills \cup {""}, again : BOOLEAN, dir : 0..SearchPaths,
                         left : SUBSET Skills, parsed : Skills \cup {""}, path : Dirs \cup {0}]]
  /\ told \in [Users -> [Skills -> SUBSET Answers]]
  /\ fresh \in BOOLEAN

Holders(n) == {d \in Dirs : files[d][n] = "good"}
Highest(n) == CHOOSE d \in Holders(n) : \A e \in Holders(n) : e <= d

\* "de-duplicated by name with project scope taking precedence over user scope"
\* (skill.go:190), though discoveries that overlap fill one map, which each new
\* one empties, with what they had read before: when they are all over, none
\* failed and no file changed since the first of them began, each skill is
\* loaded from the last directory that has it, and none is missing.
ProjectSkillsWin ==
  fresh /\ ~Scanning =>
    \A n \in Skills : paths[n] = IF Holders(n) = {} THEN 0 ELSE Highest(n)

\* "If the skill was already activated in this session it returns a short
\* acknowledgement instead" (skill.go:154): who is told so has the content.
\* The set of activated names is the process's, not the session's.
AlreadyMeansDelivered ==
  \A s \in Users, n \in Skills : "already" \in told[s][n] => "content" \in told[s][n]
=============================================================================
