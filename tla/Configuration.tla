---------------------------- MODULE Configuration -----------------------------
(***************************************************************************)
(* Loading the configuration: defaults, then the first file found of each   *)
(* scope, system, user and project, then the environment, each merged into  *)
(* what is there.  How a setting merges depends on its kind; a file that    *)
(* cannot be read or parsed, or a bad number in the environment, fails the  *)
(* whole load.                                                              *)
(***************************************************************************)
EXTENDS Naturals, Sequences, FiniteSets

CONSTANTS
  Plain,     \* settings whose zero value says nothing: strings, numbers, lists,
             \* and the fields of providers, models and agents
  Optional,  \* settings that tell unset from zero: pointers, servers, hooks
  Flags,     \* settings that are only ever turned on: Disabled; off is a zero
  Defaults,  \* [Settings -> Values \cup {Unset}]
  Values,    \* the values that are not zero
  Zero, Unset,
  Files,     \* the contents a file may have: what it says of each setting
  Environ,   \* the settings the environment may override
  Bad        \* a value the environment may have and Load refuses

Settings == Plain \cup Optional \cup Flags
Said == Values \cup {Zero, Unset}

ASSUME ConfigurationAssumption ==
  /\ Plain \cap Optional = {} /\ Flags \cap (Plain \cup Optional) = {}
  /\ {Zero, Unset, Bad} \cap Values = {} /\ Cardinality({Zero, Unset, Bad}) = 3
  /\ Defaults \in [Settings -> Values \cup {Unset}]
  /\ Files \subseteq [Settings -> Said]
  /\ Environ \subseteq Settings \ Flags

Scopes == <<"system", "user", "project">>
Sources == 1..(Len(Scopes) + 1)

VARIABLES
  source,   \* the source to be merged next
  cfg,      \* the configuration so far
  said,     \* what the sources merged so far say
  loading   \* Load: under way, returned, or failed

configVars == <<source, cfg, said, loading>>

ConfigInit ==
  /\ source = 1 /\ cfg = Defaults /\ loading = "merging"
  /\ said = [n \in Sources |-> [s \in Settings |-> Unset]]

-----------------------------------------------------------------------------

\* Mutation: a zero value overrides too.
MergeZeros(dst, src) ==
  [s \in Settings |-> IF src[s] = Unset THEN dst[s] ELSE src[s]]

\* mergeConfig and the functions it calls, setting by setting.
MergeConfig(dst, src) ==
  [s \in Settings |->
     CASE src[s] = Unset -> dst[s]
       [] s \in Plain \cup Flags /\ src[s] = Zero -> dst[s]
       [] OTHER -> src[s]]

Merge(file) ==
  /\ cfg' = MergeConfig(cfg, file)
  /\ said' = [said EXCEPT ![source] = file]
  /\ source' = source + 1

\* What may be at a path.
AtPath == {"nothing", "directory", "broken", "unreadable", "file"}

\* firstExistingFile: config.json, else config.jsonc.
FirstExistingFile(json, jsonc) ==
  IF json \notin {"nothing", "directory"} THEN json ELSE jsonc

\* One scope: no file, a file merged, or a failure.
LoadFile ==
  /\ loading = "merging" /\ source <= Len(Scopes)
  /\ \E json, jsonc \in AtPath :
       LET found == FirstExistingFile(json, jsonc)
       IN  \/ /\ found \in {"nothing", "directory"}
              /\ source' = source + 1 /\ UNCHANGED <<cfg, said, loading>>
           \/ /\ found = "file"
              /\ \E file \in Files : Merge(file)
              /\ UNCHANGED loading
           \/ /\ found \in {"broken", "unreadable"}
              /\ loading' = "failed" /\ UNCHANGED <<source, cfg, said>>

\* What the variables may say: an empty one nothing; false is a value to an
\* optional setting, a number that is not positive is refused.
Environments ==
  {env \in [Environ -> Said \cup {Bad}] : \A s \in Environ : env[s] = Zero => s \in Optional}

ApplyEnvOverrides ==
  /\ loading = "merging" /\ source = Len(Scopes) + 1
  /\ \E env \in Environments :
       IF \E s \in Environ : env[s] = Bad
       THEN loading' = "failed" /\ UNCHANGED <<source, cfg, said>>
       ELSE /\ loading' = "loaded"
            /\ Merge([s \in Settings |-> IF s \in Environ THEN env[s] ELSE Unset])

ConfigNext == LoadFile \/ ApplyEnvOverrides

ConfigSpec == ConfigInit /\ [][ConfigNext]_configVars

-----------------------------------------------------------------------------
(* Properties.                                                              *)

ConfigTypeOK ==
  /\ source \in 1..(Len(Scopes) + 2)
  /\ cfg \in [Settings -> Said] /\ said \in [Sources -> [Settings -> Said]]
  /\ loading \in {"merging", "loaded", "failed"}

\* The sources whose word on a setting counts: a value does, and a zero only
\* of an optional setting.
Deciding(s) ==
  {n \in Sources : said[n][s] # Unset /\ (s \in Plain \cup Flags => said[n][s] # Zero)}

\* Across three files and the environment, whatever the sources say of other
\* settings: a loaded configuration has of each setting the last value said of
\* it, or the last zero of an optional one, and the default if there is none.
\* This is less than "later sources override earlier ones" (config.go:3): a
\* zero or false that the last source says of any other setting is skipped
\* (mergeConfig, mergeAgentConfig), so that the value an earlier source gave
\* stands, and a flag that any source turns on is on.
LastValueDecides ==
  loading = "loaded" =>
    \A s \in Settings :
      cfg[s] = IF Deciding(s) = {} THEN Defaults[s]
               ELSE said[CHOOSE n \in Deciding(s) : \A m \in Deciding(s) : m <= n][s]
=============================================================================
