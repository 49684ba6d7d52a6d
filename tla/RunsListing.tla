----------------------------- MODULE RunsListing ------------------------------
(***************************************************************************)
(* The listing of a session's runs (GET /session/{id}/runs): the history is *)
(* kept newest first and cut at its limit, and a client walks through it    *)
(* page by page, by offset, while runs go on ending.                        *)
(***************************************************************************)
EXTENDS Integers, Sequences, SequencesExt

CONSTANTS
  Ended,        \* how many runs end, at most
  Statuses,     \* the statuses of ended runs
  MaxRuns,      \* maxRunHistory (100 in the code)
  MostPerPage,  \* the largest limit (200 in the code)
  Queries       \* the limits and statuses clients ask for; 0 and "" for none

ASSUME ListingAssumption ==
  /\ Ended \in Nat /\ MaxRuns \in Nat \ {0} /\ MostPerPage \in Nat \ {0}
  /\ Queries \subseteq [limit : Int, status : Statuses \cup {"", "running"}]

VARIABLES
  ended,     \* how many runs have ended; the last is run number ended
  runs,      \* s.history[sessionID]
  walk       \* the client: its query, offset, what it has seen, what it began with

listingVars == <<ended, runs, walk>>

-----------------------------------------------------------------------------
(* Queries and pages.                                                       *)

\* A limit that is no positive number is refused; one too large is lowered.
ValidQuery(q) == q.limit >= 0
Limit(q) ==
  CASE q.limit = 0 -> MaxRuns
    [] q.limit > MostPerPage -> MostPerPage
    [] OTHER -> q.limit

FilterRunsByStatus(rs, status) ==
  FlattenSeq([i \in DOMAIN rs |->
    IF status = "" \/ rs[i].status = status THEN <<rs[i]>> ELSE <<>>])

PaginateRuns(rs, offset, limit) ==
  SubSeq(rs, offset + 1, IF offset + limit > Len(rs) THEN Len(rs) ELSE offset + limit)

Ids(rs) == {rs[i].id : i \in DOMAIN rs}

-----------------------------------------------------------------------------

ListingInit ==
  /\ ended = 0 /\ runs = <<>>
  /\ walk = [query |-> CHOOSE q \in Queries : ValidQuery(q), offset |-> 0, seen |-> {}, began |-> {}, at |-> "out"]

\* Mutation: the newest run goes to the end, and the first is dropped.
AppendAtEnd(info) ==
  LET history == Append(runs, info)
  IN  IF Len(history) > MaxRuns THEN Tail(history) ELSE history

\* appendRunHistory.
AppendRunHistory(info) ==
  LET history == <<info>> \o runs
  IN  IF Len(history) > MaxRuns THEN SubSeq(history, 1, MaxRuns) ELSE history

RunEnds(status) ==
  /\ ended < Ended
  /\ ended' = ended + 1
  /\ runs' = AppendRunHistory([id |-> ended', status |-> status])
  /\ UNCHANGED walk

BeginWalk(q) ==
  /\ walk.at = "out" /\ ValidQuery(q)
  /\ walk' = [query |-> q, offset |-> 0, seen |-> {}, at |-> "walking",
              began |-> Ids(FilterRunsByStatus(runs, q.status))]
  /\ UNCHANGED <<ended, runs>>

\* handleSessionRuns: one page, of the history as it is now; the client asks
\* for the one after it until a page is empty.
NextPage ==
  LET filtered == FilterRunsByStatus(runs, walk.query.status)
      page == PaginateRuns(filtered, walk.offset, Limit(walk.query))
  IN  /\ walk.at = "walking"
      /\ walk' = [walk EXCEPT !.offset = @ + Len(page),
                              !.seen = @ \cup Ids(page),
                              !.at = IF page = <<>> THEN "done" ELSE @]
      /\ UNCHANGED <<ended, runs>>

ListingNext ==
  \/ \E status \in Statuses : RunEnds(status)
  \/ \E q \in Queries : BeginWalk(q)
  \/ NextPage

ListingSpec == ListingInit /\ [][ListingNext]_listingVars

-----------------------------------------------------------------------------
(* Properties.                                                              *)

\* A client that walks to the last page while runs end has seen every run that
\* was listed when it began and still is: pages may repeat a run, for what is
\* new comes first, but skip none.
WalkMissesNothing ==
  walk.at = "done" => walk.began \cap Ids(runs) \subseteq walk.seen
=============================================================================
