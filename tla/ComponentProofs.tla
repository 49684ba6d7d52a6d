---------------------------- MODULE ComponentProofs ----------------------------
(***************************************************************************)
(* What is proved of the components that share no state with one another:   *)
(* the listing of runs, the skills, the configuration, the session store,   *)
(* the memory and the provider streams.  Each has an inductive invariant of *)
(* its own.                                                                 *)
(***************************************************************************)
EXTENDS MCComponents, SnapshotProofs, EventFeedProofs, Flattening,
        FiniteSetTheorems, TLAPS

-----------------------------------------------------------------------------
(* Walking through the listing of runs.                                     *)

Info == [id : Nat, status : Statuses]
Asked == Statuses \cup {"", "running"}
Suits(info, status) == IF status = "" \/ info.status = status THEN <<info>> ELSE <<>>

\* A filtered listing, with one run more at either end.
LEMMA SuitsType ==
  ASSUME NEW info \in Info, NEW status PROVE Suits(info, status) \in Seq(Info)
<1>1. <<info>> \in Seq(Info) /\ <<>> \in Seq(Info)
  OBVIOUS
<1>2. QED
  BY <1>1 DEF Suits

LEMMA FilterPieces ==
  ASSUME NEW rs \in Seq(Info), NEW status
  PROVE  /\ [i \in DOMAIN rs |-> Suits(rs[i], status)] \in Seq(Seq(Info))
         /\ Len([i \in DOMAIN rs |-> Suits(rs[i], status)]) = Len(rs)
         /\ FilterRunsByStatus(rs, status) = FlattenSeq([i \in DOMAIN rs |-> Suits(rs[i], status)])
<1> DEFINE pieces == [i \in DOMAIN rs |-> Suits(rs[i], status)]
<1>1. \A i \in 1..Len(rs) : pieces[i] \in Seq(Info)
  BY SuitsType
<1>2. pieces = [i \in 1..Len(rs) |-> pieces[i]] /\ Len(rs) \in Nat
  OBVIOUS
<1>3. FilterRunsByStatus(rs, status) = FlattenSeq(pieces)
  BY DEF FilterRunsByStatus, Suits
<1> HIDE DEF pieces
<1>4. pieces \in Seq(Seq(Info)) /\ Len(pieces) = Len(rs)
  BY <1>1, <1>2, FunctionIsSequence
<1>5. QED
  BY <1>3, <1>4 DEF pieces

LEMMA FilterType ==
  ASSUME NEW rs \in Seq(Info), NEW status
  PROVE  FilterRunsByStatus(rs, status) \in Seq(Info)
  BY FilterPieces, FlattenType

LEMMA FilterPrepend ==
  ASSUME NEW rs \in Seq(Info), NEW info \in Info, NEW status
  PROVE  FilterRunsByStatus(<<info>> \o rs, status)
           = Suits(info, status) \o FilterRunsByStatus(rs, status)
<1> DEFINE pieces(q) == [i \in DOMAIN q |-> Suits(q[i], status)]
           more == <<info>> \o rs
<1>1. /\ more \in Seq(Info) /\ Len(more) = Len(rs) + 1 /\ more[1] = info
      /\ \A i \in 1..Len(rs) : more[i + 1] = rs[i]
  OBVIOUS
<1>2. /\ pieces(rs) \in Seq(Seq(Info)) /\ Len(pieces(rs)) = Len(rs)
      /\ pieces(more) \in Seq(Seq(Info)) /\ Len(pieces(more)) = Len(more)
      /\ FilterRunsByStatus(rs, status) = FlattenSeq(pieces(rs))
      /\ FilterRunsByStatus(more, status) = FlattenSeq(pieces(more))
  BY <1>1, FilterPieces
<1>3. pieces(more) = <<Suits(info, status)>> \o pieces(rs)
  <2>1. /\ <<Suits(info, status)>> \o pieces(rs) \in Seq(Seq(Info))
        /\ Len(<<Suits(info, status)>> \o pieces(rs)) = Len(rs) + 1
        /\ (<<Suits(info, status)>> \o pieces(rs))[1] = Suits(info, status)
        /\ \A i \in 1..Len(rs) : (<<Suits(info, status)>> \o pieces(rs))[i + 1] = Suits(rs[i], status)
    BY <1>2, SuitsType
  <2>2. /\ pieces(more)[1] = Suits(info, status)
        /\ \A i \in 1..Len(rs) : pieces(more)[i + 1] = Suits(rs[i], status)
    BY <1>1
  <2>3. ASSUME NEW i \in 1..Len(rs) + 1
        PROVE  pieces(more)[i] = (<<Suits(info, status)>> \o pieces(rs))[i]
    <3>1. CASE i = 1
      BY <2>1, <2>2, <3>1
    <3>2. CASE i # 1
      <4>1. i - 1 \in 1..Len(rs) /\ (i - 1) + 1 = i
        BY <3>2
      <4>2. QED
        BY <2>1, <2>2, <4>1
    <3>3. QED
      BY <3>1, <3>2
  <2>4. QED
    BY <1>1, <1>2, <2>1, <2>3
<1>4. Suits(info, status) \in Seq(Info)
  BY SuitsType
<1>5. FlattenSeq(<<Suits(info, status)>> \o pieces(rs)) = Suits(info, status) \o FlattenSeq(pieces(rs))
  <2> HIDE DEF pieces
  <2>1. QED
    BY <1>2, <1>4, FlattenPrepend
<1>6. QED
  BY <1>2, <1>3, <1>5, Zenon

LEMMA FilterAppend ==
  ASSUME NEW rs \in Seq(Info), NEW info \in Info, NEW status
  PROVE  FilterRunsByStatus(Append(rs, info), status)
           = FilterRunsByStatus(rs, status) \o Suits(info, status)
<1> DEFINE pieces(q) == [i \in DOMAIN q |-> Suits(q[i], status)]
           more == Append(rs, info)
<1>1. /\ more \in Seq(Info) /\ Len(more) = Len(rs) + 1 /\ more[Len(rs) + 1] = info
      /\ \A i \in 1..Len(rs) : more[i] = rs[i]
  OBVIOUS
<1>2. /\ pieces(rs) \in Seq(Seq(Info)) /\ Len(pieces(rs)) = Len(rs)
      /\ pieces(more) \in Seq(Seq(Info)) /\ Len(pieces(more)) = Len(more)
      /\ FilterRunsByStatus(rs, status) = FlattenSeq(pieces(rs))
      /\ FilterRunsByStatus(more, status) = FlattenSeq(pieces(more))
  BY <1>1, FilterPieces
<1>3. pieces(more) = Append(pieces(rs), Suits(info, status))
  BY <1>1, <1>2, SuitsType
<1>4. QED
  BY <1>2, <1>3, SuitsType, FlattenAppend

Shown == FilterRunsByStatus(runs, walk.query.status)

\* The history is the last runs that ended, newest first.
Newest ==
  /\ ended \in Nat /\ runs \in Seq(Info) /\ Len(runs) <= MaxRuns
  /\ \A i \in 1..Len(runs) : runs[i].id = ended + 1 - i

\* A filtered listing shows runs that have ended.
ShowsEnded ==
  \A status \in Asked : \A id \in Ids(FilterRunsByStatus(runs, status)) : id \in 1..ended

\* A client on its way has a query that was admitted.
Walks ==
  /\ walk = [query |-> walk.query, offset |-> walk.offset, seen |-> walk.seen,
             began |-> walk.began, at |-> walk.at]
  /\ walk.at \in {"out", "walking", "done"} /\ walk.offset \in Nat
  /\ walk.at # "out" => walk.query \in Queries /\ ValidQuery(walk.query)

\* What was listed at the beginning and still is in the history is still shown;
\* up to the offset, the client has seen it; and at the end, all of it.
Seen ==
  walk.at # "out" =>
    /\ walk.began \subseteq 1..ended
    /\ walk.began \cap Ids(runs) \subseteq Ids(Shown)
    /\ \A i \in 1..Len(Shown) : i <= walk.offset /\ Shown[i].id \in walk.began =>
         Shown[i].id \in walk.seen
    /\ walk.at = "done" => walk.began \cap Ids(runs) \subseteq walk.seen

ListInv == Newest /\ ShowsEnded /\ Walks /\ Seen

\* The history after a run has ended: the last runs, one more.
LEMMA HistoryAfter ==
  ASSUME Newest, NEW info \in Info, info.id = ended + 1
  PROVE  LET after == AppendRunHistory(info)
             longer == <<info>> \o runs
         IN  /\ after \in Seq(Info) /\ Len(after) <= MaxRuns
             /\ \A i \in 1..Len(after) : after[i].id = (ended + 1) + 1 - i
             /\ Ids(after) \subseteq {ended + 1} \cup Ids(runs)
             /\ \/ after = longer
                \/ \E last \in Info : longer = Append(after, last) /\ last.id \notin Ids(after)
<1> DEFINE longer == <<info>> \o runs
           after == AppendRunHistory(info)
<1>1. /\ longer \in Seq(Info) /\ Len(longer) = Len(runs) + 1 /\ longer[1] = info
      /\ \A i \in 1..Len(runs) : longer[i + 1] = runs[i]
  BY DEF Newest
<1>2. /\ Len(runs) \in Nat /\ MaxRuns \in Nat \ {0} /\ Len(runs) <= MaxRuns /\ ended \in Nat
      /\ \A i \in 1..Len(runs) : runs[i].id = ended + 1 - i
  <2>1. MaxRuns \in Nat \ {0}
    BY ListingAssumption
  <2>2. runs \in Seq(Info) /\ Len(runs) <= MaxRuns /\ ended \in Nat
    BY DEF Newest
  <2>3. \A i \in 1..Len(runs) : runs[i].id = ended + 1 - i
    BY DEF Newest
  <2>4. QED
    BY <2>1, <2>2, <2>3
<1>3. after = IF Len(longer) > MaxRuns THEN SubSeq(longer, 1, MaxRuns) ELSE longer
  BY DEF AppendRunHistory
<1> HIDE DEF longer, after
<1>4. ASSUME NEW i \in 1..Len(longer)
      PROVE  /\ longer[i].id = (ended + 1) + 1 - i
             /\ longer[i].id \in {ended + 1} \cup Ids(runs)
  <2>1. CASE i = 1
    BY <1>1, <1>2, <2>1
  <2>2. CASE i # 1
    <3>1. i - 1 \in 1..Len(runs) /\ (i - 1) + 1 = i
      BY <1>1, <1>2, <2>2
    <3>2. longer[i] = runs[i - 1]
      BY <1>1, <3>1
    <3>3. runs[i - 1].id \in Ids(runs)
      BY <3>1 DEF Ids, Newest
    <3>4. QED
      BY <1>2, <3>1, <3>2, <3>3
  <2>3. QED
    BY <2>1, <2>2
<1>5. CASE Len(longer) > MaxRuns
  <2>1. Len(longer) = MaxRuns + 1
    BY <1>1, <1>2, <1>5
  <2>2. PICK front \in Seq(Info), last \in Info :
          /\ longer = Append(front, last) /\ Len(front) = MaxRuns
          /\ front = SubSeq(longer, 1, MaxRuns) /\ last = longer[MaxRuns + 1]
    <3>1. MaxRuns \in Nat /\ longer \in Seq(Info)
      BY <1>1, <1>2
    <3>2. \E front \in Seq(Info), last \in Info :
            /\ longer = Append(front, last) /\ Len(front) = MaxRuns
            /\ front = SubSeq(longer, 1, MaxRuns) /\ last = longer[MaxRuns + 1]
      BY <2>1, <3>1, EndIsApart, ZenonT(40)
    <3>3. QED
      BY <3>2, Zenon
  <2>3. after = front
    BY <1>3, <1>5, <2>2
  <2>4. /\ after \in Seq(Info) /\ Len(after) = MaxRuns /\ last \in Info
        /\ longer = Append(after, last)
    BY <2>2, <2>3
  <2>5. /\ MaxRuns \in Nat /\ MaxRuns + 1 \in 1..Len(longer) /\ last = longer[MaxRuns + 1]
        /\ \A i \in 1..MaxRuns : after[i] = longer[i] /\ i \in 1..Len(longer)
    <3>1. MaxRuns \in Nat /\ MaxRuns + 1 \in 1..Len(longer) /\ last = longer[MaxRuns + 1]
      <4>1. MaxRuns \in Nat
        BY <1>2
      <4>2. last = longer[MaxRuns + 1]
        BY <2>2
      <4>3. QED
        BY <2>1, <4>1, <4>2
    <3>2. ASSUME NEW i \in 1..MaxRuns PROVE after[i] = longer[i] /\ i \in 1..Len(longer)
      <4>1. i \in 1..Len(after) /\ i \in 1..Len(longer)
        BY <2>1, <2>4, <3>1
      <4>2. QED
        BY <2>4, <4>1
    <3>3. QED
      BY <3>1, <3>2
  <2>6. \A i \in 1..MaxRuns : /\ after[i].id = (ended + 1) + 1 - i
                              /\ after[i].id \in {ended + 1} \cup Ids(runs)
    BY <1>4, <2>5
  <2>7. last.id = (ended + 1) + 1 - (MaxRuns + 1)
    BY <1>4, <2>5
  <2>8. DOMAIN after = 1..MaxRuns
    BY <2>4
  <2>9. Ids(after) \subseteq {ended + 1} \cup Ids(runs)
    BY <2>6, <2>8 DEF Ids
  <2>10. last.id \notin Ids(after)
    <3>1. \A i \in 1..MaxRuns : after[i].id # last.id
      BY <1>2, <2>6, <2>7
    <3>2. QED
      BY <2>8, <3>1 DEF Ids
  <2>11. /\ after \in Seq(Info) /\ Len(after) <= MaxRuns
         /\ \A i \in 1..Len(after) : after[i].id = (ended + 1) + 1 - i
    BY <1>2, <2>4, <2>6
  <2>12. QED
    BY <2>4, <2>9, <2>10, <2>11 DEF longer, after
<1>6. CASE ~(Len(longer) > MaxRuns)
  <2>1. after = longer
    BY <1>3, <1>6
  <2>2. Ids(longer) \subseteq {ended + 1} \cup Ids(runs)
    BY <1>1, <1>4 DEF Ids
  <2>3. QED
    BY <1>1, <1>2, <1>4, <1>6, <2>1, <2>2 DEF longer, after
<1>7. QED
  BY <1>5, <1>6

\* A filtered listing after a run has ended: what was shown is shown further
\* down, or has left the history.
LEMMA ShownAfter ==
  ASSUME Newest, NEW info \in Info, info.id = ended + 1, NEW status
  PROVE  LET after == AppendRunHistory(info)
             was == FilterRunsByStatus(runs, status)
             is == FilterRunsByStatus(after, status)
         IN  /\ was \in Seq(Info) /\ is \in Seq(Info)
             /\ \A i \in 1..Len(is) : is[i] = info \/ \E j \in 1..Len(was) : j <= i /\ is[i] = was[j]
             /\ \A j \in 1..Len(was) : was[j].id \in Ids(is) \/ was[j].id \notin Ids(after)
<1> DEFINE after == AppendRunHistory(info)
           longer == <<info>> \o runs
           was == FilterRunsByStatus(runs, status)
           is == FilterRunsByStatus(after, status)
           all == FilterRunsByStatus(longer, status)
           new == Suits(info, status)
<1>1. runs \in Seq(Info) /\ after \in Seq(Info)
  BY HistoryAfter DEF Newest
<1>2. was \in Seq(Info) /\ is \in Seq(Info) /\ new \in Seq(Info)
  BY <1>1, FilterType, SuitsType
<1>3. all = new \o was
  BY <1>1, FilterPrepend
<1>4. Len(new) \in {0, 1} /\ (Len(new) = 1 => new[1] = info)
  BY DEF Suits
<1>5. \/ after = longer
      \/ \E last \in Info : longer = Append(after, last) /\ last.id \notin Ids(after)
  BY HistoryAfter
<1> HIDE DEF after, longer, was, is, all, new
<1>6. /\ all \in Seq(Info) /\ Len(all) = Len(new) + Len(was)
      /\ Len(was) \in Nat /\ Len(is) \in Nat
      /\ \A i \in 1..Len(all) : i <= Len(new) => all[i] = info
      /\ \A i \in 1..Len(all) : i > Len(new) =>
           i - Len(new) \in 1..Len(was) /\ all[i] = was[i - Len(new)]
      /\ \A j \in 1..Len(was) : j + Len(new) \in 1..Len(all) /\ all[j + Len(new)] = was[j]
  BY <1>2, <1>3, <1>4
<1>7. /\ Len(is) <= Len(all) /\ \A i \in 1..Len(is) : is[i] = all[i]
      /\ \A i \in 1..Len(all) : i <= Len(is) \/ all[i].id \notin Ids(after)
  <2>1. CASE after = longer
    BY <1>6, <2>1 DEF is, all
  <2>2. ASSUME NEW last \in Info, longer = Append(after, last), last.id \notin Ids(after)
        PROVE  /\ Len(is) <= Len(all) /\ \A i \in 1..Len(is) : is[i] = all[i]
               /\ \A i \in 1..Len(all) : i <= Len(is) \/ all[i].id \notin Ids(after)
    <3> DEFINE old == Suits(last, status)
    <3>1. all = is \o old /\ old \in Seq(Info)
      BY <1>1, <2>2, FilterAppend, SuitsType DEF is, all
    <3>2. Len(old) \in {0, 1} /\ (Len(old) = 1 => old[1] = last)
      BY DEF Suits
    <3> HIDE DEF old
    <3>3. QED
      BY <1>2, <1>6, <2>2, <3>1, <3>2
  <2>3. QED
    BY <1>5, <2>1, <2>2
<1>8. ASSUME NEW i \in 1..Len(is)
      PROVE  is[i] = info \/ \E j \in 1..Len(was) : j <= i /\ is[i] = was[j]
  <2>1. i \in 1..Len(all) /\ is[i] = all[i]
    BY <1>6, <1>7
  <2>2. CASE i <= Len(new)
    BY <1>6, <2>1, <2>2
  <2>3. CASE i > Len(new)
    <3>1. i - Len(new) \in 1..Len(was) /\ is[i] = was[i - Len(new)] /\ i - Len(new) <= i
      BY <1>4, <1>6, <2>1, <2>3
    <3>2. QED
      BY <3>1
  <2>4. QED
    BY <1>4, <2>2, <2>3
<1>9. ASSUME NEW j \in 1..Len(was), was[j].id \in Ids(after) PROVE was[j].id \in Ids(is)
  <2>1. j + Len(new) \in 1..Len(all) /\ all[j + Len(new)] = was[j]
    BY <1>6
  <2>2. j + Len(new) <= Len(is)
    BY <1>7, <1>9, <2>1
  <2>3. j + Len(new) \in 1..Len(is) /\ is[j + Len(new)] = was[j]
    <3>1. j + Len(new) \in 1..Len(is)
      BY <1>6, <2>1, <2>2
    <3>2. QED
      BY <1>7, <2>1, <3>1
  <2>4. QED
    BY <1>2, <2>3 DEF Ids
<1>10. QED
  BY <1>2, <1>8, <1>9 DEF after, was, is

\* One run more shows in no listing but as the run that has just ended.
LEMMA ShowsAfter ==
  ASSUME Newest, ShowsEnded, NEW info \in Info, info.id = ended + 1, NEW status \in Asked,
         NEW id \in Ids(FilterRunsByStatus(AppendRunHistory(info), status))
  PROVE  id \in 1..ended + 1
<1> DEFINE after == AppendRunHistory(info)
           was == FilterRunsByStatus(runs, status)
           is == FilterRunsByStatus(after, status)
<1>1. /\ was \in Seq(Info) /\ is \in Seq(Info)
      /\ \A i \in 1..Len(is) : is[i] = info \/ \E j \in 1..Len(was) : j <= i /\ is[i] = was[j]
  BY ShownAfter
<1>2. \A other \in Ids(was) : other \in 1..ended
  BY DEF ShowsEnded
<1> HIDE DEF is, was
<1>3. PICK i \in 1..Len(is) : id = is[i].id
  BY <1>1 DEF Ids, is
<1>4. CASE is[i] = info
  BY <1>3, <1>4 DEF Newest
<1>5. CASE is[i] # info
  <2>1. PICK j \in 1..Len(was) : is[i] = was[j]
    BY <1>1, <1>5
  <2>2. was[j].id \in Ids(was)
    BY <1>1 DEF Ids
  <2>3. id \in 1..ended
    BY <1>2, <1>3, <2>1, <2>2
  <2>4. QED
    BY <2>3 DEF Newest
<1>6. QED
  BY <1>4, <1>5

LEMMA ListInvInit == ListingInit => ListInv
<1> SUFFICES ASSUME ListingInit PROVE ListInv
  OBVIOUS
<1>1. Newest
  <2>1. 0 <= MaxRuns
    <3>1. MaxRuns \in Nat
      BY ListingAssumption
    <3>2. QED
      BY <3>1
  <2>2. runs = <<>> /\ ended = 0
    BY DEF ListingInit
  <2>3. QED
    BY <2>1, <2>2 DEF Newest
<1>2. ShowsEnded
  <2>1. ASSUME NEW status PROVE FilterRunsByStatus(runs, status) = <<>>
    <3>1. [i \in DOMAIN runs |-> IF status = "" \/ runs[i].status = status THEN <<runs[i]>> ELSE <<>>] = <<>>
      BY DEF ListingInit
    <3>2. QED
      BY <3>1, FlattenEmpty DEF FilterRunsByStatus
  <2>2. Ids(<<>>) = {}
    BY DEF Ids
  <2>3. QED
    BY <2>1, <2>2 DEF ShowsEnded
<1>3. Walks /\ Seen
  BY DEF ListingInit, Walks, Seen
<1>4. QED
  BY <1>1, <1>2, <1>3 DEF ListInv

LEMMA RunEndsKeeps ==
  ASSUME ListInv, NEW status \in Statuses, RunEnds(status) PROVE ListInv'
<1> DEFINE info == [id |-> ended + 1, status |-> status]
<1>1. /\ ended \in Nat /\ ended' = ended + 1 /\ runs' = AppendRunHistory(info) /\ walk' = walk
      /\ info \in Info /\ info.id = ended + 1
  BY DEF RunEnds, ListInv, Newest, Info
<1>2. Newest /\ ShowsEnded /\ Walks /\ Seen
  BY DEF ListInv
<1> HIDE DEF info
<1>3. /\ runs' \in Seq(Info) /\ Len(runs') <= MaxRuns
      /\ \A i \in 1..Len(runs') : runs'[i].id = ended' + 1 - i
      /\ Ids(runs') \subseteq {ended + 1} \cup Ids(runs)
  BY <1>1, <1>2, HistoryAfter
<1>4. Newest'
  <2>1. ended' \in Nat
    BY <1>1
  <2>2. QED
    BY ONLY <1>3, <2>1 DEF Newest
<1>5. ShowsEnded'
  <2>1. ASSUME NEW asked \in Asked, NEW id \in Ids(FilterRunsByStatus(runs', asked))
        PROVE  id \in 1..ended'
    <3>1. id \in 1..ended + 1
      BY <1>1, <1>2, <2>1, ShowsAfter
    <3>2. QED
      BY <1>1, <3>1
  <2>2. QED
    BY <2>1 DEF ShowsEnded, FilterRunsByStatus, Ids
<1>6. Walks'
  BY <1>1, <1>2 DEF Walks
<1>7. Seen'
  <2> DEFINE was == FilterRunsByStatus(runs, walk.query.status)
             is == FilterRunsByStatus(runs', walk.query.status)
  <2>1. /\ was \in Seq(Info) /\ is \in Seq(Info)
        /\ \A i \in 1..Len(is) : is[i] = info \/ \E j \in 1..Len(was) : j <= i /\ is[i] = was[j]
        /\ \A j \in 1..Len(was) : was[j].id \in Ids(is) \/ was[j].id \notin Ids(runs')
    BY <1>1, <1>2, ShownAfter
  <2>2. Shown = was /\ Shown' = is
    BY <1>1 DEF Shown, FilterRunsByStatus
  <2> HIDE DEF was, is
  <2>3. SUFFICES ASSUME walk.at # "out"
        PROVE  /\ walk.began \subseteq 1..ended + 1
               /\ walk.began \cap Ids(runs') \subseteq Ids(is)
               /\ \A i \in 1..Len(is) : i <= walk.offset /\ is[i].id \in walk.began =>
                    is[i].id \in walk.seen
               /\ walk.at = "done" => walk.began \cap Ids(runs') \subseteq walk.seen
    BY <1>1, <2>2 DEF Seen, Ids
  <2>4. /\ walk.began \subseteq 1..ended
        /\ walk.began \cap Ids(runs) \subseteq Ids(was)
        /\ \A i \in 1..Len(was) : i <= walk.offset /\ was[i].id \in walk.began =>
             was[i].id \in walk.seen
        /\ walk.at = "done" => walk.began \cap Ids(runs) \subseteq walk.seen
    BY <1>2, <2>2, <2>3 DEF Seen
  <2>5. walk.began \cap Ids(runs') \subseteq Ids(runs) /\ ended + 1 \notin walk.began
    BY <1>1, <1>3, <2>4
  <2>6. walk.began \subseteq 1..ended + 1
    BY <1>1, <2>4
  <2>7. ASSUME NEW id \in walk.began \cap Ids(runs') PROVE id \in Ids(is)
    <3>1. PICK j \in 1..Len(was) : id = was[j].id
      BY <2>1, <2>4, <2>5 DEF Ids
    <3>2. QED
      BY <2>1, <3>1
  <2>8. ASSUME NEW i \in 1..Len(is), i <= walk.offset, is[i].id \in walk.began
        PROVE  is[i].id \in walk.seen
    <3>1. is[i] # info
      BY <1>1, <2>5, <2>8
    <3>2. PICK j \in 1..Len(was) : j <= i /\ is[i] = was[j]
      BY <2>1, <3>1
    <3>3. j <= walk.offset
      BY <1>2, <2>1, <2>8, <3>2 DEF Walks
    <3>4. QED
      BY <2>4, <2>8, <3>2, <3>3
  <2>9. walk.at = "done" => walk.began \cap Ids(runs') \subseteq walk.seen
    BY <2>4, <2>5
  <2>10. QED
    BY <2>6, <2>7, <2>8, <2>9
<1>8. QED
  BY <1>4, <1>5, <1>6, <1>7 DEF ListInv

\* A step that leaves the history alone leaves what it shows alone.
LEMMA SameHistory ==
  ASSUME Newest, ShowsEnded, ended' = ended, runs' = runs
  PROVE  Newest' /\ ShowsEnded'
<1>1. Newest'
  BY DEF Newest
<1>2. ShowsEnded'
  BY DEF ShowsEnded, Ids, FilterRunsByStatus
<1>3. QED
  BY <1>1, <1>2

LEMMA BeginWalkKeeps ==
  ASSUME ListInv, NEW q \in Queries, BeginWalk(q) PROVE ListInv'
<1>1. /\ ValidQuery(q) /\ ended' = ended /\ runs' = runs
      /\ walk'.query = q /\ walk'.offset = 0 /\ walk'.seen = {} /\ walk'.at = "walking"
      /\ walk'.began = Ids(FilterRunsByStatus(runs, q.status))
  BY DEF BeginWalk
<1>2. q.status \in Asked
  BY ListingAssumption DEF Asked
<1>3. FilterRunsByStatus(runs, q.status) \in Seq(Info)
  BY FilterType DEF ListInv, Newest
<1>4. Newest' /\ ShowsEnded' /\ Walks'
  <2>1. Newest' /\ ShowsEnded'
    BY <1>1, SameHistory DEF ListInv
  <2>2. walk' = [query |-> q, offset |-> 0, seen |-> {}, at |-> "walking",
                 began |-> Ids(FilterRunsByStatus(runs, q.status))]
    BY DEF BeginWalk
  <2>3. Walks'
    BY <1>1, <2>2 DEF Walks
  <2>4. QED
    BY <2>1, <2>3
<1>5. Shown' = FilterRunsByStatus(runs, q.status)
  BY <1>1 DEF Shown, FilterRunsByStatus
<1>6. walk'.began \subseteq 1..ended
  BY <1>1, <1>2 DEF ListInv, ShowsEnded
<1>7. Seen'
  BY <1>1, <1>3, <1>5, <1>6 DEF Seen, Ids
<1>8. QED
  BY <1>4, <1>7 DEF ListInv

LEMMA NextPageKeeps == ASSUME ListInv, NextPage PROVE ListInv'
<1> DEFINE filtered == FilterRunsByStatus(runs, walk.query.status)
           limit == Limit(walk.query)
           page == PaginateRuns(filtered, walk.offset, limit)
<1>1. /\ walk.at = "walking" /\ ended' = ended /\ runs' = runs
      /\ walk'.query = walk.query /\ walk'.offset = walk.offset + Len(page)
      /\ walk'.seen = walk.seen \cup Ids(page) /\ walk'.began = walk.began
      /\ walk'.at = IF page = <<>> THEN "done" ELSE "walking"
  <2>1. /\ walk.at = "walking" /\ ended' = ended /\ runs' = runs
        /\ walk' = [walk EXCEPT !.offset = @ + Len(page), !.seen = @ \cup Ids(page),
                                !.at = IF page = <<>> THEN "done" ELSE @]
    BY DEF NextPage
  <2>2. /\ walk = [query |-> walk.query, offset |-> walk.offset, seen |-> walk.seen,
                   began |-> walk.began, at |-> walk.at]
    BY DEF ListInv, Walks
  <2> HIDE DEF page
  <2>3. QED
    BY <2>1, <2>2
<1>2. Newest /\ ShowsEnded /\ Walks /\ Seen
  BY DEF ListInv
<1>3. /\ walk.query \in Queries /\ ValidQuery(walk.query) /\ walk.offset \in Nat
  BY <1>1, <1>2 DEF Walks
<1>4. limit \in Nat /\ limit >= 1
  <2>1. MaxRuns \in Nat \ {0} /\ MostPerPage \in Nat \ {0} /\ walk.query.limit \in Int
    BY <1>3, ListingAssumption
  <2>2. walk.query.limit >= 0
    BY <1>3 DEF ValidQuery
  <2>3. QED
    BY <2>1, <2>2 DEF Limit
<1>5. filtered \in Seq(Info) /\ Shown = filtered /\ Shown' = filtered
  BY <1>1, <1>2, FilterType DEF Newest, Shown, FilterRunsByStatus
<1>6. page = SubSeq(filtered, walk.offset + 1,
        IF walk.offset + limit > Len(filtered) THEN Len(filtered) ELSE walk.offset + limit)
  BY DEF PaginateRuns
<1> HIDE DEF filtered, limit, page
<1>7. /\ page \in Seq(Info) /\ Len(page) \in Nat
      /\ page = <<>> => Len(filtered) <= walk.offset
      /\ \A i \in 1..Len(filtered) : i <= walk.offset + Len(page) /\ i > walk.offset =>
           filtered[i].id \in Ids(page)
  <2> DEFINE m == walk.offset + 1
             n == IF walk.offset + limit > Len(filtered) THEN Len(filtered) ELSE walk.offset + limit
  <2>1. /\ m \in Nat \ {0} /\ n \in Nat /\ n <= Len(filtered) /\ m = walk.offset + 1
        /\ n < m => Len(filtered) <= walk.offset
    BY <1>3, <1>4, <1>5
  <2>2. page = SubSeq(filtered, m, n)
    BY <1>6
  <2> HIDE DEF m, n
  <2>3. page \in Seq(Info) /\ Len(page) = IF m <= n THEN (n - m) + 1 ELSE 0
    BY <1>5, <2>1, <2>2
  <2>4. \A i \in 1..Len(page) : page[i] = filtered[(m + i) - 1]
    BY <1>5, <2>1, <2>2, SMTT(30)
  <2>5. page = <<>> => Len(filtered) <= walk.offset
    BY <2>1, <2>3
  <2>6. ASSUME NEW i \in 1..Len(filtered), i <= walk.offset + Len(page), i > walk.offset
        PROVE  filtered[i].id \in Ids(page)
    <3>1. i - walk.offset \in 1..Len(page) /\ (m + (i - walk.offset)) - 1 = i
      <4>1. i \in Int /\ walk.offset \in Nat /\ Len(page) \in Nat
        BY <1>3, <2>1, <2>3
      <4>2. QED
        BY <2>1, <2>6, <4>1, SMTT(30)
    <3>2. page[i - walk.offset] = filtered[i]
      BY <2>4, <3>1
    <3>3. page[i - walk.offset].id \in Ids(page)
      BY <2>3, <3>1 DEF Ids
    <3>4. QED
      BY <3>2, <3>3
  <2>7. QED
    BY <2>3, <2>5, <2>6
<1>8. Newest' /\ ShowsEnded'
  BY <1>1, <1>2, SameHistory
<1>9. Walks'
  <2>1. walk' = [walk EXCEPT !.offset = @ + Len(page), !.seen = @ \cup Ids(page),
                             !.at = IF page = <<>> THEN "done" ELSE @]
    BY DEF NextPage, page, filtered, limit
  <2>2. walk = [query |-> walk.query, offset |-> walk.offset, seen |-> walk.seen,
                began |-> walk.began, at |-> walk.at]
    BY <1>2 DEF Walks
  <2>3. walk' = [query |-> walk'.query, offset |-> walk'.offset, seen |-> walk'.seen,
                 began |-> walk'.began, at |-> walk'.at]
    BY <2>1, <2>2
  <2>4. ValidQuery(walk'.query)
    BY <1>1, <1>3
  <2>5. QED
    BY <1>1, <1>3, <1>7, <2>3, <2>4 DEF Walks
<1>10. Seen'
  <2>1. /\ walk.began \subseteq 1..ended
        /\ walk.began \cap Ids(runs) \subseteq Ids(filtered)
        /\ \A i \in 1..Len(filtered) : i <= walk.offset /\ filtered[i].id \in walk.began =>
             filtered[i].id \in walk.seen
    BY <1>1, <1>2, <1>5 DEF Seen
  <2>2. ASSUME NEW i \in 1..Len(filtered), i <= walk'.offset, filtered[i].id \in walk.began
        PROVE  filtered[i].id \in walk'.seen
    <3>1. CASE i <= walk.offset
      BY <1>1, <2>1, <2>2, <3>1
    <3>2. CASE i > walk.offset
      BY <1>1, <1>7, <2>2, <3>2
    <3>3. QED
      BY <1>3, <3>1, <3>2
  <2>3. ASSUME walk'.at = "done", NEW id \in walk.began \cap Ids(runs) PROVE id \in walk'.seen
    <3>1. PICK i \in 1..Len(filtered) : id = filtered[i].id
      BY <1>5, <2>1 DEF Ids
    <3>2. page = <<>>
      BY <1>1, <2>3
    <3>3. i <= walk.offset
      BY <1>3, <1>5, <1>7, <3>2
    <3>4. QED
      BY <1>1, <2>1, <2>3, <3>1, <3>3
  <2>4. /\ walk'.began \subseteq 1..ended'
        /\ walk'.began \cap Ids(runs)' \subseteq Ids(Shown)'
    BY <1>1, <1>5, <2>1 DEF Ids
  <2>5. \A i \in 1..Len(Shown') : i <= walk'.offset /\ Shown'[i].id \in walk'.began =>
          Shown'[i].id \in walk'.seen
    BY <1>1, <1>5, <2>2
  <2>6. walk'.at = "done" => walk'.began \cap Ids(runs)' \subseteq walk'.seen
    BY <1>1, <2>3 DEF Ids
  <2>7. QED
    BY <2>4, <2>5, <2>6 DEF Seen
<1>11. QED
  BY <1>8, <1>9, <1>10 DEF ListInv

LEMMA AlwaysListInv == ListingSpec => []ListInv
<1>1. ListingInit => ListInv
  BY ListInvInit
<1>2. ListInv /\ [ListingNext]_listingVars => ListInv'
  <2> SUFFICES ASSUME ListInv, [ListingNext]_listingVars PROVE ListInv'
    OBVIOUS
  <2>1. ASSUME NEW status \in Statuses, RunEnds(status) PROVE ListInv'
    BY <2>1, RunEndsKeeps
  <2>2. ASSUME NEW q \in Queries, BeginWalk(q) PROVE ListInv'
    BY <2>2, BeginWalkKeeps
  <2>3. CASE NextPage
    BY <2>3, NextPageKeeps
  <2>4. CASE UNCHANGED listingVars
    <3>1. ended' = ended /\ runs' = runs /\ walk' = walk
      BY <2>4 DEF listingVars
    <3>2. Newest' /\ ShowsEnded'
      BY <3>1, SameHistory DEF ListInv
    <3>3. Walks'
      BY <3>1 DEF ListInv, Walks
    <3>4. Shown' = Shown
      BY <3>1 DEF Shown, FilterRunsByStatus
    <3>5. Seen'
      BY <3>1, <3>4 DEF ListInv, Seen, Ids
    <3>6. QED
      BY <3>2, <3>3, <3>5 DEF ListInv
  <2>5. QED
    BY <2>1, <2>2, <2>3, <2>4 DEF ListingNext
<1>3. QED
  BY <1>1, <1>2, PTL DEF ListingSpec

\* A client of the listing of runs that walks to the last page while runs go on
\* ending (handleSessionRuns, appendRunHistory) has seen every run that was
\* listed when it began and still is.
THEOREM WalkMisses == ListingSpec => []WalkMissesNothing
<1>1. ListInv => WalkMissesNothing
  BY DEF ListInv, Seen, WalkMissesNothing
<1>2. QED
  BY <1>1, AlwaysListInv, PTL

\* The history of a session's runs keeps within its bound (maxRunHistory).
THEOREM HistoryBounded == ListingSpec => [](Len(runs) <= MaxRuns)
<1>1. ListInv => Len(runs) <= MaxRuns
  BY DEF ListInv, Newest
<1>2. QED
  BY <1>1, AlwaysListInv, PTL

-----------------------------------------------------------------------------
(* Which of the skills of one name is loaded.                               *)

Calls ==
  [at : {"idle", "scan", "ready", "activate", "load"}, name : Skills \cup {""}, again : BOOLEAN,
   dir : 0..SearchPaths, left : SUBSET Skills, parsed : Skills \cup {""}, path : Dirs \cup {0}]

\* What a call may look like on its way.
Proper(call) ==
  /\ call \in Calls
  /\ call.at # "idle" => call.name \in Skills
  /\ call.left # {} \/ call.parsed # "" => call.dir # 0

\* Somebody has still to come to what directory e says of n, or to enter it.
Pending(e, n) ==
  \E s \in Users :
    /\ user[s].at = "scan"
    /\ user[s].dir < e \/ (user[s].dir = e /\ (n \in user[s].left \/ user[s].parsed = n))

SkillTypes ==
  /\ files \in [Dirs -> [Skills -> SkillFile]]
  /\ paths \in [Skills -> Dirs \cup {0}]
  /\ entries \subseteq Skills /\ activated \subseteq Skills
  /\ user \in [Users -> Calls] /\ \A s \in Users : Proper(user[s])
  /\ told \in [Users -> [Skills -> SUBSET Answers]]
  /\ fresh \in BOOLEAN

\* What has been read and what has been entered is true, and a skill that is in
\* a directory has been entered from there or from a later one, or will be.
ParsedIsTrue == \A s \in Users : user[s].at = "scan" /\ user[s].parsed # "" => user[s].dir \in Holders(user[s].parsed)
PathsAreTrue == \A n \in Skills : paths[n] # 0 => paths[n] \in Holders(n)
NoneIsMissed == \A n \in Skills : \A e \in Holders(n) : e <= paths[n] \/ Pending(e, n)

PathsLead == fresh => ParsedIsTrue /\ PathsAreTrue /\ NoneIsMissed

SkillInv == SkillTypes /\ PathsLead

\* The directories are numbers from 1 on.
LEMMA DirsAre ==
  /\ SearchPaths \in Nat
  /\ \A d \in 0..SearchPaths : d # 0 => d \in Dirs
  /\ \A d \in Dirs : d \in Nat /\ d # 0 /\ d <= SearchPaths
<1>1. SearchPaths \in Nat
  BY SkillsAssumption
<1>2. QED
  BY <1>1 DEF Dirs

LEMMA CallingProper ==
  /\ Proper(Waiting)
  /\ \A at \in {"scan", "ready"}, n \in Skills, again \in BOOLEAN :
       Proper(Calling(at, n)) /\ Proper([Calling(at, n) EXCEPT !.again = again])
<1>1. 0 \in 0..SearchPaths
  BY DirsAre
<1>2. Proper(Waiting)
  BY <1>1 DEF Proper, Waiting, Calling, Calls
<1>3. ASSUME NEW at \in {"scan", "ready"}, NEW n \in Skills, NEW again \in BOOLEAN
      PROVE  Proper(Calling(at, n)) /\ Proper([Calling(at, n) EXCEPT !.again = again])
  BY <1>1 DEF Proper, Calling, Calls
<1>4. QED
  BY <1>2, <1>3

LEMMA SkillInvInit == SkillInit => SkillInv
<1> SUFFICES ASSUME SkillInit PROVE SkillInv
  OBVIOUS
<1>1. /\ files \in [Dirs -> [Skills -> SkillFile]] /\ paths \in [Skills -> Dirs \cup {0}]
      /\ entries \subseteq Skills /\ activated \subseteq Skills /\ fresh = FALSE
  BY DEF SkillInit, NoPaths, SkillFile
<1>2. user \in [Users -> Calls] /\ \A s \in Users : Proper(user[s])
  BY CallingProper DEF SkillInit, Proper
<1>3. told \in [Users -> [Skills -> SUBSET Answers]]
  BY DEF SkillInit
<1>4. QED
  BY <1>1, <1>2, <1>3 DEF SkillInv, SkillTypes, PathsLead

\* One call goes on.
LEMMA OneCallGoesOn ==
  ASSUME SkillTypes, NEW s \in Users, NEW call, Proper(call), user' = [user EXCEPT ![s] = call]
  PROVE  /\ user' \in [Users -> Calls] /\ \A t \in Users : Proper(user'[t])
         /\ user'[s] = call /\ \A t \in Users \ {s} : user'[t] = user[t]
<1>1. user \in [Users -> Calls] /\ call \in Calls
  BY DEF SkillTypes, Proper
<1>2. user' \in [Users -> Calls] /\ \A t \in Users : user'[t] = IF t = s THEN call ELSE user[t]
  BY <1>1
<1>3. QED
  BY <1>2 DEF SkillTypes

\* A call that is answered.
LEMMA AnswerTypes ==
  ASSUME SkillTypes, NEW s \in Users, user[s].at # "idle", NEW answer \in Answers, Answer(s, answer)
  PROVE  /\ told' \in [Users -> [Skills -> SUBSET Answers]]
         /\ user' \in [Users -> Calls] /\ \A t \in Users : Proper(user'[t])
<1>1. user[s].name \in Skills /\ told \in [Users -> [Skills -> SUBSET Answers]]
  BY DEF SkillTypes, Proper
<1>2. told' \in [Users -> [Skills -> SUBSET Answers]]
  BY <1>1 DEF Answer
<1>3. QED
  BY <1>2, CallingProper, OneCallGoesOn DEF Answer

\* A discovery that begins.
LEMMA DiscoverTypes ==
  ASSUME SkillTypes, NEW s \in Users, NEW n \in Skills, NEW again \in BOOLEAN, Discover(s, n, again)
  PROVE  /\ paths' = NoPaths /\ paths' \in [Skills -> Dirs \cup {0}] /\ fresh' \in BOOLEAN
         /\ user' \in [Users -> Calls] /\ \A t \in Users : Proper(user'[t])
         /\ user'[s].at = "scan" /\ user'[s].dir = 0 /\ user'[s].parsed = ""
         /\ \A t \in Users \ {s} : user'[t] = user[t]
<1> DEFINE call == [Calling("scan", n) EXCEPT !.again = again]
<1>1. user' = [user EXCEPT ![s] = call]
  BY DEF Discover
<1>2. Proper(call) /\ call.at = "scan" /\ call.dir = 0 /\ call.parsed = ""
  BY CallingProper DEF Calling
<1> HIDE DEF call
<1>3. /\ user' \in [Users -> Calls] /\ \A t \in Users : Proper(user'[t])
      /\ user'[s] = call /\ \A t \in Users \ {s} : user'[t] = user[t]
  BY <1>1, <1>2, OneCallGoesOn
<1>4. paths' = NoPaths /\ NoPaths \in [Skills -> Dirs \cup {0}] /\ fresh' \in BOOLEAN
  BY DEF Discover, NoPaths, SkillTypes
<1>5. QED
  BY <1>2, <1>3, <1>4

\* What the steps of a discovery do to its call.
LEMMA ListedCall ==
  ASSUME SkillTypes, NEW s \in Users, NEW names \in SUBSET Skills, BetweenDirs(s), user[s].dir < SearchPaths
  PROVE  LET call == [user[s] EXCEPT !.dir = user[s].dir + 1, !.left = names]
         IN  /\ Proper(call) /\ call.at = "scan" /\ call.dir = user[s].dir + 1
             /\ call.left = names /\ call.parsed = ""
<1>1. user[s] \in Calls /\ Proper(user[s])
  BY DEF SkillTypes
<1>2. user[s].dir \in 0..SearchPaths
  BY <1>1 DEF Calls
<1>3. user[s].dir + 1 \in 0..SearchPaths /\ user[s].dir + 1 # 0
  BY <1>2, DirsAre
<1>4. QED
  BY <1>1, <1>3 DEF Proper, Calls, BetweenDirs

LEMMA ParsedCall ==
  ASSUME SkillTypes, NEW s \in Users, NEW n \in user[s].left, NEW x \in {n, ""}, user[s].at = "scan"
  PROVE  LET call == [user[s] EXCEPT !.left = user[s].left \ {n}, !.parsed = x]
         IN  /\ Proper(call) /\ call.at = "scan" /\ call.dir = user[s].dir /\ call.dir \in Dirs
             /\ call.left = user[s].left \ {n} /\ call.parsed = x /\ n \in Skills
<1>1. user[s] \in Calls /\ Proper(user[s])
  BY DEF SkillTypes
<1>2. user[s].dir # 0 /\ user[s].dir \in 0..SearchPaths /\ n \in Skills
  BY <1>1 DEF Calls, Proper
<1>3. user[s].dir \in Dirs
  BY <1>2, DirsAre
<1>4. QED
  BY <1>1, <1>2, <1>3 DEF Proper, Calls

LEMMA EnteredCall ==
  ASSUME SkillTypes, NEW s \in Users, user[s].at = "scan", user[s].parsed # ""
  PROVE  LET call == [user[s] EXCEPT !.parsed = ""]
         IN  /\ Proper(call) /\ call.at = "scan" /\ call.dir = user[s].dir
             /\ call.left = user[s].left /\ call.parsed = "" /\ user[s].parsed \in Skills
             /\ user[s].dir \in Dirs
<1>1. user[s] \in Calls /\ Proper(user[s])
  BY DEF SkillTypes
<1>2. user[s].dir # 0 /\ user[s].dir \in 0..SearchPaths
  BY <1>1 DEF Calls, Proper
<1>3. user[s].dir \in Dirs
  BY <1>2, DirsAre
<1>4. QED
  BY <1>1, <1>2, <1>3 DEF Proper, Calls

LEMMA CallWith ==
  ASSUME SkillTypes, NEW s \in Users, user[s].at # "idle", NEW at \in {"ready", "activate", "load"},
         NEW path \in Dirs \cup {0}
  PROVE  Proper([user[s] EXCEPT !.at = at]) /\ Proper([user[s] EXCEPT !.at = at, !.path = path])
<1>1. user[s] \in Calls /\ Proper(user[s])
  BY DEF SkillTypes
<1>2. QED
  BY <1>1 DEF Proper, Calls

\* What a step of a call does to the types.
LEMMA SkillTypesStep == ASSUME SkillTypes, SkillNext PROVE SkillTypes'
<1>1. /\ files \in [Dirs -> [Skills -> SkillFile]] /\ paths \in [Skills -> Dirs \cup {0}]
      /\ entries \subseteq Skills /\ activated \subseteq Skills /\ fresh \in BOOLEAN
      /\ user \in [Users -> Calls] /\ \A s \in Users : Proper(user[s])
      /\ told \in [Users -> [Skills -> SUBSET Answers]]
  BY DEF SkillTypes
<1>2. \A s \in Users : user[s].at # "idle" => user[s].name \in Skills
  BY <1>1 DEF Proper
<1>3. ASSUME NEW s \in Users, NEW n \in Skills, Call(s, n) PROVE SkillTypes'
  <2>1. CASE entries # {}
    <3>1. user' = [user EXCEPT ![s] = Calling("ready", n)] /\ Proper(Calling("ready", n))
      BY <1>3, <2>1, CallingProper DEF Call
    <3>2. user' \in [Users -> Calls] /\ \A t \in Users : Proper(user'[t])
      BY <3>1, OneCallGoesOn
    <3>3. QED
      BY <1>1, <1>3, <2>1, <3>2 DEF Call, SkillTypes
  <2>2. CASE entries = {}
    <3>1. Discover(s, n, FALSE) /\ UNCHANGED <<files, entries, activated, told>>
      BY <1>3, <2>2 DEF Call
    <3>2. QED
      BY <1>1, <3>1, DiscoverTypes DEF SkillTypes
  <2>3. QED
    BY <2>1, <2>2
<1>4. ASSUME NEW s \in Users, NEW n \in Skills, ParseSkill(s, n) PROVE SkillTypes'
  <2> DEFINE x == IF files[user[s].dir][n] = "good" THEN n ELSE ""
             call == [user[s] EXCEPT !.left = user[s].left \ {n}, !.parsed = x]
  <2>1. /\ user[s].at = "scan" /\ n \in user[s].left /\ user' = [user EXCEPT ![s] = call]
        /\ UNCHANGED <<files, paths, entries, activated, told, fresh>> /\ x \in {n, ""}
    BY <1>4 DEF ParseSkill
  <2> HIDE DEF x
  <2>2. Proper(call)
    BY ZenonT(60), <2>1, ParsedCall
  <2> HIDE DEF call
  <2>3. QED
    BY <1>1, <2>1, <2>2, OneCallGoesOn DEF SkillTypes
<1>5. ASSUME NEW s \in Users, ListDir(s) PROVE SkillTypes'
  <2>1. PICK names \in SUBSET Skills :
          user' = [user EXCEPT ![s] = [user[s] EXCEPT !.dir = user[s].dir + 1, !.left = names]]
    BY ZenonT(60), <1>5 DEF ListDir
  <2> DEFINE call == [user[s] EXCEPT !.dir = user[s].dir + 1, !.left = names]
  <2>2. Proper(call)
    BY <1>5, ListedCall DEF ListDir
  <2>3. user' = [user EXCEPT ![s] = call]
    BY <2>1
  <2> HIDE DEF call
  <2>4. QED
    BY <1>1, <1>5, <2>2, <2>3, OneCallGoesOn DEF ListDir, SkillTypes
<1>6. ASSUME NEW s \in Users, EnterSkill(s) PROVE SkillTypes'
  <2> DEFINE call == [user[s] EXCEPT !.parsed = ""]
  <2>1. /\ user[s].at = "scan" /\ user[s].parsed # "" /\ user' = [user EXCEPT ![s] = call]
        /\ paths' = [paths EXCEPT ![user[s].parsed] = user[s].dir]
        /\ UNCHANGED <<files, entries, activated, told, fresh>>
    BY <1>6 DEF EnterSkill, Entered
  <2>2. Proper(call) /\ user[s].parsed \in Skills /\ user[s].dir \in Dirs
    BY <2>1, EnteredCall
  <2> HIDE DEF call
  <2>3. paths' \in [Skills -> Dirs \cup {0}]
    BY <1>1, <2>1, <2>2
  <2>4. QED
    BY <1>1, <2>1, <2>2, <2>3, OneCallGoesOn DEF SkillTypes
<1>7. ASSUME NEW s \in Users, ScanFails(s) PROVE SkillTypes'
  <2>1. user[s].at # "idle" /\ "error" \in Answers
    BY <1>7 DEF ScanFails, BetweenDirs, Answers
  <2>2. QED
    BY <1>1, <1>7, <2>1, AnswerTypes DEF ScanFails, SkillTypes
<1>8. ASSUME NEW s \in Users, Discovered(s) PROVE SkillTypes'
  <2>1. user[s].at # "idle" /\ user[s].name \in Skills
    BY <1>2, <1>8 DEF Discovered, BetweenDirs
  <2>2. paths[user[s].name] \in Dirs \cup {0}
    BY <1>1, <2>1
  <2>3. /\ Proper([user[s] EXCEPT !.at = "ready"])
        /\ Proper([user[s] EXCEPT !.at = "load", !.path = paths[user[s].name]])
    BY <2>1, <2>2, CallWith
  <2>4. \/ user' = [user EXCEPT ![s] = [user[s] EXCEPT !.at = "ready"]]
        \/ user' = [user EXCEPT ![s] = [user[s] EXCEPT !.at = "load", !.path = paths[user[s].name]]]
    BY <1>8 DEF Discovered
  <2>5. user' \in [Users -> Calls] /\ \A t \in Users : Proper(user'[t])
    BY <2>3, <2>4, OneCallGoesOn
  <2>6. QED
    BY <1>1, <1>8, <2>5 DEF Discovered, SkillTypes
<1>9. ASSUME NEW s \in Users, Mark(s) PROVE SkillTypes'
  <2>1. CASE user[s].name \in entries \ activated
    <3>1. user' = [user EXCEPT ![s] = [user[s] EXCEPT !.at = "activate"]] /\ user[s].at # "idle"
      BY <1>9, <2>1 DEF Mark
    <3>2. Proper([user[s] EXCEPT !.at = "activate"])
      BY <3>1, CallWith
    <3>3. user' \in [Users -> Calls] /\ \A t \in Users : Proper(user'[t])
      BY <3>1, <3>2, OneCallGoesOn
    <3>4. QED
      BY <1>1, <1>2, <1>9, <2>1, <3>1, <3>3 DEF Mark, SkillTypes
  <2>2. CASE user[s].name \notin entries \ activated
    <3>1. /\ user[s].at # "idle" /\ Answer(s, IF user[s].name \in entries THEN "already" ELSE "unknown")
          /\ UNCHANGED <<files, paths, entries, activated, fresh>>
      BY <1>9, <2>2 DEF Mark
    <3>2. (IF user[s].name \in entries THEN "already" ELSE "unknown") \in Answers
      BY DEF Answers
    <3>3. /\ told' \in [Users -> [Skills -> SUBSET Answers]]
          /\ user' \in [Users -> Calls] /\ \A t \in Users : Proper(user'[t])
      BY <3>1, <3>2, AnswerTypes
    <3>4. QED
      BY <1>1, <3>1, <3>3 DEF SkillTypes
  <2>3. QED
    BY <2>1, <2>2
<1>10. ASSUME NEW s \in Users, Activate(s) PROVE SkillTypes'
  <2>1. user[s].at # "idle" /\ user[s].name \in Skills
    BY <1>2, <1>10 DEF Activate
  <2>2. CASE paths[user[s].name] = 0
    <3>1. Discover(s, user[s].name, TRUE) /\ UNCHANGED <<files, entries, activated, told>>
      BY <1>10, <2>2 DEF Activate
    <3>2. QED
      BY <1>1, <2>1, <3>1, DiscoverTypes DEF SkillTypes
  <2>3. CASE paths[user[s].name] # 0
    <3> DEFINE call == [user[s] EXCEPT !.at = "load", !.path = paths[user[s].name]]
    <3>1. user' = [user EXCEPT ![s] = call] /\ UNCHANGED <<files, paths, entries, activated, told, fresh>>
      BY <1>10, <2>3 DEF Activate
    <3>2. Proper(call)
      BY <1>1, <2>1, CallWith
    <3> HIDE DEF call
    <3>3. QED
      BY <1>1, <3>1, <3>2, OneCallGoesOn DEF SkillTypes
  <2>4. QED
    BY <2>2, <2>3
<1>11. ASSUME NEW s \in Users, LoadSkill(s) PROVE SkillTypes'
  <2> DEFINE dir == user[s].path
             answer == IF dir # 0 /\ files[dir][user[s].name] = "good" THEN "content" ELSE "error"
  <2>1. /\ user[s].at # "idle" /\ Answer(s, answer)
        /\ UNCHANGED <<files, paths, entries, activated, fresh>>
    BY <1>11 DEF LoadSkill
  <2>2. answer \in Answers
    BY DEF Answers
  <2> HIDE DEF answer
  <2>3. QED
    BY <1>1, <2>1, <2>2, AnswerTypes DEF SkillTypes
<1>12. ASSUME NEW d \in Dirs, NEW n \in Skills, NEW x \in SkillFile, EditSkill(d, n, x) PROVE SkillTypes'
  BY <1>1, <1>12 DEF SkillTypes, EditSkill
<1>13. QED
  BY <1>3, <1>4, <1>5, <1>6, <1>7, <1>8, <1>9, <1>10, <1>11, <1>12 DEF SkillNext

\* One call goes on, no map or file changes: what was pending is entered or
\* pending still, and what the call has read is true.
LEMMA OneCallKeeps ==
  ASSUME SkillInv, SkillTypes', NEW s \in Users, UNCHANGED <<files, paths, fresh>>,
         \A t \in Users \ {s} : user'[t] = user[t],
         fresh /\ user'[s].at = "scan" /\ user'[s].parsed # "" => user'[s].dir \in Holders(user'[s].parsed),
         \A n \in Skills : \A e \in Holders(n) :
           /\ fresh /\ user[s].at = "scan"
           /\ user[s].dir < e \/ (user[s].dir = e /\ (n \in user[s].left \/ user[s].parsed = n))
           => /\ user'[s].at = "scan"
              /\ user'[s].dir < e \/ (user'[s].dir = e /\ (n \in user'[s].left \/ user'[s].parsed = n))
  PROVE  PathsLead'
<1> SUFFICES ASSUME fresh PROVE (ParsedIsTrue /\ PathsAreTrue /\ NoneIsMissed)'
  BY DEF PathsLead
<1>1. ParsedIsTrue /\ PathsAreTrue /\ NoneIsMissed
  BY DEF SkillInv, PathsLead
<1>2. \A n : Holders(n)' = Holders(n)
  BY DEF Holders
<1>3. ASSUME NEW t \in Users, user'[t].at = "scan", user'[t].parsed # ""
      PROVE  user'[t].dir \in Holders(user'[t].parsed)
  <2>1. CASE t = s
    BY <1>3, <2>1
  <2>2. CASE t # s
    BY <1>1, <1>3, <2>2 DEF ParsedIsTrue
  <2>3. QED
    BY <2>1, <2>2
<1>4. ParsedIsTrue'
  BY <1>2, <1>3 DEF ParsedIsTrue
<1>5. PathsAreTrue'
  BY <1>1, <1>2 DEF PathsAreTrue
<1>6. ASSUME NEW n \in Skills, NEW e \in Holders(n), Pending(e, n) PROVE Pending(e, n)'
  <2>1. PICK t \in Users :
          /\ user[t].at = "scan"
          /\ user[t].dir < e \/ (user[t].dir = e /\ (n \in user[t].left \/ user[t].parsed = n))
    BY <1>6 DEF Pending
  <2>2. CASE t = s
    BY <2>1, <2>2 DEF Pending
  <2>3. CASE t # s
    BY <2>1, <2>3 DEF Pending
  <2>4. QED
    BY <2>2, <2>3
<1>7. ASSUME NEW n \in Skills, NEW e \in Holders(n), ~(e <= paths'[n]) PROVE Pending(e, n)'
  <2>1. ~(e <= paths[n])
    BY <1>7
  <2>2. Pending(e, n)
    BY <1>1, <2>1 DEF NoneIsMissed
  <2>3. QED
    BY <1>6, <2>2
<1>8. NoneIsMissed'
  BY <1>2, <1>7 DEF NoneIsMissed
<1>9. QED
  BY <1>4, <1>5, <1>8

\* A discovery begins: nothing has been entered, and it comes to all.
LEMMA DiscoverKeeps ==
  ASSUME SkillInv, NEW s \in Users, NEW n \in Skills, NEW again \in BOOLEAN, Discover(s, n, again),
         files' = files
  PROVE  PathsLead'
<1> SUFFICES ASSUME fresh' PROVE (ParsedIsTrue /\ PathsAreTrue /\ NoneIsMissed)'
  BY DEF PathsLead
<1>1. SkillTypes /\ (fresh => ParsedIsTrue)
  BY DEF SkillInv, PathsLead
<1>2. /\ paths' = NoPaths /\ user'[s].at = "scan" /\ user'[s].dir = 0 /\ user'[s].parsed = ""
      /\ \A t \in Users \ {s} : user'[t] = user[t]
  BY <1>1, DiscoverTypes
<1>3. \A m : Holders(m)' = Holders(m) /\ Holders(m) \subseteq Dirs
  BY DEF Holders
<1>4. ASSUME NEW t \in Users, user'[t].at = "scan", user'[t].parsed # ""
      PROVE  user'[t].dir \in Holders(user'[t].parsed)
  <2>1. t # s /\ user'[t] = user[t]
    BY <1>2, <1>4
  <2>2. Scanning
    BY <1>4, <2>1 DEF Scanning
  <2>3. fresh
    BY <2>2 DEF Discover
  <2>4. QED
    BY <1>1, <1>4, <2>1, <2>3 DEF ParsedIsTrue
<1>5. ParsedIsTrue'
  BY <1>3, <1>4 DEF ParsedIsTrue
<1>6. PathsAreTrue'
  BY <1>2 DEF PathsAreTrue, NoPaths
<1>7. ASSUME NEW m \in Skills, NEW e \in Holders(m) PROVE Pending(e, m)'
  <2>1. e \in Nat /\ e # 0
    BY <1>3, <1>7, DirsAre
  <2>2. 0 < e
    BY <2>1
  <2>3. user'[s].dir < e
    BY <1>2, <2>2
  <2>4. QED
    BY <1>2, <2>3 DEF Pending
<1>8. NoneIsMissed'
  BY <1>3, <1>7 DEF NoneIsMissed
<1>9. QED
  BY <1>5, <1>6, <1>8

\* A skill is entered: later directories are still before the same discovery.
LEMMA EnterKeeps == ASSUME SkillInv, NEW s \in Users, EnterSkill(s) PROVE PathsLead'
<1> DEFINE n == user[s].parsed
           dir == user[s].dir
           call == [user[s] EXCEPT !.parsed = ""]
<1>1. /\ user[s].at = "scan" /\ n # "" /\ user' = [user EXCEPT ![s] = call]
      /\ paths' = [paths EXCEPT ![n] = dir] /\ files' = files /\ fresh' = fresh
  BY DEF EnterSkill, Entered
<1>2. SkillTypes /\ (fresh => ParsedIsTrue /\ PathsAreTrue /\ NoneIsMissed)
  BY DEF SkillInv, PathsLead
<1>3. /\ Proper(call) /\ call.at = "scan" /\ call.dir = dir /\ call.left = user[s].left
      /\ call.parsed = "" /\ n \in Skills /\ dir \in Dirs
  BY <1>1, <1>2, EnteredCall
<1> HIDE DEF call
<1>4. user'[s] = call /\ \A t \in Users \ {s} : user'[t] = user[t]
  BY <1>1, <1>2, <1>3, OneCallGoesOn
<1>5. paths'[n] = dir /\ \A m \in Skills \ {n} : paths'[m] = paths[m]
  BY <1>1, <1>2, <1>3 DEF SkillTypes
<1> SUFFICES ASSUME fresh PROVE (ParsedIsTrue /\ PathsAreTrue /\ NoneIsMissed)'
  BY <1>1 DEF PathsLead
<1>6. \A m : Holders(m)' = Holders(m) /\ Holders(m) \subseteq Dirs
  BY <1>1 DEF Holders
<1>7. dir \in Holders(n)
  BY <1>1, <1>2 DEF ParsedIsTrue
<1> HIDE DEF n, dir
<1>8. ParsedIsTrue'
  <2>1. ASSUME NEW t \in Users, user'[t].at = "scan", user'[t].parsed # ""
        PROVE  user'[t].dir \in Holders(user'[t].parsed)
    <3>1. t # s /\ user'[t] = user[t]
      BY <1>3, <1>4, <2>1
    <3>2. QED
      BY <1>2, <2>1, <3>1 DEF ParsedIsTrue
  <2>2. QED
    BY <1>6, <2>1 DEF ParsedIsTrue
<1>9. PathsAreTrue'
  <2>1. ASSUME NEW m \in Skills, paths'[m] # 0 PROVE paths'[m] \in Holders(m)
    <3>1. CASE m = n
      BY <1>5, <1>7, <3>1
    <3>2. CASE m # n
      BY <1>2, <1>5, <2>1, <3>2 DEF PathsAreTrue
    <3>3. QED
      BY <3>1, <3>2
  <2>2. QED
    BY <1>6, <2>1 DEF PathsAreTrue
<1>10. ASSUME NEW m \in Skills, NEW e \in Holders(m), ~(e <= paths'[m]) PROVE Pending(e, m)'
  <2>1. e \in Nat /\ dir \in Nat
    BY <1>3, <1>6, <1>10, DirsAre
  <2>2. CASE m = n
    <3>1. dir < e
      BY <1>5, <1>10, <2>1, <2>2
    <3>2. QED
      BY <1>3, <1>4, <3>1 DEF Pending
  <2>3. CASE m # n
    <3>1. Pending(e, m)
      BY <1>2, <1>5, <1>10, <2>3 DEF NoneIsMissed
    <3>2. PICK t \in Users :
            /\ user[t].at = "scan"
            /\ user[t].dir < e \/ (user[t].dir = e /\ (m \in user[t].left \/ user[t].parsed = m))
      BY <3>1 DEF Pending
    <3>3. CASE t = s
      BY <1>3, <1>4, <2>3, <3>2, <3>3 DEF Pending, n, dir
    <3>4. CASE t # s
      BY <1>4, <3>2, <3>4 DEF Pending
    <3>5. QED
      BY <3>3, <3>4
  <2>4. QED
    BY <2>2, <2>3
<1>11. NoneIsMissed'
  BY <1>6, <1>10 DEF NoneIsMissed
<1>12. QED
  BY <1>8, <1>9, <1>11

LEMMA PathsLeadStep == ASSUME SkillInv, SkillNext PROVE PathsLead'
<1>1. SkillTypes /\ PathsLead /\ SkillTypes'
  BY SkillTypesStep DEF SkillInv
<1>2. /\ \A n : Holders(n) \subseteq Dirs
      /\ user \in [Users -> Calls] /\ \A s \in Users : Proper(user[s]) /\ user[s] \in Calls
  BY <1>1 DEF Holders, SkillTypes
<1>3. ASSUME NEW s \in Users, UNCHANGED <<files, paths, fresh>>,
             \A t \in Users \ {s} : user'[t] = user[t],
             user[s].at # "scan" \/ (BetweenDirs(s) /\ user[s].dir = SearchPaths), user'[s].at # "scan"
      PROVE  PathsLead'
  <2>1. ASSUME NEW n \in Skills, NEW e \in Holders(n), user[s].at = "scan",
               user[s].dir < e \/ (user[s].dir = e /\ (n \in user[s].left \/ user[s].parsed = n))
        PROVE  FALSE
    <3>1. user[s].dir = SearchPaths /\ user[s].left = {} /\ user[s].parsed = "" /\ n # ""
      BY <1>3, <2>1, SkillsAssumption DEF BetweenDirs
    <3>2. e \in Nat /\ e <= SearchPaths /\ SearchPaths \in Nat
      BY <1>2, <2>1, DirsAre
    <3>3. SearchPaths < e
      BY <2>1, <3>1
    <3>4. QED
      BY <3>2, <3>3
  <2>2. QED
    BY <1>1, <1>3, <2>1, OneCallKeeps
<1>4. ASSUME NEW s \in Users, NEW call, user' = [user EXCEPT ![s] = call]
      PROVE  user'[s] = call /\ \A t \in Users \ {s} : user'[t] = user[t]
  BY <1>2, <1>4
<1>5. ASSUME NEW s \in Users, NEW n \in Skills, Call(s, n) PROVE PathsLead'
  <2>1. CASE entries # {}
    <3>1. user' = [user EXCEPT ![s] = Calling("ready", n)] /\ Calling("ready", n).at = "ready"
      BY <1>5, <2>1 DEF Call, Calling
    <3>2. user[s].at # "scan" /\ UNCHANGED <<files, paths, fresh>>
      BY <1>5, <2>1 DEF Call
    <3>3. QED
      BY <1>3, <1>4, <3>1, <3>2
  <2>2. CASE entries = {}
    BY <1>5, <2>2, DiscoverKeeps DEF Call
  <2>3. QED
    BY <2>1, <2>2
<1>6. ASSUME NEW s \in Users, NEW n \in Skills, ParseSkill(s, n) PROVE PathsLead'
  <2> DEFINE x == IF files[user[s].dir][n] = "good" THEN n ELSE ""
             call == [user[s] EXCEPT !.left = user[s].left \ {n}, !.parsed = x]
  <2>1. /\ user[s].at = "scan" /\ user[s].parsed = "" /\ n \in user[s].left /\ x \in {n, ""}
        /\ user' = [user EXCEPT ![s] = call] /\ UNCHANGED <<files, paths, fresh>>
    BY <1>6 DEF ParseSkill
  <2> HIDE DEF x
  <2>2. /\ call.at = "scan" /\ call.dir = user[s].dir /\ user[s].dir \in Dirs
        /\ call.left = user[s].left \ {n} /\ call.parsed = x
    <3>1. SkillTypes /\ user[s].at = "scan" /\ n \in user[s].left /\ x \in {n, ""}
      BY <1>1, <2>1
    <3>2. /\ call.at = "scan" /\ call.dir = user[s].dir
          /\ call.left = user[s].left \ {n} /\ call.parsed = x
      BY <1>2, <3>1 DEF Calls
    <3>3. user[s].dir # 0 /\ user[s].dir \in 0..SearchPaths
      BY <1>2, <3>1 DEF Calls, Proper
    <3>4. QED
      BY <3>2, <3>3, DirsAre
  <2> HIDE DEF call
  <2>3. user'[s] = call /\ \A t \in Users \ {s} : user'[t] = user[t]
    BY <1>4, <2>1
  <2>4. x # "" => call.dir \in Holders(x)
    BY <2>2 DEF x, Holders
  <2>5. \A e : user[s].dir = e /\ e \in Holders(n) => x = n
    BY DEF x, Holders
  <2>6. ASSUME NEW m \in Skills, NEW e \in Holders(m),
               user[s].dir < e \/ (user[s].dir = e /\ (m \in user[s].left \/ user[s].parsed = m))
        PROVE  call.dir < e \/ (call.dir = e /\ (m \in call.left \/ call.parsed = m))
    BY <2>1, <2>2, <2>5, <2>6, SkillsAssumption
  <2>7. QED
    BY <1>1, <2>1, <2>2, <2>3, <2>4, <2>6, OneCallKeeps
<1>7. ASSUME NEW s \in Users, ListDir(s) PROVE PathsLead'
  <2>1. PICK names \in SUBSET Skills :
          /\ {n \in Skills : files[user[s].dir + 1][n] # "none"} \subseteq names
          /\ user' = [user EXCEPT ![s] = [user[s] EXCEPT !.dir = user[s].dir + 1, !.left = names]]
    BY ZenonT(60), <1>7 DEF ListDir
  <2> DEFINE call == [user[s] EXCEPT !.dir = user[s].dir + 1, !.left = names]
  <2>2. /\ call.at = "scan" /\ call.dir = user[s].dir + 1 /\ call.left = names /\ call.parsed = ""
        /\ user[s].left = {} /\ user[s].parsed = "" /\ UNCHANGED <<files, paths, fresh>>
    BY ZenonT(60), <1>1, <1>7, ListedCall DEF ListDir, BetweenDirs
  <2>3. user'[s] = call /\ \A t \in Users \ {s} : user'[t] = user[t]
    BY <1>4, <2>1
  <2> HIDE DEF call
  <2>4. user[s].dir \in 0..SearchPaths
    BY <1>2 DEF Calls
  <2>5. ASSUME NEW m \in Skills, NEW e \in Holders(m),
               user[s].dir < e \/ (user[s].dir = e /\ (m \in user[s].left \/ user[s].parsed = m))
        PROVE  call.dir < e \/ (call.dir = e /\ (m \in call.left \/ call.parsed = m))
    <3>1. user[s].dir < e
      BY <2>2, <2>5, SkillsAssumption
    <3>2. e \in Nat /\ SearchPaths \in Nat
      BY <1>2, <2>5, DirsAre
    <3>3. CASE e = user[s].dir + 1
      <4>1. files[e][m] # "none"
        BY <2>5 DEF Holders
      <4>2. QED
        BY <2>1, <2>2, <3>3, <4>1
    <3>4. CASE e # user[s].dir + 1
      <4>1. user[s].dir + 1 < e
        BY <2>4, <3>1, <3>2, <3>4
      <4>2. QED
        BY <2>2, <4>1
    <3>5. QED
      BY <3>3, <3>4
  <2>6. user'[s].at = "scan" /\ user'[s].parsed = "" /\ UNCHANGED <<files, paths, fresh>>
    BY <2>2, <2>3
  <2>7. ASSUME NEW m \in Skills, NEW e \in Holders(m),
               user[s].dir < e \/ (user[s].dir = e /\ (m \in user[s].left \/ user[s].parsed = m))
        PROVE  user'[s].dir < e \/ (user'[s].dir = e /\ (m \in user'[s].left \/ user'[s].parsed = m))
    BY <2>3, <2>5, <2>7
  <2>8. QED
    BY <1>1, <2>3, <2>6, <2>7, OneCallKeeps
<1>8. ASSUME NEW s \in Users, ScanFails(s) PROVE PathsLead'
  BY <1>8 DEF ScanFails, PathsLead
<1>9. ASSUME NEW s \in Users, Discovered(s) PROVE PathsLead'
  <2>1. /\ BetweenDirs(s) /\ user[s].dir = SearchPaths /\ UNCHANGED <<files, paths, fresh>>
        /\ \/ user' = [user EXCEPT ![s] = [user[s] EXCEPT !.at = "ready"]]
           \/ user' = [user EXCEPT ![s] = [user[s] EXCEPT !.at = "load", !.path = paths[user[s].name]]]
    BY <1>9 DEF Discovered
  <2>2. user'[s].at # "scan" /\ \A t \in Users \ {s} : user'[t] = user[t]
    <3>1. CASE user' = [user EXCEPT ![s] = [user[s] EXCEPT !.at = "ready"]]
      BY <1>2, <3>1 DEF Calls
    <3>2. CASE user' = [user EXCEPT ![s] = [user[s] EXCEPT !.at = "load", !.path = paths[user[s].name]]]
      BY <1>2, <3>2 DEF Calls
    <3>3. QED
      BY <2>1, <3>1, <3>2
  <2>3. QED
    BY <1>3, <2>1, <2>2
<1>10. ASSUME NEW s \in Users, Mark(s) PROVE PathsLead'
  <2>1. /\ user[s].at # "scan" /\ UNCHANGED <<files, paths, fresh>>
        /\ \/ user' = [user EXCEPT ![s] = [user[s] EXCEPT !.at = "activate"]]
           \/ user' = [user EXCEPT ![s] = Waiting]
    BY <1>10 DEF Mark, Answer
  <2>2. user'[s].at # "scan" /\ \A t \in Users \ {s} : user'[t] = user[t]
    <3>1. CASE user' = [user EXCEPT ![s] = [user[s] EXCEPT !.at = "activate"]]
      BY <1>2, <3>1 DEF Calls
    <3>2. CASE user' = [user EXCEPT ![s] = Waiting]
      BY <1>2, <3>2 DEF Waiting, Calling
    <3>3. QED
      BY <2>1, <3>1, <3>2
  <2>3. QED
    BY <1>3, <2>1, <2>2
<1>11. ASSUME NEW s \in Users, Activate(s) PROVE PathsLead'
  <2>1. CASE paths[user[s].name] = 0
    <3>1. Discover(s, user[s].name, TRUE) /\ files' = files /\ user[s].name \in Skills
      BY <1>2, <1>11, <2>1 DEF Activate, Proper
    <3>2. QED
      BY <3>1, DiscoverKeeps
  <2>2. CASE paths[user[s].name] # 0
    <3>1. /\ user[s].at # "scan" /\ UNCHANGED <<files, paths, fresh>>
          /\ user' = [user EXCEPT ![s] = [user[s] EXCEPT !.at = "load", !.path = paths[user[s].name]]]
      BY <1>11, <2>2 DEF Activate
    <3>2. user'[s].at # "scan" /\ \A t \in Users \ {s} : user'[t] = user[t]
      BY <1>2, <3>1 DEF Calls
    <3>3. QED
      BY <1>3, <3>1, <3>2
  <2>3. QED
    BY <2>1, <2>2
<1>12. ASSUME NEW s \in Users, LoadSkill(s) PROVE PathsLead'
  <2>1. user[s].at # "scan" /\ UNCHANGED <<files, paths, fresh>> /\ user' = [user EXCEPT ![s] = Waiting]
    BY <1>12 DEF LoadSkill, Answer
  <2>2. user'[s].at # "scan" /\ \A t \in Users \ {s} : user'[t] = user[t]
    BY <1>2, <2>1 DEF Waiting, Calling
  <2>3. QED
    BY <1>3, <2>1, <2>2
<1>13. ASSUME NEW d \in Dirs, NEW n \in Skills, NEW x \in SkillFile, EditSkill(d, n, x) PROVE PathsLead'
  BY <1>13 DEF EditSkill, PathsLead
<1>14. QED
  BY <1>5, <1>6, <1>7, <1>8, <1>9, <1>10, <1>11, <1>12, <1>13, EnterKeeps DEF SkillNext

LEMMA AlwaysSkillInv == SkillSpec => []SkillInv
<1>1. SkillInit => SkillInv
  BY SkillInvInit
<1>2. SkillInv /\ [SkillNext]_skillVars => SkillInv'
  <2> SUFFICES ASSUME SkillInv, [SkillNext]_skillVars PROVE SkillInv'
    OBVIOUS
  <2>1. CASE SkillNext
    BY <2>1, SkillTypesStep, PathsLeadStep DEF SkillInv
  <2>2. CASE UNCHANGED skillVars
    <3>1. UNCHANGED <<files, paths, entries, activated, user, told, fresh>>
      BY <2>2 DEF skillVars
    <3>2. SkillTypes'
      <4>1. \A s \in Users : Proper(user[s])'
        BY <3>1 DEF SkillInv, SkillTypes, Proper
      <4>2. QED
        BY <3>1, <4>1 DEF SkillInv, SkillTypes
    <3>3. \A n : Holders(n)' = Holders(n)
      BY <3>1 DEF Holders
    <3>4. \A e, n : Pending(e, n) => Pending(e, n)'
      BY <3>1 DEF Pending
    <3>5. PathsLead'
      <4> SUFFICES ASSUME fresh PROVE (ParsedIsTrue /\ PathsAreTrue /\ NoneIsMissed)'
        BY <3>1 DEF PathsLead
      <4>1. ParsedIsTrue /\ PathsAreTrue /\ NoneIsMissed
        BY DEF SkillInv, PathsLead
      <4>2. ParsedIsTrue'
        BY <3>1, <3>3, <4>1 DEF ParsedIsTrue
      <4>3. PathsAreTrue'
        BY <3>1, <3>3, <4>1 DEF PathsAreTrue
      <4>4. NoneIsMissed'
        BY <3>1, <3>3, <3>4, <4>1 DEF NoneIsMissed
      <4>5. QED
        BY <4>2, <4>3, <4>4
    <3>6. QED
      BY <3>2, <3>5 DEF SkillInv
  <2>3. QED
    BY <2>1, <2>2
<1>3. QED
  BY <1>1, <1>2, PTL DEF SkillSpec

\* When discoveries are over, of which any number overlapped over one map, and
\* none failed and no file changed since the first began, each skill is loaded
\* from the last directory of the search path that has it, and none is missing
\* (FSLoader.Discover, discoverInDir).
THEOREM ProjectWins == SkillSpec => []ProjectSkillsWin
<1>1. SkillInv => ProjectSkillsWin
  <2> SUFFICES ASSUME SkillInv, fresh, ~Scanning, NEW n \in Skills
               PROVE  paths[n] = IF Holders(n) = {} THEN 0 ELSE Highest(n)
    BY DEF ProjectSkillsWin
  <2>1. \A e : ~Pending(e, n)
    BY DEF Pending, Scanning
  <2>2. /\ paths[n] # 0 => paths[n] \in Holders(n)
        /\ \A e \in Holders(n) : e <= paths[n]
    BY <2>1 DEF SkillInv, PathsLead, PathsAreTrue, NoneIsMissed
  <2>3. Holders(n) \subseteq Dirs /\ \A e \in Dirs : e \in Nat /\ e # 0
    BY DirsAre DEF Holders
  <2>4. CASE Holders(n) = {}
    BY <2>2, <2>4
  <2>5. CASE Holders(n) # {}
    <3>1. PICK e \in Holders(n) : TRUE
      BY <2>5
    <3>2. paths[n] # 0
      BY <2>2, <2>3, <3>1
    <3>3. paths[n] \in Holders(n)
      BY <2>2, <3>2
    <3>4. ASSUME NEW d \in Holders(n), \A m \in Holders(n) : m <= d PROVE d = paths[n]
      <4>1. d <= paths[n] /\ paths[n] <= d /\ d \in Nat /\ paths[n] \in Nat
        BY <2>2, <2>3, <3>3, <3>4
      <4>2. QED
        BY <4>1
    <3>5. QED
      BY <2>2, <2>5, <3>3, <3>4 DEF Highest
  <2>6. QED
    BY <2>4, <2>5
<1>2. QED
  BY <1>1, AlwaysSkillInv, PTL

\* The types of the loader's map, of the catalog and of the calls of the tool.
THEOREM SkillTypeCorrect == SkillSpec => []SkillTypeOK
<1>1. SkillInv => SkillTypeOK
  BY DEF SkillInv, SkillTypes, SkillTypeOK, Calls
<1>2. QED
  BY <1>1, AlwaysSkillInv, PTL

-----------------------------------------------------------------------------
(* Which source decides a setting.                                          *)

\* The last of a set of sources.
LastOf(S) == CHOOSE n \in S : \A m \in S : m <= n

LEMMA LastIs ==
  ASSUME NEW S \in SUBSET Nat, NEW n \in S, \A m \in S : m <= n
  PROVE  LastOf(S) = n
<1>1. ASSUME NEW k \in S, \A m \in S : m <= k PROVE k = n
  BY <1>1
<1>2. QED
  BY <1>1 DEF LastOf

Speaks(s, x) == x # Unset /\ (s \in Plain \cup Flags => x # Zero)

ConfigInv ==
  /\ source \in 1..(Len(Scopes) + 2)
  /\ loading = "merging" => source <= Len(Scopes) + 1
  /\ DOMAIN said = Sources /\ \A n \in Sources : said[n] = [s \in Settings |-> said[n][s]]
  /\ said = [n \in Sources |-> said[n]] /\ cfg = [s \in Settings |-> cfg[s]]
  /\ \A n \in Sources, s \in Settings : n >= source => said[n][s] = Unset
  /\ \A s \in Settings :
       cfg[s] = IF Deciding(s) = {} THEN Defaults[s] ELSE said[LastOf(Deciding(s))][s]

LEMMA Lengths == Len(Scopes) = 3 /\ Sources = 1..4
BY DEF Scopes, Sources

LEMMA ConfigInvInit == ConfigInit => ConfigInv
<1> SUFFICES ASSUME ConfigInit PROVE ConfigInv
  OBVIOUS
<1>1. \A s \in Settings : Deciding(s) = {}
  BY DEF ConfigInit, Deciding
<1>2. cfg = [s \in Settings |-> cfg[s]]
  BY ConfigurationAssumption DEF ConfigInit
<1>3. QED
  BY <1>1, <1>2, Lengths DEF ConfigInit, ConfigInv

\* A source merged into what the ones before it said.
LEMMA MergeKeeps ==
  ASSUME ConfigInv, source \in Sources, NEW file, file = [s \in Settings |-> file[s]], Merge(file),
         loading' \in {"merging", "loaded"}, loading' = "merging" => source <= Len(Scopes)
  PROVE  ConfigInv'
<1>1. /\ source \in 1..4 /\ source' = source + 1
      /\ cfg' = MergeConfig(cfg, file) /\ said' = [said EXCEPT ![source] = file]
  BY Lengths DEF Merge
<1>2. /\ source' \in 1..5 /\ DOMAIN said' = Sources /\ said' = [n \in Sources |-> said'[n]]
      /\ said'[source] = file /\ \A n \in Sources \ {source} : said'[n] = said[n]
  <2>1. said = [n \in Sources |-> said[n]] /\ source \in Sources
    BY <1>1, Lengths DEF ConfigInv
  <2>2. DOMAIN said' = Sources /\ said' = [n \in Sources |-> IF n = source THEN file ELSE said[n]]
    BY <1>1, <2>1
  <2>3. QED
    BY <1>1, <2>1, <2>2
<1>3. \A n \in Sources : said'[n] = [s \in Settings |-> said'[n][s]]
  BY <1>2 DEF ConfigInv
<1>4. \A n \in Sources, s \in Settings : n >= source' => said'[n][s] = Unset
  <2>1. ASSUME NEW n \in Sources, NEW s \in Settings, n >= source' PROVE said'[n][s] = Unset
    <3>1. n # source /\ n >= source
      BY <1>1, <2>1, Lengths
    <3>2. QED
      BY <1>2, <3>1 DEF ConfigInv
  <2>2. QED
    BY <2>1
<1>5. cfg' = [s \in Settings |-> cfg'[s]]
  BY <1>1 DEF MergeConfig
<1>6. ASSUME NEW s \in Settings
      PROVE  cfg'[s] = IF Deciding(s)' = {} THEN Defaults[s] ELSE said'[LastOf(Deciding(s)')][s]
  <2>1. cfg'[s] = IF Speaks(s, file[s]) THEN file[s] ELSE cfg[s]
    BY <1>1 DEF MergeConfig, Speaks
  <2>2. /\ Deciding(s) = {n \in Sources : Speaks(s, said[n][s])}
        /\ Deciding(s)' = {n \in Sources : Speaks(s, said'[n][s])}
    BY DEF Deciding, Speaks
  <2>3. \A n \in Deciding(s) : n < source
    BY <1>1, <2>2, Lengths DEF ConfigInv, Speaks
  <2>4. cfg[s] = IF Deciding(s) = {} THEN Defaults[s] ELSE said[LastOf(Deciding(s))][s]
    BY DEF ConfigInv
  <2>5. CASE Speaks(s, file[s])
    <3>1. Deciding(s)' = Deciding(s) \cup {source}
      BY <1>1, <1>2, <2>2, <2>5, Lengths
    <3>2. Deciding(s)' \subseteq Nat /\ source \in Deciding(s)' /\ \A n \in Deciding(s)' : n <= source
      BY <1>1, <2>2, <2>3, <3>1, Lengths
    <3>3. LastOf(Deciding(s)') = source
      BY <3>2, LastIs
    <3>4. QED
      BY <1>2, <2>1, <2>5, <3>2, <3>3
  <2>6. CASE ~Speaks(s, file[s])
    <3>1. Deciding(s)' = Deciding(s)
      <4>1. ASSUME NEW n \in Sources PROVE Speaks(s, said'[n][s]) <=> Speaks(s, said[n][s])
        <5>1. CASE n = source
          <6>1. source \notin Deciding(s)
            BY <1>1, <2>3
          <6>2. QED
            BY <1>2, <2>2, <2>6, <5>1, <6>1
        <5>2. CASE n # source
          BY <1>2, <5>2
        <5>3. QED
          BY <5>1, <5>2
      <4>2. QED
        BY <2>2, <4>1
    <3>2. CASE Deciding(s) = {}
      BY <2>1, <2>4, <2>6, <3>1, <3>2
    <3>3. CASE Deciding(s) # {}
      <4>1. PICK n \in Deciding(s) : \A m \in Deciding(s) : m <= n
        <5>1. Deciding(s) \subseteq 1..4
          BY <2>2, Lengths
        <5>2. QED
          BY <3>3, <5>1
      <4>2. LastOf(Deciding(s)) = n
        BY <2>2, <4>1, LastIs, Lengths
      <4>3. n # source /\ n \in Sources
        BY <1>1, <2>2, <2>3, <4>1
      <4>4. said'[n] = said[n]
        BY <1>2, <4>3
      <4>5. QED
        BY <2>1, <2>4, <2>6, <3>1, <3>3, <4>2, <4>4
    <3>4. QED
      BY <3>2, <3>3
  <2>7. QED
    BY <2>5, <2>6
<1>7. QED
  <2>1. source' \in 1..(Len(Scopes) + 2) /\ (loading' = "merging" => source' <= Len(Scopes) + 1)
    BY <1>1, Lengths
  <2>2. QED
    BY <1>2, <1>3, <1>4, <1>5, <1>6, <2>1 DEF ConfigInv, LastOf

\* A step that merges nothing: it goes past a source, or ends the load.
LEMMA NothingMerged ==
  ASSUME ConfigInv, UNCHANGED <<cfg, said>>,
         \/ source <= Len(Scopes) /\ source' = source + 1 /\ loading' = loading
         \/ source' = source /\ loading' \in {loading, "failed"}
  PROVE  ConfigInv'
<1>1. \A s \in Settings : Deciding(s)' = Deciding(s)
  BY DEF Deciding
<1>2. source' \in 1..(Len(Scopes) + 2) /\ (loading' = "merging" => source' <= Len(Scopes) + 1) /\ source' >= source
  BY Lengths DEF ConfigInv
<1>3. \A n \in Sources, s \in Settings : n >= source' => said'[n][s] = Unset
  BY <1>2, Lengths DEF ConfigInv
<1>4. QED
  BY <1>1, <1>2, <1>3 DEF ConfigInv

LEMMA AlwaysConfigInv == ConfigSpec => []ConfigInv
<1>1. ConfigInit => ConfigInv
  BY ConfigInvInit
<1>2. ConfigInv /\ [ConfigNext]_configVars => ConfigInv'
  <2> SUFFICES ASSUME ConfigInv, [ConfigNext]_configVars PROVE ConfigInv'
    OBVIOUS
  <2>1. CASE LoadFile
    <3>1. loading = "merging" /\ source <= Len(Scopes)
      BY <2>1 DEF LoadFile
    <3>2. ASSUME NEW file \in Files, Merge(file), loading' = loading PROVE ConfigInv'
      <4>1. source \in Sources /\ file = [s \in Settings |-> file[s]]
        BY <3>1, Lengths, ConfigurationAssumption DEF ConfigInv
      <4>2. QED
        BY <3>1, <3>2, <4>1, MergeKeeps
    <3>3. QED
      BY <2>1, <3>1, <3>2, NothingMerged DEF LoadFile
  <2>2. CASE ApplyEnvOverrides
    <3>1. source = Len(Scopes) + 1
      BY <2>2 DEF ApplyEnvOverrides
    <3>2. ASSUME NEW env, Merge([s \in Settings |-> IF s \in Environ THEN env[s] ELSE Unset]),
                 loading' = "loaded"
          PROVE  ConfigInv'
      <4> DEFINE file == [s \in Settings |-> IF s \in Environ THEN env[s] ELSE Unset]
      <4>1. source \in Sources /\ file = [s \in Settings |-> file[s]] /\ Merge(file)
        BY <3>1, <3>2, Lengths
      <4> HIDE DEF file
      <4>2. QED
        BY <3>2, <4>1, MergeKeeps
    <3>3. QED
      BY <2>2, <3>2, NothingMerged DEF ApplyEnvOverrides
  <2>3. CASE UNCHANGED configVars
    BY <2>3, NothingMerged DEF configVars
  <2>4. QED
    BY <2>1, <2>2, <2>3 DEF ConfigNext
<1>3. QED
  BY <1>1, <1>2, PTL DEF ConfigSpec

\* Each setting of a configuration that Load returns is the last value said of
\* it, or the last zero if it is an optional one, and the default if there is
\* none; a zero of another setting overrides nothing (mergeConfig and what it
\* calls, loadFile, applyEnvOverrides).
THEOREM LastDecides == ConfigSpec => []LastValueDecides
<1>1. ConfigInv => LastValueDecides
  BY DEF ConfigInv, LastValueDecides, LastOf
<1>2. QED
  BY <1>1, AlwaysConfigInv, PTL

\* What is merged says of each setting what a file may say.
LEMMA MergeType ==
  ASSUME cfg \in [Settings -> Said], said \in [Sources -> [Settings -> Said]],
         NEW file \in [Settings -> Said], Merge(file)
  PROVE  cfg' \in [Settings -> Said] /\ said' \in [Sources -> [Settings -> Said]]
<1>1. \A s \in Settings : cfg'[s] \in {cfg[s], file[s]}
  BY DEF Merge, MergeConfig
<1>2. cfg' = [s \in Settings |-> cfg'[s]]
  BY DEF Merge, MergeConfig
<1>3. cfg' \in [Settings -> Said]
  BY <1>1, <1>2
<1>4. QED
  BY <1>3 DEF Merge

\* The types of what Load has: no value that it refuses is ever merged.
THEOREM ConfigTypeCorrect == ConfigSpec => []ConfigTypeOK
<1> DEFINE Typed == /\ cfg \in [Settings -> Said] /\ said \in [Sources -> [Settings -> Said]]
                    /\ loading \in {"merging", "loaded", "failed"}
<1>1. ConfigInit => Typed
  <2> SUFFICES ASSUME ConfigInit PROVE Typed
    OBVIOUS
  <2>1. Values \cup {Unset} \subseteq Said /\ Unset \in Said
    BY DEF Said
  <2>2. Defaults \in [Settings -> Said]
    BY <2>1, ConfigurationAssumption
  <2>3. QED
    BY <2>1, <2>2 DEF ConfigInit
<1>2. Typed /\ [ConfigNext]_configVars => Typed'
  <2> SUFFICES ASSUME Typed, [ConfigNext]_configVars PROVE Typed'
    OBVIOUS
  <2>1. CASE LoadFile
    <3>1. ASSUME NEW file \in Files, Merge(file), UNCHANGED loading PROVE Typed'
      BY <3>1, MergeType, ConfigurationAssumption
    <3>2. ASSUME UNCHANGED <<cfg, said>>, loading' \in {loading, "failed"} PROVE Typed'
      BY <3>2
    <3>3. QED
      BY <2>1, <3>1, <3>2 DEF LoadFile
  <2>2. CASE ApplyEnvOverrides
    <3>1. PICK env \in Environments :
            IF \E s \in Environ : env[s] = Bad
            THEN loading' = "failed" /\ UNCHANGED <<source, cfg, said>>
            ELSE /\ loading' = "loaded"
                 /\ Merge([s \in Settings |-> IF s \in Environ THEN env[s] ELSE Unset])
      BY <2>2 DEF ApplyEnvOverrides
    <3>2. CASE \E s \in Environ : env[s] = Bad
      BY <3>1, <3>2
    <3>3. CASE \A s \in Environ : env[s] # Bad
      <4> DEFINE file == [s \in Settings |-> IF s \in Environ THEN env[s] ELSE Unset]
      <4>1. \A s \in Environ : env[s] \in Said
        BY <3>3 DEF Environments
      <4>2. file \in [Settings -> Said]
        BY <4>1 DEF Said
      <4>3. Merge(file) /\ loading' = "loaded"
        BY <3>1, <3>3
      <4> HIDE DEF file
      <4>4. QED
        BY <4>2, <4>3, MergeType
    <3>4. QED
      BY <3>2, <3>3
  <2>3. CASE UNCHANGED configVars
    BY <2>3 DEF configVars
  <2>4. QED
    BY <2>1, <2>2, <2>3 DEF ConfigNext
<1>3. ConfigInv /\ Typed => ConfigTypeOK
  BY DEF ConfigInv, ConfigTypeOK
<1> HIDE DEF Typed
<1>4. QED
  BY <1>1, <1>2, <1>3, AlwaysConfigInv, PTL DEF ConfigSpec

-----------------------------------------------------------------------------
(* Runs that share a session.                                               *)

SessionRows == [updated : 0..MaxSecond, archived : BOOLEAN]
Rows == [session : 1..MaxSessions, by : Writers, n : 1..MaxWrites, at : 0..MaxSecond]
Records == [at : Steps, session : 0..MaxSessions, n : 0..MaxWrites, stamp : 0..MaxSecond,
            todo : BOOLEAN, row : Nat, reported : SUBSET (Nat \ {0})]

SessTypes ==
  /\ second \in 0..MaxSecond
  /\ sessions \in Seq(SessionRows)
  /\ Len(sessions) <= MaxSessions
  /\ messages \in Seq(Rows) /\ parts \subseteq 1..Len(messages)
  /\ writer \in [Writers -> Records]
  /\ \A i \in 1..Len(messages) : messages[i].session \in 1..Len(sessions)

\* A run past its beginning has a session that exists; in the middle of a
\* message, a number and a time for it.
InMessage(r) == writer[r].at \in {"insert", "touch", "part"}
HasSession ==
  \A r \in Writers :
    /\ writer[r].at \in {"turn", "insert", "touch", "part"} => writer[r].session # 0
    /\ writer[r].session \in 0..Len(sessions)
    /\ writer[r].at \in {"idle", "admitted"} => writer[r].reported = {}
    /\ InMessage(r) => writer[r].n >= 1
    /\ writer[r].stamp <= second

\* The messages of a run are numbered in the order of their rows, at times that
\* do not go back; the one it is about to insert comes after all of them.
InOrder ==
  /\ \A i, j \in 1..Len(messages) :
       messages[i].by = messages[j].by /\ i < j =>
         messages[i].n < messages[j].n /\ messages[i].at <= messages[j].at
  /\ \A i \in 1..Len(messages), r \in Writers :
       messages[i].by = r =>
         /\ messages[i].n <= writer[r].n /\ messages[i].at <= second
         /\ writer[r].at = "insert" => messages[i].n < writer[r].n /\ messages[i].at <= writer[r].stamp

\* The row a run has inserted is in its session, and so is what it has reported.
RowsKept ==
  \A r \in Writers :
    /\ writer[r].at \in {"touch", "part"} =>
         writer[r].row \in 1..Len(messages) /\ messages[writer[r].row].session = writer[r].session
    /\ \A i \in writer[r].reported :
         i \in 1..Len(messages) /\ messages[i].session = writer[r].session /\ i \in parts

SessInv == SessTypes /\ HasSession /\ InOrder /\ RowsKept

LEMMA SessInvInit == SessInit => SessInv
<1> SUFFICES ASSUME SessInit PROVE SessInv
  OBVIOUS
<1>1. NewWriter \in Records
  BY SessionsAssumption DEF NewWriter, Records, Steps
<1>2. /\ second = 0 /\ sessions = <<>> /\ messages = <<>> /\ parts = {}
      /\ writer = [r \in Writers |-> NewWriter]
  BY DEF SessInit
<1>3. SessTypes
  BY <1>1, <1>2, SessionsAssumption DEF SessTypes
<1>4. HasSession /\ InOrder /\ RowsKept
  BY <1>2 DEF HasSession, InOrder, RowsKept, NewWriter, InMessage
<1>5. QED
  BY <1>3, <1>4 DEF SessInv

\* A step of the clock or of a handler: the table of sessions does not shrink.
LEMMA HandlersKeep ==
  ASSUME SessInv, UNCHANGED <<messages, parts, writer>>,
         second' \in 0..MaxSecond, second' >= second,
         sessions' \in Seq(SessionRows),
         Len(sessions') <= MaxSessions, Len(sessions') >= Len(sessions)
  PROVE  SessInv'
<1>1. Len(sessions) \in Nat /\ Len(sessions') \in Nat /\ second \in Nat /\ second' \in Nat
      /\ messages \in Seq(Rows) /\ Len(messages) \in Nat
  BY SessionsAssumption DEF SessInv, SessTypes
<1>2. 0..Len(sessions) \subseteq 0..Len(sessions') /\ 1..Len(sessions) \subseteq 1..Len(sessions')
  BY <1>1
<1>3. SessTypes'
  BY <1>1, <1>2 DEF SessInv, SessTypes
<1>4. ASSUME NEW r \in Writers PROVE writer[r].stamp <= second'
  <2>1. writer[r].stamp \in Nat /\ writer[r].stamp <= second
    BY SessionsAssumption DEF SessInv, SessTypes, HasSession, Records
  <2>2. QED
    BY <1>1, <2>1
<1>5. HasSession'
  BY <1>2, <1>4 DEF SessInv, HasSession, InMessage
<1>6. InOrder'
  <2>1. ASSUME NEW i \in 1..Len(messages), NEW r \in Writers, messages[i].by = r
        PROVE  messages[i].at <= second'
    <3>1. messages[i].at <= second
      BY <2>1 DEF SessInv, InOrder
    <3>2. messages[i] \in Rows
      BY <1>1
    <3>3. messages[i].at \in 0..MaxSecond
      BY <3>2 DEF Rows
    <3>4. QED
      BY <1>1, <3>1, <3>3, SessionsAssumption
  <2>2. QED
    BY <2>1 DEF SessInv, InOrder
<1>7. RowsKept'
  BY DEF SessInv, RowsKept
<1>8. QED
  BY <1>3, <1>5, <1>6, <1>7 DEF SessInv

\* A step of a run that inserts no message.
LEMMA RunGoesOn ==
  ASSUME SessInv, NEW r \in Writers, NEW w \in Records, writer' = [writer EXCEPT ![r] = w],
         second' = second, messages' = messages,
         parts \subseteq parts', parts' \subseteq 1..Len(messages),
         sessions' \in Seq(SessionRows),
         Len(sessions') <= MaxSessions, Len(sessions') >= Len(sessions),
         w.session \in 0..Len(sessions'),
         w.at \in {"turn", "insert", "touch", "part"} => w.session # 0,
         w.at \in {"idle", "admitted"} => w.reported = {},
         w.at \in {"insert", "touch", "part"} => w.n >= 1,
         w.stamp <= second, w.n >= writer[r].n,
         w.at = "insert" => w.n > writer[r].n /\ w.stamp = second,
         w.at \in {"touch", "part"} =>
           w.row \in 1..Len(messages) /\ messages[w.row].session = w.session,
         \A i \in w.reported :
           i \in 1..Len(messages) /\ messages[i].session = w.session /\ i \in parts'
  PROVE  SessInv'
<1>1. /\ Len(sessions) \in Nat /\ Len(sessions') \in Nat /\ second \in Nat
      /\ messages \in Seq(Rows) /\ Len(messages) \in Nat /\ writer \in [Writers -> Records]
  BY SessionsAssumption DEF SessInv, SessTypes
<1>2. 0..Len(sessions) \subseteq 0..Len(sessions') /\ 1..Len(sessions) \subseteq 1..Len(sessions')
  BY <1>1
<1>3. /\ writer' \in [Writers -> Records] /\ writer'[r] = w
      /\ \A t \in Writers \ {r} : writer'[t] = writer[t]
  BY <1>1
<1>4. SessTypes'
  BY <1>1, <1>2, <1>3 DEF SessInv, SessTypes
<1>5. HasSession'
  BY <1>2, <1>3 DEF SessInv, HasSession, InMessage
<1>6. InOrder'
  <2>1. ASSUME NEW i \in 1..Len(messages), NEW t \in Writers, messages[i].by = t
        PROVE  /\ messages[i].n <= writer'[t].n /\ messages[i].at <= second
               /\ writer'[t].at = "insert" => messages[i].n < writer'[t].n /\ messages[i].at <= writer'[t].stamp
    <3>1. /\ messages[i].n <= writer[t].n /\ messages[i].at <= second
          /\ writer[t].at = "insert" => messages[i].n < writer[t].n /\ messages[i].at <= writer[t].stamp
      BY <2>1 DEF SessInv, InOrder
    <3>2. messages[i].n \in Nat /\ writer[t].n \in Nat /\ w.n \in Nat
      <4>1. messages[i] \in Rows /\ writer[t] \in Records
        BY <1>1
      <4>2. messages[i].n \in 1..MaxWrites /\ writer[t].n \in 0..MaxWrites /\ w.n \in 0..MaxWrites
        BY <4>1 DEF Rows, Records
      <4>3. QED
        BY <4>2, SessionsAssumption
    <3>3. CASE t = r
      BY <1>3, <3>1, <3>2, <3>3
    <3>4. CASE t # r
      BY <1>3, <3>1, <3>4
    <3>5. QED
      BY <3>3, <3>4
  <2>2. QED
    BY <2>1 DEF SessInv, InOrder
<1>7. RowsKept'
  BY <1>3 DEF SessInv, RowsKept
<1>8. QED
  BY <1>4, <1>5, <1>6, <1>7 DEF SessInv

\* What is known of a run.
LEMMA RunFacts ==
  ASSUME SessInv, NEW r \in Writers
  PROVE  /\ writer[r] \in Records /\ writer \in [Writers -> Records]
         /\ sessions \in Seq(SessionRows)
         /\ Len(sessions) <= MaxSessions /\ Len(sessions) \in Nat /\ MaxSessions \in Nat
         /\ messages \in Seq(Rows) /\ parts \subseteq 1..Len(messages) /\ second \in 0..MaxSecond
         /\ writer[r].session \in 0..Len(sessions)
         /\ writer[r].at \in {"turn", "insert", "touch", "part"} => writer[r].session # 0
         /\ writer[r].at \in {"idle", "admitted"} => writer[r].reported = {}
         /\ writer[r].at \in {"insert", "touch", "part"} => writer[r].n >= 1
         /\ writer[r].at \in {"touch", "part"} =>
              writer[r].row \in 1..Len(messages) /\ messages[writer[r].row].session = writer[r].session
         /\ \A i \in writer[r].reported :
              i \in 1..Len(messages) /\ messages[i].session = writer[r].session /\ i \in parts
         /\ writer[r].n \in 0..MaxWrites /\ writer[r].stamp \in 0..MaxSecond /\ writer[r].stamp <= second
<1>1. writer[r] \in Records
  BY DEF SessInv, SessTypes
<1>2. writer[r].n \in 0..MaxWrites /\ writer[r].stamp \in 0..MaxSecond
  BY <1>1 DEF Records
<1>3. QED
  BY SMTT(30), <1>1, <1>2, SessionsAssumption DEF SessInv, SessTypes, HasSession, RowsKept, InMessage

LEMMA AdmitKeeps ==
  ASSUME SessInv, NEW r \in Writers, NEW s \in 0..Len(sessions), Admit(r, s)
  PROVE  SessInv'
<1> DEFINE w == [writer[r] EXCEPT !.at = "admitted", !.session = s]
<1>1. w \in Records
  <2>1. s \in 0..MaxSessions /\ "admitted" \in Steps /\ writer[r] \in Records
    BY RunFacts DEF Steps
  <2>2. QED
    BY <2>1 DEF Records
<1>2. /\ w.at = "admitted" /\ w.reported = writer[r].reported /\ w.n = writer[r].n
      /\ w.stamp = writer[r].stamp /\ w.session = s
  BY RunFacts DEF Records
<1>3. /\ writer[r].at = "idle" /\ writer' = [writer EXCEPT ![r] = w]
      /\ UNCHANGED <<second, sessions, messages, parts>>
  BY DEF Admit
<1> HIDE DEF w
<1>4. writer[r].reported = {}
  BY <1>3, RunFacts
<1>5. /\ w.n >= writer[r].n /\ w.stamp <= second /\ w.at \notin {"turn", "insert", "touch", "part"}
      /\ w.session \in 0..Len(sessions) /\ Len(sessions) >= Len(sessions) /\ w.reported = {}
  BY <1>2, <1>4, RunFacts, SessionsAssumption
<1>6. /\ w.at \in {"turn", "insert", "touch", "part"} => w.session # 0
      /\ w.at \in {"idle", "admitted"} => w.reported = {}
      /\ w.at \in {"insert", "touch", "part"} => w.n >= 1
      /\ w.at = "insert" => w.n > writer[r].n /\ w.stamp = second
      /\ w.at \in {"touch", "part"} =>
           w.row \in 1..Len(messages) /\ messages[w.row].session = w.session
      /\ \A i \in w.reported :
           i \in 1..Len(messages) /\ messages[i].session = w.session /\ i \in parts'
  BY <1>5
<1>7. /\ parts \subseteq parts' /\ parts' \subseteq 1..Len(messages) /\ second' = second
      /\ messages' = messages /\ sessions' = sessions
      /\ sessions' \in Seq(SessionRows)
      /\ Len(sessions') <= MaxSessions
  BY <1>3, RunFacts
<1>8. QED
  BY <1>1, <1>3, <1>5, <1>6, <1>7, RunGoesOn

LEMMA EnsureKeeps ==
  ASSUME SessInv, NEW r \in Writers, EnsureSession(r) PROVE SessInv'
<1> DEFINE s == IF writer[r].session = 0 THEN Len(sessions) + 1 ELSE writer[r].session
           w == [writer[r] EXCEPT !.at = "turn", !.session = s]
           record == [updated |-> second, archived |-> FALSE]
<1>1. /\ writer[r].at = "admitted" /\ s <= MaxSessions
      /\ sessions' = IF s \in DOMAIN sessions THEN sessions ELSE NewSession
      /\ writer' = [writer EXCEPT ![r] = w] /\ UNCHANGED <<second, messages, parts>>
  BY DEF EnsureSession
<1>2. /\ s \in 1..MaxSessions
      /\ s \in 1..Len(sessions) \/ s = Len(sessions) + 1
  BY <1>1, RunFacts
<1>3. w \in Records
  <2>1. s \in 0..MaxSessions /\ "turn" \in Steps /\ writer[r] \in Records
    BY <1>2, RunFacts DEF Steps
  <2> HIDE DEF s
  <2>2. QED
    BY <2>1 DEF Records
<1>4. /\ w.at = "turn" /\ w.session = s /\ w.reported = writer[r].reported /\ w.n = writer[r].n
      /\ w.stamp = writer[r].stamp
  <2> HIDE DEF s
  <2>1. QED
    BY RunFacts DEF Records
<1>5. /\ sessions' \in Seq(SessionRows)
      /\ Len(sessions') <= MaxSessions /\ Len(sessions') >= Len(sessions) /\ s \in 1..Len(sessions')
  <2>1. /\ sessions \in Seq(SessionRows)
        /\ second \in 0..MaxSecond /\ Len(sessions) \in Nat /\ Len(sessions) <= MaxSessions
    BY RunFacts
  <2>2. /\ record \in SessionRows
        /\ DOMAIN sessions = 1..Len(sessions)
    BY <2>1 DEF SessionRows
  <2>3. CASE s \in 1..Len(sessions)
    BY <1>1, <2>1, <2>3, <2>2
  <2>4. CASE s \notin 1..Len(sessions)
    <3>1. s = Len(sessions) + 1 /\ s <= MaxSessions
      BY <1>1, <1>2, <2>4
    <3>2. sessions' = Append(sessions, record)
      BY <1>1, <2>4, <2>2 DEF NewSession
    <3> HIDE DEF s, record
    <3>3. QED
      BY <2>1, <2>2, <3>1, <3>2
  <2>5. QED
    BY <2>3, <2>4
<1> HIDE DEF w, s
<1>6. writer[r].reported = {}
  BY <1>1, RunFacts
<1>7. /\ w.n >= writer[r].n /\ w.stamp <= second /\ w.session \in 0..Len(sessions')
      /\ w.at \in {"turn", "insert", "touch", "part"} => w.session # 0
      /\ w.at \in {"idle", "admitted"} => w.reported = {}
      /\ w.at \in {"insert", "touch", "part"} => w.n >= 1
      /\ w.at = "insert" => w.n > writer[r].n /\ w.stamp = second
      /\ w.at \in {"touch", "part"} =>
           w.row \in 1..Len(messages) /\ messages[w.row].session = w.session
      /\ \A i \in w.reported :
           i \in 1..Len(messages) /\ messages[i].session = w.session /\ i \in parts'
  BY <1>4, <1>5, <1>6, RunFacts, SessionsAssumption
<1>8. parts \subseteq parts' /\ parts' \subseteq 1..Len(messages) /\ second' = second /\ messages' = messages
  BY <1>1, RunFacts
<1>9. QED
  BY <1>1, <1>3, <1>5, <1>7, <1>8, RunGoesOn

LEMMA StampKeeps ==
  ASSUME SessInv, NEW r \in Writers, NEW todo \in BOOLEAN, Stamp(r, todo) PROVE SessInv'
<1> DEFINE w == [writer[r] EXCEPT !.at = "insert", !.n = @ + 1, !.stamp = second, !.todo = todo]
<1>1. /\ writer[r].at = "turn" /\ writer[r].n < MaxWrites
      /\ writer' = [writer EXCEPT ![r] = w] /\ UNCHANGED <<second, sessions, messages, parts>>
  BY DEF Stamp
<1>2. writer[r].n + 1 \in 0..MaxWrites /\ writer[r].n \in Nat /\ second \in Nat
  BY <1>1, RunFacts, SessionsAssumption
<1>3. w \in Records
  <2>1. "insert" \in Steps /\ writer[r] \in Records /\ second \in 0..MaxSecond
    BY RunFacts DEF Steps
  <2>2. QED
    BY <1>2, <2>1 DEF Records
<1>4. /\ w.at = "insert" /\ w.session = writer[r].session /\ w.reported = writer[r].reported
      /\ w.n = writer[r].n + 1 /\ w.stamp = second
  BY RunFacts DEF Records
<1> HIDE DEF w
<1>5. /\ w.n >= writer[r].n /\ w.stamp <= second /\ w.session \in 0..Len(sessions)
      /\ w.at \in {"turn", "insert", "touch", "part"} => w.session # 0
      /\ w.at \in {"idle", "admitted"} => w.reported = {}
      /\ w.at \in {"insert", "touch", "part"} => w.n >= 1
      /\ w.at = "insert" => w.n > writer[r].n /\ w.stamp = second
      /\ w.at \in {"touch", "part"} =>
           w.row \in 1..Len(messages) /\ messages[w.row].session = w.session
      /\ \A i \in w.reported :
           i \in 1..Len(messages) /\ messages[i].session = w.session /\ i \in parts'
  BY <1>1, <1>2, <1>4, RunFacts
<1>6. /\ parts \subseteq parts' /\ parts' \subseteq 1..Len(messages) /\ second' = second
      /\ messages' = messages /\ sessions' = sessions
      /\ sessions' \in Seq(SessionRows)
      /\ Len(sessions') <= MaxSessions /\ Len(sessions') >= Len(sessions)
  <2>1. sessions' = sessions /\ Len(sessions) >= Len(sessions)
    BY <1>1, RunFacts
  <2>2. QED
    BY <1>1, <2>1, RunFacts
<1>7. QED
  BY <1>1, <1>3, <1>5, <1>6, RunGoesOn

LEMMA TouchKeeps ==
  ASSUME SessInv, NEW r \in Writers, TouchSession(r) PROVE SessInv'
<1> DEFINE w == [writer[r] EXCEPT !.at = "part"]
           s == writer[r].session
<1>1. /\ writer[r].at = "touch"
      /\ sessions' = [sessions EXCEPT ![s].updated = writer[r].stamp] \/ sessions' = sessions
      /\ writer' = [writer EXCEPT ![r] = w] /\ UNCHANGED <<second, messages, parts>>
  BY DEF TouchSession
<1>2. w \in Records
  <2>1. "part" \in Steps /\ writer[r] \in Records
    BY RunFacts DEF Steps
  <2>2. QED
    BY <2>1 DEF Records
<1>3. /\ w.at = "part" /\ w.session = s /\ w.reported = writer[r].reported
      /\ w.n = writer[r].n /\ w.stamp = writer[r].stamp /\ w.row = writer[r].row
  BY RunFacts DEF Records
<1>4. /\ sessions' \in Seq(SessionRows)
      /\ Len(sessions') = Len(sessions)
  <2>1. /\ sessions \in Seq(SessionRows)
        /\ s \in 1..Len(sessions) /\ writer[r].stamp \in 0..MaxSecond
    <3>1. s # 0 /\ s \in 0..Len(sessions) /\ Len(sessions) \in Nat
      BY <1>1, RunFacts
    <3>2. s \in 1..Len(sessions)
      BY <3>1
    <3>3. QED
      BY <3>2, RunFacts
  <2>2. sessions[s] \in SessionRows
    BY <2>1
  <2>3. [sessions[s] EXCEPT !.updated = writer[r].stamp] \in SessionRows
    BY <2>1, <2>2 DEF SessionRows
  <2>4. \/ sessions' = [sessions EXCEPT ![s] = [sessions[s] EXCEPT !.updated = writer[r].stamp]]
        \/ sessions' = sessions
    BY <1>1
  <2>5. QED
    BY <2>1, <2>3, <2>4
<1> HIDE DEF w
<1>5. /\ w.n >= writer[r].n /\ w.stamp <= second /\ w.session \in 0..Len(sessions')
      /\ w.at \in {"turn", "insert", "touch", "part"} => w.session # 0
      /\ w.at \in {"idle", "admitted"} => w.reported = {}
      /\ w.at \in {"insert", "touch", "part"} => w.n >= 1
      /\ w.at = "insert" => w.n > writer[r].n /\ w.stamp = second
      /\ w.at \in {"touch", "part"} =>
           w.row \in 1..Len(messages) /\ messages[w.row].session = w.session
      /\ \A i \in w.reported :
           i \in 1..Len(messages) /\ messages[i].session = w.session /\ i \in parts'
  BY <1>1, <1>3, <1>4, RunFacts, SessionsAssumption
<1>6. /\ parts \subseteq parts' /\ parts' \subseteq 1..Len(messages) /\ second' = second
      /\ messages' = messages
      /\ Len(sessions') <= MaxSessions /\ Len(sessions') >= Len(sessions)
  BY <1>1, <1>4, RunFacts
<1>7. QED
  BY <1>1, <1>2, <1>4, <1>5, <1>6, RunGoesOn

\* A message that is done with, stored or not; what TodoWrite reports as stored
\* has its part.
LEMMA MessageDone ==
  ASSUME SessInv, NEW r \in Writers, writer[r].at \in {"insert", "part"},
         NEW reported, reported \subseteq writer[r].reported \cup {writer[r].row},
         writer[r].row \in reported =>
           \/ writer[r].at = "part" /\ writer[r].row \in parts'
           \/ writer[r].row \in writer[r].reported,
         writer' = [writer EXCEPT ![r] = [Turn(@) EXCEPT !.reported = reported]],
         parts \subseteq parts', parts' \subseteq 1..Len(messages),
         UNCHANGED <<second, sessions, messages>>
  PROVE  SessInv'
<1> DEFINE w == [Turn(writer[r]) EXCEPT !.reported = reported]
<1>1. writer' = [writer EXCEPT ![r] = w]
  OBVIOUS
<1>2. /\ writer[r] \in Records /\ "turn" \in Steps /\ 0 \in Nat /\ 0 \in 0..MaxSecond
      /\ \A i \in reported : i \in writer[r].reported \/ i = writer[r].row
  BY RunFacts, SessionsAssumption DEF Steps
<1>3. ASSUME NEW i \in reported
      PROVE  i \in 1..Len(messages) /\ messages[i].session = writer[r].session /\ i \in parts'
  <2>1. CASE i \in writer[r].reported
    BY <2>1, RunFacts
  <2>2. CASE i \notin writer[r].reported
    BY <1>2, <2>2, RunFacts
  <2>3. QED
    BY <2>1, <2>2
<1>4. reported \subseteq Nat \ {0}
  BY <1>3, RunFacts
<1>5. Turn(writer[r]) \in Records
  <2>1. [writer[r] EXCEPT !.at = "turn", !.stamp = 0, !.row = 0, !.todo = FALSE] \in Records
    BY <1>2 DEF Records
  <2>2. QED
    BY <2>1 DEF Turn
<1>6. /\ Turn(writer[r]).at = "turn" /\ Turn(writer[r]).session = writer[r].session
      /\ Turn(writer[r]).n = writer[r].n /\ Turn(writer[r]).stamp = 0
  BY <1>2 DEF Turn, Records
<1>7. w \in Records
  <2> HIDE DEF Turn
  <2>1. QED
    BY <1>4, <1>5 DEF Records
<1>8. /\ w.at = "turn" /\ w.session = writer[r].session /\ w.n = writer[r].n /\ w.stamp = 0
      /\ w.reported = reported
  BY <1>5, <1>6 DEF Records
<1> HIDE DEF w
<1>9. /\ w.n >= writer[r].n /\ w.stamp <= second /\ w.session \in 0..Len(sessions)
      /\ w.at \in {"turn", "insert", "touch", "part"} => w.session # 0
      /\ w.at \in {"idle", "admitted"} => w.reported = {}
      /\ w.at \in {"insert", "touch", "part"} => w.n >= 1
      /\ w.at = "insert" => w.n > writer[r].n /\ w.stamp = second
      /\ w.at \in {"touch", "part"} =>
           w.row \in 1..Len(messages) /\ messages[w.row].session = w.session
      /\ \A i \in w.reported :
           i \in 1..Len(messages) /\ messages[i].session = w.session /\ i \in parts'
  BY <1>3, <1>8, RunFacts, SessionsAssumption
<1>10. /\ second' = second /\ messages' = messages /\ sessions' = sessions
       /\ sessions' \in Seq(SessionRows)
       /\ Len(sessions') <= MaxSessions /\ Len(sessions') >= Len(sessions)
  <2>1. sessions' = sessions /\ Len(sessions) >= Len(sessions)
    BY RunFacts
  <2>2. QED
    BY <2>1, RunFacts
<1>11. QED
  BY <1>1, <1>7, <1>9, <1>10, RunGoesOn

LEMMA InsertKeeps ==
  ASSUME SessInv, NEW r \in Writers, InsertMessage(r) PROVE SessInv'
<1> DEFINE row == [session |-> writer[r].session, by |-> r, n |-> writer[r].n, at |-> writer[r].stamp]
           last == Len(messages) + 1
           w == [writer[r] EXCEPT !.at = "touch", !.row = last]
<1>1. /\ writer[r].at = "insert" /\ messages' = Append(messages, row)
      /\ writer' = [writer EXCEPT ![r] = [writer[r] EXCEPT !.at = "touch", !.row = Len(messages')]]
      /\ UNCHANGED <<second, sessions, parts>>
  BY DEF InsertMessage
<1>2. /\ row \in Rows /\ row.session = writer[r].session /\ row.by = r /\ row.n = writer[r].n
      /\ row.at = writer[r].stamp
  <2>1. /\ writer[r].session \in 0..Len(sessions) /\ writer[r].session # 0
        /\ Len(sessions) \in Nat /\ Len(sessions) <= MaxSessions /\ MaxSessions \in Nat
        /\ writer[r].n \in 0..MaxWrites /\ writer[r].n >= 1 /\ writer[r].stamp \in 0..MaxSecond
    BY <1>1, RunFacts
  <2>2. writer[r].session \in 1..MaxSessions /\ writer[r].n \in 1..MaxWrites
    BY <2>1
  <2>3. QED
    BY <2>1, <2>2 DEF Rows
<1> HIDE DEF row
<1>3. /\ messages \in Seq(Rows) /\ messages' \in Seq(Rows) /\ Len(messages) \in Nat
      /\ Len(messages') = last /\ messages'[last] = row
      /\ \A i \in 1..Len(messages) : messages'[i] = messages[i]
      /\ \A i \in 1..Len(messages') : i \in 1..Len(messages) \/ i = last
      /\ 1..Len(messages) \subseteq 1..Len(messages') /\ last \in 1..Len(messages')
      /\ \A i \in 1..Len(messages) : i < last
  <2>1. messages \in Seq(Rows)
    BY RunFacts
  <2>2. QED
    BY <1>1, <1>2, <2>1
<1>4. /\ w \in Records /\ writer' = [writer EXCEPT ![r] = w]
  <2>1. "touch" \in Steps /\ writer[r] \in Records /\ last \in Nat
    BY <1>3, RunFacts DEF Steps
  <2>2. w \in Records
    BY <2>1 DEF Records
  <2>3. QED
    BY <1>1, <1>3, <2>2
<1>5. /\ w.at = "touch" /\ w.session = writer[r].session /\ w.reported = writer[r].reported
      /\ w.n = writer[r].n /\ w.stamp = writer[r].stamp /\ w.row = last
  BY RunFacts DEF Records
<1> HIDE DEF w, last
<1>6. /\ writer' \in [Writers -> Records] /\ writer'[r] = w
      /\ \A t \in Writers \ {r} : writer'[t] = writer[t]
  BY <1>4, RunFacts
<1>7. SessTypes'
  <2>1. second' \in 0..MaxSecond /\ sessions' \in Seq(SessionRows) /\ Len(sessions') <= MaxSessions
    BY <1>1, RunFacts
  <2>2. parts' \subseteq 1..Len(messages')
    <3>1. parts \subseteq 1..Len(messages)
      BY RunFacts
    <3>2. QED
      BY <1>1, <1>3, <3>1
  <2>3. \A i \in 1..Len(messages') : messages'[i].session \in 1..Len(sessions')
    <3>1. \A i \in 1..Len(messages) : messages[i].session \in 1..Len(sessions)
      BY DEF SessInv, SessTypes
    <3>2. row.session \in 1..Len(sessions)
      <4>1. writer[r].session \in 0..Len(sessions) /\ writer[r].session # 0 /\ Len(sessions) \in Nat
        BY <1>1, RunFacts
      <4>2. QED
        BY <1>2, <4>1
    <3>3. QED
      BY <1>1, <1>3, <3>1, <3>2
  <2>4. QED
    BY <1>3, <1>6, <2>1, <2>2, <2>3 DEF SessTypes
<1>8. HasSession'
  <2>1. ASSUME NEW t \in Writers
        PROVE  /\ writer'[t].session \in 0..Len(sessions)
               /\ writer'[t].at \in {"turn", "insert", "touch", "part"} => writer'[t].session # 0
               /\ writer'[t].at \in {"idle", "admitted"} => writer'[t].reported = {}
               /\ writer'[t].at \in {"insert", "touch", "part"} => writer'[t].n >= 1
               /\ writer'[t].stamp <= second
    <3>1. CASE t = r
      BY <1>1, <1>5, <1>6, <3>1, RunFacts
    <3>2. CASE t # r
      BY <1>6, <3>2, RunFacts
    <3>3. QED
      BY <3>1, <3>2
  <2>2. QED
    BY <1>1, <2>1 DEF HasSession, InMessage
<1>9. \A i \in 1..Len(messages) : messages[i].by = r =>
        messages[i].n < row.n /\ messages[i].at <= row.at
  BY <1>1, <1>2 DEF SessInv, InOrder
<1>10. InOrder'
  <2>1. ASSUME NEW i \in 1..Len(messages'), NEW j \in 1..Len(messages'),
               messages'[i].by = messages'[j].by, i < j
        PROVE  messages'[i].n < messages'[j].n /\ messages'[i].at <= messages'[j].at
    <3>1. i \in 1..Len(messages)
      BY <1>3, <2>1 DEF last
    <3>2. CASE j \in 1..Len(messages)
      BY <1>3, <2>1, <3>1, <3>2 DEF SessInv, InOrder
    <3>3. CASE j \notin 1..Len(messages)
      BY <1>2, <1>3, <1>9, <2>1, <3>1, <3>3
    <3>4. QED
      BY <3>2, <3>3
  <2>2. ASSUME NEW i \in 1..Len(messages'), NEW t \in Writers, messages'[i].by = t
        PROVE  /\ messages'[i].n <= writer'[t].n /\ messages'[i].at <= second
               /\ writer'[t].at = "insert" =>
                    messages'[i].n < writer'[t].n /\ messages'[i].at <= writer'[t].stamp
    <3>1. CASE i \in 1..Len(messages)
      <4>1. /\ messages[i].n <= writer[t].n /\ messages[i].at <= second
            /\ writer[t].at = "insert" => messages[i].n < writer[t].n /\ messages[i].at <= writer[t].stamp
        BY <1>3, <2>2, <3>1 DEF SessInv, InOrder
      <4>2. CASE t = r
        BY <1>3, <1>5, <1>6, <3>1, <4>1, <4>2
      <4>3. CASE t # r
        BY <1>3, <1>6, <3>1, <4>1, <4>3
      <4>4. QED
        BY <4>2, <4>3
    <3>2. CASE i \notin 1..Len(messages)
      <4>1. messages'[i] = row /\ t = r
        BY <1>2, <1>3, <2>2, <3>2
      <4>2. writer[r].n \in Nat /\ writer[r].stamp <= second
        BY RunFacts, SessionsAssumption
      <4>3. QED
        BY <1>2, <1>5, <1>6, <4>1, <4>2
    <3>3. QED
      BY <3>1, <3>2
  <2>3. QED
    BY <1>1, <2>1, <2>2 DEF InOrder
<1>11. RowsKept'
  <2>1. ASSUME NEW t \in Writers, NEW i \in writer'[t].reported
        PROVE  i \in 1..Len(messages') /\ messages'[i].session = writer'[t].session /\ i \in parts'
    <3>1. writer'[t].reported = writer[t].reported /\ writer'[t].session = writer[t].session
      BY <1>5, <1>6
    <3>2. i \in 1..Len(messages) /\ messages[i].session = writer[t].session /\ i \in parts
      BY <2>1, <3>1, RunFacts
    <3>3. QED
      BY <1>1, <1>3, <3>1, <3>2
  <2>2. ASSUME NEW t \in Writers, writer'[t].at \in {"touch", "part"}
        PROVE  writer'[t].row \in 1..Len(messages') /\ messages'[writer'[t].row].session = writer'[t].session
    <3>1. CASE t = r
      BY <1>2, <1>3, <1>5, <1>6, <3>1
    <3>2. CASE t # r
      <4>1. writer[t].row \in 1..Len(messages) /\ messages[writer[t].row].session = writer[t].session
        BY <1>6, <2>2, <3>2, RunFacts
      <4>2. QED
        BY <1>3, <1>6, <3>2, <4>1
    <3>3. QED
      BY <3>1, <3>2
  <2>3. QED
    BY <2>1, <2>2 DEF RowsKept
<1>12. QED
  BY <1>7, <1>8, <1>10, <1>11 DEF SessInv

LEMMA PartKeeps ==
  ASSUME SessInv, NEW r \in Writers, AppendPart(r) PROVE SessInv'
<1> DEFINE reported == Reported(r)
<1>1. /\ writer[r].at = "part" /\ parts' = parts \cup {writer[r].row}
      /\ writer' = [writer EXCEPT ![r] = [Turn(@) EXCEPT !.reported = reported]]
      /\ UNCHANGED <<second, sessions, messages>>
  BY DEF AppendPart
<1>2. reported \subseteq writer[r].reported \cup {writer[r].row}
  BY DEF Reported
<1>3. writer[r].row \in 1..Len(messages) /\ parts \subseteq 1..Len(messages)
  BY <1>1, RunFacts
<1> HIDE DEF reported
<1>4. QED
  BY <1>1, <1>2, <1>3, MessageDone

LEMMA FailKeeps ==
  ASSUME SessInv, NEW r \in Writers, WriteFails(r) PROVE SessInv'
<1> DEFINE reported == writer[r].reported
<1>1. /\ writer[r].at \in {"insert", "part"} /\ writer' = [writer EXCEPT ![r] = Turn(writer[r])]
      /\ UNCHANGED <<second, sessions, messages, parts>>
  BY DEF WriteFails
<1>2. Turn(writer[r]) = [Turn(writer[r]) EXCEPT !.reported = reported]
  BY RunFacts DEF Turn, Records
<1>3. /\ writer' = [writer EXCEPT ![r] = [Turn(@) EXCEPT !.reported = reported]]
      /\ parts \subseteq parts' /\ parts' \subseteq 1..Len(messages)
  BY <1>1, <1>2, RunFacts
<1> HIDE DEF reported
<1>4. reported \subseteq writer[r].reported \cup {writer[r].row} /\ reported = writer[r].reported
  BY DEF reported
<1>5. QED
  BY <1>1, <1>3, <1>4, MessageDone

LEMMA SessInvStep == SessInv /\ [SessNext]_sessVars => SessInv'
<1> SUFFICES ASSUME SessInv, [SessNext]_sessVars PROVE SessInv'
  OBVIOUS
<1>1. /\ sessions \in Seq(SessionRows) /\ Len(sessions) \in Nat /\ Len(sessions) <= MaxSessions
      /\ second \in 0..MaxSecond /\ second \in Nat /\ DOMAIN sessions = 1..Len(sessions)
  BY SessionsAssumption DEF SessInv, SessTypes
<1>2. CASE Tick
  <2>1. /\ second' \in 0..MaxSecond /\ second' >= second /\ sessions' = sessions
        /\ UNCHANGED <<messages, parts, writer>> /\ Len(sessions) >= Len(sessions)
    BY <1>1, <1>2, SessionsAssumption DEF Tick
  <2>2. QED
    BY <1>1, <2>1, HandlersKeep
<1>3. ASSUME UNCHANGED <<second, messages, parts, writer>>, sessions' \in Seq(SessionRows),
             Len(sessions') \in {Len(sessions), Len(sessions) + 1}, Len(sessions') <= MaxSessions
      PROVE  SessInv'
  <2>1. second' \in 0..MaxSecond /\ second' >= second /\ Len(sessions') >= Len(sessions)
    BY <1>1, <1>3
  <2>2. QED
    BY <1>1, <1>3, <2>1, HandlersKeep
<1>4. CASE CreateSession
  <2> DEFINE record == [updated |-> second, archived |-> FALSE]
  <2>1. sessions' = Append(sessions, record) /\ record \in SessionRows /\ Len(sessions) < MaxSessions
    BY <1>1, <1>4 DEF CreateSession, NewSession, SessionRows
  <2> HIDE DEF record
  <2>2. /\ sessions' \in Seq(SessionRows) /\ Len(sessions') = Len(sessions) + 1
        /\ Len(sessions') <= MaxSessions
    BY <1>1, <2>1, SessionsAssumption
  <2>3. QED
    BY <1>3, <1>4, <2>2 DEF CreateSession
<1>5. ASSUME NEW s \in DOMAIN sessions, ArchiveSession(s) PROVE SessInv'
  <2> DEFINE record == [updated |-> second, archived |-> TRUE]
  <2>1. sessions' = [sessions EXCEPT ![s] = record] /\ record \in SessionRows
    BY <1>1, <1>5 DEF ArchiveSession, SessionRows
  <2> HIDE DEF record
  <2>2. sessions' \in Seq(SessionRows) /\ Len(sessions') = Len(sessions)
    BY <1>1, <2>1
  <2>3. QED
    BY <1>1, <1>3, <1>5, <2>2 DEF ArchiveSession
<1>6. ASSUME NEW r \in Writers, AdmitOnServer(r) \/ AdmitResume(r) \/ AdmitContinue(r) \/ AdmitNew(r)
      PROVE  SessInv'
  <2>1. \E s \in 0..Len(sessions) : Admit(r, s)
    BY <1>1, <1>6 DEF AdmitOnServer, AdmitResume, AdmitContinue, AdmitNew, LatestSession
  <2>2. QED
    BY <2>1, AdmitKeeps
<1>7. ASSUME NEW r \in Writers,
             EnsureSession(r) \/ (\E todo \in BOOLEAN : Stamp(r, todo)) \/ InsertMessage(r)
               \/ TouchSession(r) \/ AppendPart(r) \/ WriteFails(r)
      PROVE  SessInv'
  BY <1>7, EnsureKeeps, StampKeeps, InsertKeeps, TouchKeeps, PartKeeps, FailKeeps
<1>8. CASE UNCHANGED sessVars
  BY <1>1, <1>3, <1>8 DEF sessVars
<1>9. QED
  BY <1>2, <1>4, <1>5, <1>6, <1>7, <1>8 DEF SessNext

LEMMA AlwaysSessInv == SessSpec => []SessInv
BY SessInvInit, SessInvStep, PTL DEF SessSpec

\* Whatever runs share a session, and within however few seconds they write,
\* GetMessages returns the messages of each in the order it wrote them
\* (AppendMessage, the ORDER BY of GetMessages).
THEOREM RunsInOrder == SessSpec => []EachRunInOrder
<1>1. SessInv => EachRunInOrder
  <2> SUFFICES ASSUME SessInv, NEW s \in DOMAIN sessions, NEW i \in Thread(s), NEW j \in Thread(s),
                      messages[i].by = messages[j].by, i # j
               PROVE  messages[i].n < messages[j].n <=> Before(i, j)
    BY DEF EachRunInOrder
  <2>1. messages \in Seq(Rows) /\ i \in 1..Len(messages) /\ j \in 1..Len(messages)
    BY DEF SessInv, SessTypes, Thread
  <2>2. messages[i] \in Rows /\ messages[j] \in Rows
    BY <2>1
  <2>3. messages[i].n \in Nat /\ messages[j].n \in Nat /\ messages[i].at \in Nat /\ messages[j].at \in Nat
    <3>1. /\ messages[i].n \in 1..MaxWrites /\ messages[j].n \in 1..MaxWrites
          /\ messages[i].at \in 0..MaxSecond /\ messages[j].at \in 0..MaxSecond
      BY <2>2 DEF Rows
    <3>2. QED
      BY <3>1, SessionsAssumption
  <2>4. /\ i < j => messages[i].n < messages[j].n /\ messages[i].at <= messages[j].at
        /\ j < i => messages[j].n < messages[i].n /\ messages[j].at <= messages[i].at
    BY <2>1 DEF SessInv, InOrder
  <2>5. i < j \/ j < i
    BY <2>1
  <2>6. QED
    BY <2>1, <2>3, <2>4, <2>5 DEF Before
<1>2. QED
  BY <1>1, AlwaysSessInv, PTL

\* A list that TodoWrite has reported as stored is in the thread of its session,
\* with its part, whatever other statements failed (todo.go, AppendMessage,
\* AppendPart).
THEOREM TodosAreStored == SessSpec => []ReportedTodosAreStored
<1>1. SessInv => ReportedTodosAreStored
  BY DEF SessInv, SessTypes, RowsKept, ReportedTodosAreStored, Thread
<1>2. QED
  BY <1>1, AlwaysSessInv, PTL

\* The types of the rows of both tables: every message is of a session that
\* exists, every part of a message that exists.
THEOREM SessTypeCorrect == SessSpec => []SessTypeOK
<1>1. SessInv => SessTypeOK
  <2> SUFFICES ASSUME SessInv PROVE SessTypeOK
    OBVIOUS
  <2> DEFINE Typed == [session : DOMAIN sessions, by : Writers, n : 1..MaxWrites, at : 0..MaxSecond]
  <2>1. /\ messages \in Seq(Rows) /\ sessions \in Seq(SessionRows)
        /\ \A i \in 1..Len(messages) : messages[i].session \in 1..Len(sessions)
    BY DEF SessInv, SessTypes
  <2>2. ASSUME NEW i \in 1..Len(messages) PROVE messages[i] \in Typed
    <3>1. messages[i] \in Rows /\ messages[i].session \in DOMAIN sessions
      BY <2>1
    <3>2. QED
      BY <3>1 DEF Rows
  <2> HIDE DEF Typed
  <2>3. messages \in Seq(Typed)
    BY <2>1, <2>2
  <2>4. \A r \in Writers : /\ writer[r].at \in Steps /\ writer[r].session \in 0..MaxSessions
                           /\ writer[r].reported \subseteq DOMAIN messages
    <3>1. \A r \in Writers : writer[r] \in Records
      BY DEF SessInv, SessTypes
    <3>2. \A r \in Writers : writer[r].reported \subseteq 1..Len(messages)
      BY DEF SessInv, RowsKept
    <3>3. QED
      BY <2>1, <3>1, <3>2 DEF Records
  <2>5. QED
    BY <2>1, <2>3, <2>4 DEF SessInv, SessTypes, SessTypeOK, SessionRows, Typed
<1>2. QED
  BY <1>1, AlwaysSessInv, PTL

-----------------------------------------------------------------------------
(* The index of a memory directory.                                         *)

Lines == Seq(Nat)

\* The lengths of the lines, added up.
Adding(lines, m, h) ==
  h = [n \in 0..m |-> IF n = 0 THEN 0 ELSE h[n - 1] + lines[n]]

LEMMA AddingExist ==
  ASSUME NEW lines, NEW m \in Nat
  PROVE  \E h : Adding(lines, m, h)
<1> DEFINE S == {k \in Nat : \E h : Adding(lines, k, h)}
<1>1. 0 \in S
  <2>1. Adding(lines, 0, [n \in 0..0 |-> 0])
    BY DEF Adding
  <2>2. QED
    BY <2>1
<1>2. ASSUME NEW k \in Nat, k \in S PROVE k + 1 \in S
  <2>1. PICK h : Adding(lines, k, h)
    BY <1>2
  <2> DEFINE g == [n \in 0..k + 1 |-> IF n = k + 1 THEN h[k] + lines[n] ELSE h[n]]
  <2>2. ASSUME NEW n \in 0..k + 1
        PROVE  g[n] = IF n = 0 THEN 0 ELSE g[n - 1] + lines[n]
    <3>1. CASE n = k + 1
      <4>1. n # 0 /\ n - 1 = k /\ k \in 0..k + 1 /\ k # k + 1
        BY <3>1
      <4>2. g[n - 1] = h[k]
        BY <4>1
      <4>3. QED
        BY <3>1, <4>1, <4>2
    <3>2. CASE n # k + 1
      <4>1. n \in 0..k /\ (n # 0 => n - 1 \in 0..k + 1 /\ n - 1 # k + 1)
        BY <3>2
      <4>2. g[n] = h[n] /\ (n # 0 => g[n - 1] = h[n - 1])
        BY <3>2, <4>1
      <4>3. h[n] = IF n = 0 THEN 0 ELSE h[n - 1] + lines[n]
        BY <2>1, <4>1 DEF Adding
      <4>4. QED
        BY <4>2, <4>3
    <3>3. QED
      BY <3>1, <3>2
  <2> HIDE DEF g
  <2>3. g = [n \in 0..k + 1 |-> g[n]]
    BY DEF g
  <2>4. Adding(lines, k + 1, g)
    BY <2>2, <2>3 DEF Adding
  <2>5. QED
    BY <2>4
<1> HIDE DEF S
<1>3. Nat \subseteq S
  BY <1>1, <1>2, Induction
<1>4. QED
  BY <1>3 DEF S

LEMMA BytesType == ASSUME NEW lines \in Lines PROVE Bytes(lines) \in Nat
<1> DEFINE h == CHOOSE fn : Adding(lines, Len(lines), fn)
<1>1. Len(lines) \in Nat /\ \A n \in 1..Len(lines) : lines[n] \in Nat
  BY DEF Lines
<1>2. Adding(lines, Len(lines), h)
  BY <1>1, AddingExist
<1>3. Bytes(lines) = h[Len(lines)]
  BY DEF Bytes, Adding
<1> HIDE DEF h
<1> DEFINE S == {n \in Nat : n \in 0..Len(lines) => h[n] \in Nat}
<1>4. 0 \in S
  BY <1>1, <1>2 DEF Adding
<1>5. ASSUME NEW n \in Nat, n \in S PROVE n + 1 \in S
  <2> SUFFICES ASSUME n + 1 \in 0..Len(lines) PROVE h[n + 1] \in Nat
    OBVIOUS
  <2>1. n + 1 # 0 /\ (n + 1) - 1 = n /\ n \in 0..Len(lines) /\ n + 1 \in 1..Len(lines)
    BY <1>1
  <2>2. h[n + 1] = IF n + 1 = 0 THEN 0 ELSE h[(n + 1) - 1] + lines[n + 1]
    BY <1>2 DEF Adding
  <2>3. h[n] \in Nat /\ lines[n + 1] \in Nat
    BY <1>1, <1>5, <2>1
  <2>4. QED
    BY <2>1, <2>2, <2>3
<1> HIDE DEF S
<1>6. Nat \subseteq S
  BY <1>4, <1>5, Induction
<1>7. QED
  BY <1>1, <1>3, <1>6 DEF S

LEMMA JoinedType == ASSUME NEW lines \in Lines PROVE Joined(lines) \in Nat
<1>1. Bytes(lines) \in Nat /\ Len(lines) \in Nat /\ (lines # <<>> => Len(lines) > 0)
  BY BytesType DEF Lines
<1>2. QED
  BY <1>1 DEF Joined

\* One line more is no fewer bytes.
LEMMA JoinedGrows ==
  ASSUME NEW lines \in Lines, NEW n \in Nat, n >= 1, n + 1 <= Len(lines)
  PROVE  Joined(SubSeq(lines, 1, n)) <= Joined(SubSeq(lines, 1, n + 1))
<1> DEFINE short == SubSeq(lines, 1, n)
           long == SubSeq(lines, 1, n + 1)
           g == CHOOSE fn : Adding(short, Len(short), fn)
           h == CHOOSE fn : Adding(long, Len(long), fn)
<1>1. /\ short \in Lines /\ Len(short) = n /\ long \in Lines /\ Len(long) = n + 1
      /\ long[n + 1] = lines[n + 1] /\ lines[n + 1] \in Nat
      /\ \A i \in 1..n : short[i] = lines[i] /\ long[i] = lines[i]
  BY DEF Lines
<1>2. Bytes(short) = g[n] /\ Bytes(long) = h[n + 1]
  BY <1>1 DEF Bytes, Adding
<1> HIDE DEF short, long
<1>3. Adding(short, n, g) /\ Adding(long, n + 1, h)
  <2>1. Len(short) \in Nat /\ Len(long) \in Nat
    BY <1>1
  <2>2. Adding(short, Len(short), g)
    BY <2>1, AddingExist
  <2>3. Adding(long, Len(long), h)
    BY <2>1, AddingExist
  <2>4. QED
    BY <1>1, <2>2, <2>3
<1> HIDE DEF g, h
<1> DEFINE S == {k \in Nat : k \in 0..n => g[k] = h[k]}
<1>4. 0 \in S
  <2>1. 0 \in 0..n /\ 0 \in 0..n + 1
    OBVIOUS
  <2>2. QED
    BY <1>3, <2>1 DEF Adding
<1>5. ASSUME NEW k \in Nat, k \in S PROVE k + 1 \in S
  <2> SUFFICES ASSUME k + 1 \in 0..n PROVE g[k + 1] = h[k + 1]
    OBVIOUS
  <2>1. k + 1 # 0 /\ (k + 1) - 1 = k /\ k \in 0..n /\ k + 1 \in 1..n /\ k + 1 \in 0..n + 1
    OBVIOUS
  <2>2. g[k + 1] = g[k] + short[k + 1] /\ h[k + 1] = h[k] + long[k + 1]
    BY <1>3, <2>1 DEF Adding
  <2>3. g[k] = h[k] /\ short[k + 1] = long[k + 1]
    BY <1>1, <1>5, <2>1
  <2>4. QED
    BY <2>2, <2>3
<1> HIDE DEF S
<1>6. Nat \subseteq S
  BY <1>4, <1>5, Induction
<1>7. g[n] = h[n]
  BY <1>6 DEF S
<1>8. h[n + 1] = h[n] + long[n + 1]
  <2>1. n + 1 # 0 /\ (n + 1) - 1 = n /\ n + 1 \in 0..n + 1
    OBVIOUS
  <2>2. QED
    BY <1>3, <2>1 DEF Adding
<1>9. Bytes(short) \in Nat /\ Bytes(long) = Bytes(short) + long[n + 1]
  BY <1>1, <1>2, <1>7, <1>8, BytesType
<1>10. short # <<>> /\ long # <<>>
  BY <1>1
<1>11. QED
  BY <1>1, <1>9, <1>10 DEF Joined, short, long

\* Dropping the last line until the bytes fit.
TooLong(lines, n) == Joined(SubSeq(lines, 1, n)) > MaxBytes

Dropping(lines, m, h) ==
  h = [n \in 0..m |-> IF TooLong(lines, n) /\ n > 0 THEN h[n - 1] ELSE n]

LEMMA DroppingExist ==
  ASSUME NEW lines, NEW m \in Nat
  PROVE  \E h : Dropping(lines, m, h)
<1> DEFINE S == {k \in Nat : \E h : Dropping(lines, k, h)}
<1>1. 0 \in S
  <2>1. Dropping(lines, 0, [n \in 0..0 |-> 0])
    BY DEF Dropping
  <2>2. QED
    BY <2>1
<1>2. ASSUME NEW k \in Nat, k \in S PROVE k + 1 \in S
  <2>1. PICK h : Dropping(lines, k, h)
    BY <1>2
  <2> DEFINE g == [n \in 0..k + 1 |-> IF n = k + 1 THEN IF TooLong(lines, n) THEN h[k] ELSE n ELSE h[n]]
  <2>2. ASSUME NEW n \in 0..k + 1
        PROVE  g[n] = IF TooLong(lines, n) /\ n > 0 THEN g[n - 1] ELSE n
    <3>1. CASE n = k + 1
      <4>1. n > 0 /\ n - 1 = k /\ k \in 0..k + 1 /\ k # k + 1
        BY <3>1
      <4>2. g[n - 1] = h[k]
        BY <4>1
      <4>3. QED
        BY <3>1, <4>1, <4>2
    <3>2. CASE n # k + 1
      <4>1. n \in 0..k /\ (n > 0 => n - 1 \in 0..k + 1 /\ n - 1 # k + 1)
        BY <3>2
      <4>2. g[n] = h[n] /\ (n > 0 => g[n - 1] = h[n - 1])
        BY <3>2, <4>1
      <4>3. h[n] = IF TooLong(lines, n) /\ n > 0 THEN h[n - 1] ELSE n
        BY <2>1, <4>1 DEF Dropping
      <4>4. QED
        BY <4>2, <4>3
    <3>3. QED
      BY <3>1, <3>2
  <2> HIDE DEF g
  <2>3. g = [n \in 0..k + 1 |-> g[n]]
    BY DEF g
  <2>4. Dropping(lines, k + 1, g)
    BY <2>2, <2>3 DEF Dropping
  <2>5. QED
    BY <2>4
<1> HIDE DEF S
<1>3. Nat \subseteq S
  BY <1>1, <1>2, Induction
<1>4. QED
  BY <1>3 DEF S

\* What is left is within the bytes, and one line more would not be.
LEMMA DroppedFits ==
  ASSUME NEW lines \in Lines, NEW m \in Nat, m <= Len(lines), NEW h, Dropping(lines, m, h)
  PROVE  /\ h[m] \in 0..m
         /\ h[m] > 0 => Joined(SubSeq(lines, 1, h[m])) <= MaxBytes
         /\ h[m] < m => Joined(SubSeq(lines, 1, h[m] + 1)) > MaxBytes
<1> DEFINE Right(n) == /\ h[n] \in 0..n
                       /\ h[n] > 0 => ~TooLong(lines, h[n])
                       /\ h[n] < n => TooLong(lines, h[n] + 1)
           S == {n \in Nat : n \in 0..m => Right(n)}
<1>1. \A n \in 0..m : h[n] = IF TooLong(lines, n) /\ n > 0 THEN h[n - 1] ELSE n
  BY DEF Dropping
<1>2. 0 \in S
  BY <1>1
<1>3. ASSUME NEW n \in Nat, n \in S PROVE n + 1 \in S
  <2> SUFFICES ASSUME n + 1 \in 0..m PROVE Right(n + 1)
    OBVIOUS
  <2>1. n + 1 > 0 /\ (n + 1) - 1 = n /\ n \in 0..m
    OBVIOUS
  <2>2. h[n + 1] = IF TooLong(lines, n + 1) THEN h[n] ELSE n + 1
    BY <1>1, <2>1
  <2>3. Right(n)
    BY <1>3, <2>1
  <2>4. CASE TooLong(lines, n + 1)
    <3>1. h[n + 1] = h[n] /\ h[n] \in 0..n + 1 /\ (h[n] < n + 1 => h[n] < n \/ h[n] = n)
      BY <2>2, <2>3, <2>4
    <3>2. QED
      BY <2>3, <2>4, <3>1
  <2>5. CASE ~TooLong(lines, n + 1)
    BY <2>2, <2>5
  <2>6. QED
    BY <2>4, <2>5
<1> HIDE DEF S
<1>4. Nat \subseteq S
  BY <1>2, <1>3, Induction
<1>5. Right(m)
  BY <1>4 DEF S
<1>6. \A n \in 0..Len(lines) : SubSeq(lines, 1, n) \in Lines
  BY DEF Lines
<1>7. h[m] \in 0..Len(lines)
  BY <1>5 DEF Lines
<1>8. Joined(SubSeq(lines, 1, h[m])) \in Nat /\ MaxBytes \in Nat
  BY <1>6, <1>7, JoinedType, MemoryAssumption
<1>9. QED
  BY <1>5, <1>8 DEF TooLong

\* Clip: a beginning of the lines, within both limits, and as long as may be.
LEMMA ClipIs ==
  ASSUME NEW lines \in Lines
  PROVE  \E n \in 0..Len(lines) :
           /\ Clip(lines) = SubSeq(lines, 1, n) /\ Len(Clip(lines)) = n
           /\ n <= MaxLines
           /\ n > 0 => Joined(SubSeq(lines, 1, n)) <= MaxBytes
           /\ n < Len(lines) => n = MaxLines \/ Joined(SubSeq(lines, 1, n + 1)) > MaxBytes
<1> DEFINE cut == IF Len(lines) > MaxLines THEN MaxLines ELSE Len(lines)
           h == CHOOSE fn : Dropping(lines, cut, fn)
           n == h[cut]
<1>1. /\ Len(lines) \in Nat /\ MaxLines \in Nat /\ cut \in Nat /\ cut <= Len(lines) /\ cut <= MaxLines
      /\ cut = MaxLines \/ cut = Len(lines)
  BY MemoryAssumption DEF Lines
<1>2. Clip(lines) = SubSeq(lines, 1, n)
  BY DEF Clip, Dropping, TooLong
<1> HIDE DEF cut
<1>3. Dropping(lines, cut, h)
  BY <1>1, DroppingExist
<1> HIDE DEF h
<1>4. /\ n \in 0..cut
      /\ n > 0 => Joined(SubSeq(lines, 1, n)) <= MaxBytes
      /\ n < cut => Joined(SubSeq(lines, 1, n + 1)) > MaxBytes
  BY <1>1, <1>3, DroppedFits
<1> HIDE DEF n
<1>5. n \in 0..Len(lines) /\ n <= MaxLines /\ (n < Len(lines) => n = MaxLines \/ n < cut)
  BY <1>1, <1>4
<1>6. Len(SubSeq(lines, 1, n)) = n
  BY <1>5 DEF Lines
<1>7. QED
  BY <1>2, <1>4, <1>5, <1>6

\* How many names of S come up to t.
Rank(S, t) == Cardinality({u \in S : u <= t})

LEMMA RankRises ==
  ASSUME NEW S \in SUBSET Nat, IsFiniteSet(S), NEW t \in S, NEW u \in S
  PROVE  /\ Rank(S, t) \in 1..Cardinality(S)
         /\ t < u => Rank(S, t) < Rank(S, u)
<1> DEFINE UpTo(v) == {w \in S : w <= v}
<1>1. ASSUME NEW v \in S
      PROVE  /\ IsFiniteSet(UpTo(v)) /\ Cardinality(UpTo(v)) \in Nat
             /\ Cardinality(UpTo(v)) <= Cardinality(S) /\ v \in UpTo(v)
  <2>1. UpTo(v) \in SUBSET S
    OBVIOUS
  <2>2. IsFiniteSet(UpTo(v)) /\ Cardinality(UpTo(v)) <= Cardinality(S)
    BY <2>1, FS_Subset
  <2>3. QED
    BY <2>2, FS_CardinalityType
<1>2. Cardinality(UpTo(t)) # 0
  BY <1>1, FS_EmptySet
<1>3. Cardinality(S) \in Nat
  BY FS_CardinalityType
<1>4. Rank(S, t) \in 1..Cardinality(S)
  BY <1>1, <1>2, <1>3 DEF Rank
<1>5. ASSUME t < u PROVE Rank(S, t) < Rank(S, u)
  <2>1. UpTo(t) \in SUBSET UpTo(u) /\ u \notin UpTo(t) /\ u \in UpTo(u)
    <3>1. \A w \in S : w \in Nat
      OBVIOUS
    <3>2. \A w \in S : w <= t => w <= u
      BY <1>5, <3>1
    <3>3. ~(u <= t)
      BY <1>5, <3>1
    <3>4. QED
      BY <1>1, <3>2, <3>3
  <2>2. /\ Cardinality(UpTo(t)) <= Cardinality(UpTo(u))
        /\ Cardinality(UpTo(u)) = Cardinality(UpTo(t)) => UpTo(u) = UpTo(t)
    BY <1>1, <2>1, FS_Subset
  <2>3. Cardinality(UpTo(t)) \in Nat /\ Cardinality(UpTo(u)) \in Nat
    BY <1>1
  <2>4. QED
    BY <2>1, <2>2, <2>3 DEF Rank
<1>6. QED
  BY <1>4, <1>5

\* There is a name of every rank.
LEMMA EveryRank ==
  ASSUME NEW S \in SUBSET Nat, IsFiniteSet(S), NEW i \in 1..Cardinality(S)
  PROVE  \E t \in S : Rank(S, t) = i
<1> DEFINE T == 1..Cardinality(S)
           rank == [t \in S |-> Rank(S, t)]
<1>1. Cardinality(S) \in Nat
  BY FS_CardinalityType
<1>2. IsFiniteSet(T) /\ Cardinality(T) = Cardinality(S)
  BY <1>1, FS_Interval
<1>3. \A t, u \in S : rank[t] = rank[u] => t = u
  <2>1. ASSUME NEW t \in S, NEW u \in S, rank[t] = rank[u] PROVE t = u
    <3>1. Rank(S, t) = Rank(S, u) /\ Rank(S, t) \in Nat /\ t \in Nat /\ u \in Nat
      BY <1>1, <2>1, RankRises
    <3>2. ~(t < u) /\ ~(u < t)
      BY <3>1, RankRises
    <3>3. QED
      BY <3>1, <3>2
  <2>2. QED
    BY <2>1
<1>4. rank \in [S -> T]
  BY RankRises
<1>5. rank \in Injection(S, T)
  BY <1>3, <1>4 DEF Injection, IsInjective
<1> HIDE DEF T, rank
<1>6. rank \in Surjection(S, T)
  BY <1>2, <1>5, FS_Injection
<1>7. \A j \in T : \E t \in S : rank[t] = j
  BY <1>6 DEF Surjection
<1>8. QED
  BY <1>7 DEF T, rank

\* The names of a finite set in their order: all, each once.
LEMMA AlphabeticalIs ==
  ASSUME NEW S \in SUBSET Nat, IsFiniteSet(S)
  PROVE  /\ Alphabetical(S) \in Seq(S)
         /\ \A i, j \in 1..Len(Alphabetical(S)) : Alphabetical(S)[i] = Alphabetical(S)[j] => i = j
         /\ \A t \in S : \E i \in 1..Len(Alphabetical(S)) : Alphabetical(S)[i] = t
<1> DEFINE names == Alphabetical(S)
           n == Cardinality(S)
<1>1. n \in Nat
  BY FS_CardinalityType
<1>2. ASSUME NEW i \in 1..n PROVE names[i] \in S /\ Rank(S, names[i]) = i
  <2>1. names[i] = CHOOSE t \in S : Rank(S, t) = i
    BY DEF Alphabetical, Rank
  <2>2. \E t \in S : Rank(S, t) = i
    BY EveryRank
  <2> HIDE DEF names
  <2>3. QED
    BY <2>1, <2>2
<1>3. names = [i \in 1..n |-> names[i]]
  BY DEF Alphabetical
<1> HIDE DEF names, n
<1>4. names \in Seq(S) /\ Len(names) = n
  BY <1>1, <1>2, <1>3, FunctionIsSequence
<1>5. ASSUME NEW t \in S PROVE \E i \in 1..n : names[i] = t
  <2>1. Rank(S, t) \in 1..n
    BY RankRises DEF n
  <2>2. names[Rank(S, t)] \in S /\ Rank(S, names[Rank(S, t)]) = Rank(S, t)
    BY <1>2, <2>1
  <2> DEFINE other == names[Rank(S, t)]
  <2>3. other \in S /\ Rank(S, other) = Rank(S, t) /\ other \in Nat /\ t \in Nat
    BY <2>2
  <2>4. Rank(S, other) \in Int
    BY <1>1, <2>1, <2>3
  <2> HIDE DEF other
  <2>5. ~(t < other) /\ ~(other < t)
    BY <2>3, <2>4, RankRises
  <2>6. QED
    BY <2>1, <2>3, <2>5 DEF other
<1>6. \A i, j \in 1..n : names[i] = names[j] => i = j
  BY <1>2
<1>7. QED
  BY <1>4, <1>5, <1>6 DEF names

LEMMA PutTogether ==
  ASSUME NEW T, NEW s \in Seq(T), NEW t \in Seq(T)
  PROVE  /\ s \o t \in Seq(T) /\ Len(s \o t) = Len(s) + Len(t)
         /\ \A i \in 1..Len(s) : (s \o t)[i] = s[i]
         /\ \A i \in 1..Len(t) : (s \o t)[Len(s) + i] = t[i]
OBVIOUS

LEMMA LengthsAdd ==
  ASSUME NEW s \in Seq(Nat), NEW t \in Seq(Nat) PROVE Len(s \o t) = Len(s) + Len(t)
OBVIOUS

\* A beginning of the names, as the index lists it.
LEMMA KeptIs ==
  ASSUME NEW S \in SUBSET Topics
  PROVE  /\ IndexLines(Alphabetical(S)) \in Lines
         /\ Kept(Alphabetical(S)) \in Seq(S)
         /\ Len(Kept(Alphabetical(S))) = Cardinality(ToSet(Kept(Alphabetical(S))))
         /\ Clip(IndexLines(Alphabetical(S))) = IndexLines(Alphabetical(S))
              => ToSet(Kept(Alphabetical(S))) = S
<1> DEFINE names == Alphabetical(S)
           all == IndexLines(names)
           rest == Len(Clip(all)) - Len(Header)
           m == IF rest > Len(names) THEN Len(names) ELSE rest
           kept == Kept(names)
<1>1. S \in SUBSET Nat /\ IsFiniteSet(S)
  BY MemoryAssumption, FS_Subset
<1>2. /\ names \in Seq(S) /\ Len(names) \in Nat
      /\ \A i, j \in 1..Len(names) : names[i] = names[j] => i = j
      /\ \A t \in S : \E i \in 1..Len(names) : names[i] = t
  BY <1>1, AlphabeticalIs
<1>3. kept = SubSeq(names, 1, m)
  BY DEF Kept
<1> HIDE DEF names
<1>4. all \in Lines /\ Len(all) = Len(Header) + Len(names) + 1
  <2> DEFINE sizes == [i \in DOMAIN names |-> LineBytes[names[i]]]
  <2>1. \A i \in 1..Len(names) : names[i] \in Topics
    BY <1>2
  <2>2. LineBytes \in [Topics -> Nat] /\ Header \in Seq(Nat)
    BY MemoryAssumption
  <2>3. sizes = [i \in 1..Len(names) |-> sizes[i]] /\ \A i \in 1..Len(names) : sizes[i] \in Nat
    BY <1>2, <2>1, <2>2
  <2>4. all = Header \o sizes \o <<0>>
    BY DEF IndexLines
  <2> HIDE DEF sizes
  <2>5. sizes \in Seq(Nat) /\ Len(sizes) = Len(names)
    BY <1>2, <2>3, FunctionIsSequence
  <2>6. QED
    <3>1. /\ Header \o sizes \in Seq(Nat) /\ Len(Header \o sizes) = Len(Header) + Len(names)
          /\ <<0>> \in Seq(Nat) /\ Len(<<0>>) = 1
      <4>1. Len(Header \o sizes) = Len(Header) + Len(sizes)
        BY <2>2, <2>5, LengthsAdd, Zenon
      <4>2. Header \o sizes \in Seq(Nat)
        BY <2>2, <2>5
      <4>3. <<0>> \in Seq(Nat) /\ Len(<<0>>) = 1
        OBVIOUS
      <4>4. QED
        BY <2>5, <4>1, <4>2, <4>3
    <3>2. (Header \o sizes) \o <<0>> \in Seq(Nat)
      BY <3>1
    <3>3. Len((Header \o sizes) \o <<0>>) = Len(Header \o sizes) + 1
      BY <3>1
    <3>4. QED
      BY <2>4, <3>1, <3>2, <3>3 DEF Lines
<1>5. PICK n \in 0..Len(all) : Len(Clip(all)) = n
  BY <1>4, ClipIs
<1> HIDE DEF all, kept
<1>6. rest \in Int /\ Len(Header) \in Nat
  BY <1>4, <1>5, MemoryAssumption DEF Lines
<1> HIDE DEF rest
<1>7. m \in Int /\ m <= Len(names)
  BY <1>2, <1>6
<1> HIDE DEF m
<1>8. kept \in Seq(S) /\ Len(kept) <= Len(names) /\ \A i \in 1..Len(kept) : kept[i] = names[i]
  <2>1. CASE m >= 1
    <3>1. m \in Nat /\ m <= Len(names) /\ names \in Seq(S) /\ Len(names) \in Nat
      BY <1>2, <1>7, <2>1
    <3>2. /\ SubSeq(names, 1, m) \in Seq(S) /\ Len(SubSeq(names, 1, m)) = m
          /\ \A i \in 1..m : SubSeq(names, 1, m)[i] = names[i]
      BY <3>1
    <3>3. QED
      BY <1>3, <3>1, <3>2
  <2>2. CASE m < 1
    <3>1. kept = <<>>
      BY <1>2, <1>3, <1>7, <2>2
    <3>2. QED
      BY <1>2, <3>1
  <2>3. QED
    BY <1>7, <2>1, <2>2
<1>9. Len(kept) = Cardinality(ToSet(kept))
  <2> DEFINE entry == [i \in 1..Len(kept) |-> kept[i]]
             T == ToSet(kept)
  <2>1. T = {kept[i] : i \in 1..Len(kept)} /\ Len(kept) \in Nat
    BY <1>8 DEF ToSet
  <2>2. \A i, j \in 1..Len(kept) : kept[i] = kept[j] => i = j
    <3>1. 1..Len(kept) \subseteq 1..Len(names)
      BY <1>2, <1>8, <2>1
    <3>2. QED
      BY <1>2, <1>8, <3>1
  <2> HIDE DEF T
  <2>3. entry \in [1..Len(kept) -> T] /\ \A t \in T : \E i \in 1..Len(kept) : entry[i] = t
    BY <2>1
  <2>4. \A i, j \in 1..Len(kept) : entry[i] = entry[j] => i = j
    BY <2>2
  <2> HIDE DEF entry
  <2>5. entry \in Injection(1..Len(kept), T)
    BY <2>3, <2>4 DEF Injection, IsInjective
  <2>6. entry \in Surjection(1..Len(kept), T)
    BY <2>3 DEF Surjection
  <2>7. entry \in Bijection(1..Len(kept), T)
    BY <2>5, <2>6 DEF Bijection
  <2>8. ExistsBijection(1..Len(kept), T)
    BY <2>7 DEF ExistsBijection
  <2>9. QED
    BY <2>1, <2>8, FS_CountingElements DEF T
<1>10. ASSUME Clip(all) = all PROVE ToSet(kept) = S
  <2>1. m = Len(names)
    BY <1>2, <1>4, <1>6, <1>10 DEF m, rest
  <2>2. kept = names
    BY <1>2, <1>3, <2>1
  <2>3. QED
    BY <1>2, <2>2 DEF ToSet
<1>11. QED
  BY <1>4, <1>8, <1>9, <1>10 DEF names, all, kept

\* The lines of an index that lists these names, and that it fits.
Text(names) == Header \o [i \in DOMAIN names |-> LineBytes[names[i]]]

Fitting(names) ==
  names # <<>> => Len(Text(names)) <= MaxLines /\ Joined(Text(names)) <= MaxBytes

LEMMA TextIs ==
  ASSUME NEW names \in Seq(Topics)
  PROVE  /\ Text(names) \in Lines /\ Len(Text(names)) = Len(Header) + Len(names)
         /\ \A i \in 1..Len(Header) : Text(names)[i] = Header[i]
         /\ \A i \in 1..Len(names) : Text(names)[Len(Header) + i] = LineBytes[names[i]]
<1> DEFINE sizes == [i \in DOMAIN names |-> LineBytes[names[i]]]
<1>1. LineBytes \in [Topics -> Nat] /\ Header \in Seq(Nat)
  BY MemoryAssumption
<1>2. /\ sizes = [i \in 1..Len(names) |-> sizes[i]] /\ \A i \in 1..Len(names) : sizes[i] \in Nat
      /\ \A i \in 1..Len(names) : sizes[i] = LineBytes[names[i]]
      /\ Len(names) \in Nat
  BY <1>1
<1>3. Text(names) = Header \o sizes
  BY DEF Text
<1> HIDE DEF sizes
<1>4. sizes \in Seq(Nat) /\ Len(sizes) = Len(names)
  BY <1>2, FunctionIsSequence
<1>5. /\ Header \o sizes \in Seq(Nat) /\ Len(Header \o sizes) = Len(Header) + Len(sizes)
      /\ \A i \in 1..Len(Header) : (Header \o sizes)[i] = Header[i]
      /\ \A i \in 1..Len(sizes) : (Header \o sizes)[Len(Header) + i] = sizes[i]
  <2>1. Header \in Seq(Nat) /\ sizes \in Seq(Nat)
    BY <1>1, <1>4
  <2>2. QED
    BY <2>1, PutTogether
<1>6. QED
  BY <1>2, <1>3, <1>4, <1>5 DEF Lines

\* What is kept of the names fits.
LEMMA KeptFits == ASSUME NEW S \in SUBSET Topics PROVE Fitting(Kept(Alphabetical(S)))
<1> DEFINE names == Alphabetical(S)
           all == IndexLines(names)
           rest == Len(Clip(all)) - Len(Header)
           m == IF rest > Len(names) THEN Len(names) ELSE rest
           kept == Kept(names)
<1>1. names \in Seq(S) /\ Len(names) \in Nat
  <2>1. S \in SUBSET Nat /\ IsFiniteSet(S)
    BY MemoryAssumption, FS_Subset
  <2>2. QED
    BY <2>1, AlphabeticalIs
<1>2. all \in Lines /\ kept \in Seq(S)
  BY KeptIs
<1>3. kept = SubSeq(names, 1, m)
  BY DEF Kept
<1>4. all = Text(names) \o <<0>>
  BY DEF IndexLines, Text
<1> HIDE DEF names
<1>5. /\ names \in Seq(Topics) /\ kept \in Seq(Topics) /\ <<0>> \in Lines /\ Len(<<0>>) = 1
      /\ Len(Header) \in Nat
  <2>1. Seq(S) \subseteq Seq(Topics)
    OBVIOUS
  <2>2. Len(Header) \in Nat
    BY MemoryAssumption
  <2>3. <<0>> \in Lines /\ Len(<<0>>) = 1
    BY DEF Lines
  <2> HIDE DEF kept
  <2>4. QED
    BY <1>1, <1>2, <2>1, <2>2, <2>3
<1>6. Text(names) \in Lines /\ Len(Text(names)) = Len(Header) + Len(names)
  BY <1>5, TextIs
<1>7. /\ Len(all) = Len(Header) + Len(names) + 1
      /\ \A i \in 1..Len(Header) + Len(names) : all[i] = Text(names)[i]
  <2> DEFINE text == Text(names)
  <2>1. text \in Seq(Nat) /\ <<0>> \in Seq(Nat)
    BY <1>5, <1>6 DEF Lines
  <2> HIDE DEF text
  <2>2. \A i \in 1..Len(text) : (text \o <<0>>)[i] = text[i]
    BY <2>1, PutTogether
  <2>3. Len(text \o <<0>>) = Len(text) + 1
    BY <1>5, <2>1, PutTogether
  <2>4. QED
    BY <1>4, <1>6, <2>2, <2>3 DEF text
<1>8. PICK n \in 0..Len(all) :
         /\ Len(Clip(all)) = n /\ n <= MaxLines
         /\ n > 0 => Joined(SubSeq(all, 1, n)) <= MaxBytes
  BY <1>2, ClipIs
<1> HIDE DEF all, kept
<1> SUFFICES ASSUME kept # <<>> PROVE Len(Text(kept)) <= MaxLines /\ Joined(Text(kept)) <= MaxBytes
  BY DEF Fitting, kept, names
<1>9. /\ m \in 1..Len(names) /\ Len(all) \in Nat /\ n \in Nat
      /\ Len(Header) + m = n \/ Len(Header) + m + 1 = n
  <2>1. n \in Nat /\ rest = n - Len(Header) /\ n <= Len(Header) + Len(names) + 1
    BY <1>1, <1>5, <1>7, <1>8
  <2> HIDE DEF rest
  <2>2. m \in Int /\ m <= Len(names) /\ (m = rest \/ (m = Len(names) /\ rest = m + 1))
    <3>1. Len(names) \in Nat /\ Len(Header) \in Nat
      BY <1>1, <1>5
    <3>2. rest \in Int /\ rest <= Len(names) + 1
      BY <2>1, <3>1
    <3>3. CASE rest > Len(names)
      BY <3>1, <3>2, <3>3
    <3>4. CASE ~(rest > Len(names))
      BY <3>1, <3>2, <3>4
    <3>5. QED
      BY <3>3, <3>4
  <2> HIDE DEF m
  <2>3. m >= 1
    BY <1>1, <1>3, <2>2
  <2>4. QED
    BY <1>1, <1>5, <1>7, <2>1, <2>2, <2>3
<1> HIDE DEF m, rest
<1> DEFINE k == Len(Header) + m
<1>10. kept \in Seq(Topics) /\ Len(kept) = m /\ \A i \in 1..m : kept[i] = names[i]
  BY <1>1, <1>3, <1>5, <1>9
<1>11. /\ Text(kept) \in Lines /\ Len(Text(kept)) = k
       /\ \A i \in 1..k : Text(kept)[i] = Text(names)[i]
  <2>1. \A i \in 1..Len(Header) : Text(kept)[i] = Header[i] /\ Text(names)[i] = Header[i]
    BY <1>5, TextIs
  <2>2. ASSUME NEW i \in 1..m
        PROVE  Text(kept)[Len(Header) + i] = Text(names)[Len(Header) + i]
    <3>1. i \in 1..Len(kept) /\ i \in 1..Len(names) /\ kept[i] = names[i]
      BY <1>1, <1>9, <1>10
    <3>2. Text(kept)[Len(Header) + i] = LineBytes[kept[i]]
      BY <1>5, <3>1, TextIs
    <3>3. Text(names)[Len(Header) + i] = LineBytes[names[i]]
      BY <1>5, <3>1, TextIs
    <3>4. QED
      BY <3>1, <3>2, <3>3
  <2>3. ASSUME NEW i \in 1..k PROVE Text(kept)[i] = Text(names)[i]
    <3>1. CASE i <= Len(Header)
      BY <1>5, <2>1, <3>1
    <3>2. CASE ~(i <= Len(Header))
      <4>1. i - Len(Header) \in 1..m /\ Len(Header) + (i - Len(Header)) = i
        BY <1>5, <1>9, <3>2
      <4>2. QED
        BY <2>2, <4>1
    <3>3. QED
      BY <3>1, <3>2
  <2>4. QED
    BY <1>5, <1>10, <2>3, TextIs
<1>12. k \in Nat /\ k >= 1 /\ k <= Len(Header) + Len(names) /\ k <= Len(all)
  BY <1>1, <1>5, <1>7, <1>9
<1>13. k = n \/ k + 1 = n
  BY <1>9
<1> HIDE DEF k
<1>14. Text(kept) = SubSeq(all, 1, k)
  <2>1. \A i \in 1..k : all[i] = Text(kept)[i]
    BY <1>1, <1>5, <1>7, <1>11, <1>12
  <2>2. SubSeq(all, 1, k) \in Lines /\ Len(SubSeq(all, 1, k)) = k
    BY <1>2, <1>12 DEF Lines
  <2>3. \A i \in 1..k : SubSeq(all, 1, k)[i] = all[i]
    BY <1>2, <1>12 DEF Lines
  <2>4. QED
    BY <1>11, <1>12, <2>1, <2>2, <2>3 DEF Lines
<1>15. Joined(SubSeq(all, 1, k)) <= MaxBytes
  <2>1. CASE k = n
    BY <1>8, <1>12, <2>1
  <2>2. CASE k + 1 = n
    <3>1. k + 1 <= Len(all) /\ n > 0
      BY <1>8, <1>9, <1>12, <2>2
    <3>2. Joined(SubSeq(all, 1, k)) <= Joined(SubSeq(all, 1, k + 1))
      BY <1>2, <1>12, <3>1, JoinedGrows
    <3>3. Joined(SubSeq(all, 1, k + 1)) <= MaxBytes
      BY <1>8, <2>2, <3>1
    <3>4. SubSeq(all, 1, k) \in Lines /\ SubSeq(all, 1, k + 1) \in Lines
      BY SMTT(30), <1>2, <1>12, <3>1 DEF Lines
    <3>5. Joined(SubSeq(all, 1, k)) \in Nat /\ Joined(SubSeq(all, 1, k + 1)) \in Nat /\ MaxBytes \in Nat
      BY <3>4, JoinedType, MemoryAssumption
    <3>6. QED
      BY <3>2, <3>3, <3>5
  <2>3. QED
    BY <1>13, <2>1, <2>2
<1>16. k <= MaxLines
  BY <1>8, <1>9, <1>12, <1>13, MemoryAssumption
<1>17. QED
  BY <1>11, <1>14, <1>15, <1>16

Keeper == [at : {"idle", "changed", "listed", "read", "built"}, found : SUBSET Topics, alone : BOOLEAN]

\* What a process that met no other has found, and written, is what there is.
Alone ==
  \A k \in Keepers : keeper[k].alone =>
    /\ keeper[k].at = "listed" => keeper[k].found = topics
    /\ keeper[k].at = "read" => keeper[k].found = topics \ unparsed
    /\ keeper[k].at = "built" => index = Kept(Alphabetical(topics \ unparsed))

MemInv ==
  /\ topics \subseteq Topics /\ unparsed \subseteq topics
  /\ keeper \in [Keepers -> Keeper]
  /\ Alone

LEMMA DisturbsOthers ==
  ASSUME MemInv, NEW who
  PROVE  /\ Disturbs(who) \in [Keepers -> Keeper]
         /\ \A k \in Keepers : k # who /\ Disturbs(who)[k].alone => Disturbs(who)[k].at = "idle"
<1>1. \A k \in Keepers : keeper[k] \in Keeper
  BY DEF MemInv
<1>2. ASSUME NEW k \in Keepers, NEW alone \in BOOLEAN
      PROVE  /\ [keeper[k] EXCEPT !.alone = alone] \in Keeper
             /\ [keeper[k] EXCEPT !.alone = alone].alone = alone
             /\ [keeper[k] EXCEPT !.alone = alone].at = keeper[k].at
  BY <1>1 DEF Keeper
<1>3. ASSUME NEW k \in Keepers
      PROVE  /\ Disturbs(who)[k] \in Keeper
             /\ k # who /\ Disturbs(who)[k].alone => Disturbs(who)[k].at = "idle"
  <2> DEFINE alone == keeper[k].alone /\ (k = who \/ keeper[k].at = "idle")
  <2>1. Disturbs(who)[k] = [keeper[k] EXCEPT !.alone = alone]
    BY DEF Disturbs
  <2>2. alone \in BOOLEAN
    OBVIOUS
  <2>3. k # who /\ alone => keeper[k].at = "idle"
    OBVIOUS
  <2> HIDE DEF alone
  <2>4. QED
    BY <1>2, <2>1, <2>2, <2>3
<1>4. Disturbs(who) = [k \in Keepers |-> Disturbs(who)[k]]
  BY DEF Disturbs
<1>5. QED
  BY <1>3, <1>4

\* A step of one process that disturbs the others.
LEMMA AChangeKeeps ==
  ASSUME MemInv, NEW k \in Keepers, NEW mine \in Keeper,
         keeper' = [Disturbs(k) EXCEPT ![k] = mine],
         topics' \subseteq Topics, unparsed' \subseteq topics',
         mine.at \in {"idle", "changed", "built"},
         mine.at = "built" /\ mine.alone => index' = Kept(Alphabetical(topics' \ unparsed'))
  PROVE  MemInv'
<1>1. /\ Disturbs(k) \in [Keepers -> Keeper]
      /\ \A l \in Keepers : l # k /\ Disturbs(k)[l].alone => Disturbs(k)[l].at = "idle"
  BY DisturbsOthers
<1>2. /\ keeper' \in [Keepers -> Keeper] /\ keeper'[k] = mine
      /\ \A l \in Keepers \ {k} : keeper'[l].alone => keeper'[l].at = "idle"
  BY <1>1
<1>3. Alone'
  BY <1>2 DEF Alone, Kept, Alphabetical, IndexLines
<1>4. QED
  BY <1>2, <1>3 DEF MemInv

\* A step of one process that changes nothing but what it has found.
LEMMA AFindingKeeps ==
  ASSUME MemInv, NEW k \in Keepers, NEW mine \in Keeper, keeper' = [keeper EXCEPT ![k] = mine],
         UNCHANGED <<topics, unparsed, index>>,
         mine.alone =>
           \/ mine.at = "listed" /\ mine.found = topics
           \/ mine.at = "read" /\ mine.found = topics \ unparsed
  PROVE  MemInv'
<1>1. keeper \in [Keepers -> Keeper]
  BY DEF MemInv
<1>2. /\ keeper' \in [Keepers -> Keeper] /\ keeper'[k] = mine
      /\ \A l \in Keepers \ {k} : keeper'[l] = keeper[l]
  BY <1>1
<1>3. Alone'
  <2>1. Kept(Alphabetical(topics \ unparsed))' = Kept(Alphabetical(topics \ unparsed))
    BY DEF Kept, Alphabetical, IndexLines
  <2>2. QED
    BY <1>2, <2>1 DEF MemInv, Alone
<1>4. QED
  BY <1>2, <1>3 DEF MemInv

LEMMA MemInvInit == MemInit => MemInv
BY DEF MemInit, Keeping, MemInv, Keeper, Alone

LEMMA MemInvStep == MemInv /\ [MemNext]_memVars => MemInv'
<1> SUFFICES ASSUME MemInv, [MemNext]_memVars PROVE MemInv'
  OBVIOUS
<1>1. topics \subseteq Topics /\ unparsed \subseteq topics /\ keeper \in [Keepers -> Keeper]
  BY DEF MemInv
<1>2. ASSUME NEW mine \in {Keeping("idle", {}), Keeping("changed", {})}
      PROVE  mine \in Keeper /\ mine.at \in {"idle", "changed"}
  <2>1. CASE mine = Keeping("idle", {})
    BY <2>1 DEF Keeping, Keeper
  <2>2. CASE mine = Keeping("changed", {})
    BY <2>2 DEF Keeping, Keeper
  <2>3. QED
    BY <2>1, <2>2
<1>3. ASSUME NEW k \in Keepers, NEW mine \in {Keeping("idle", {}), Keeping("changed", {})},
             keeper' = [Disturbs(k) EXCEPT ![k] = mine],
             topics' \subseteq Topics, unparsed' \subseteq topics'
      PROVE  MemInv'
  <2>1. mine \in Keeper /\ mine.at \in {"idle", "changed"}
    BY <1>2
  <2>2. QED
    BY <1>3, <2>1, AChangeKeeps
<1>4. ASSUME NEW k \in Keepers, NEW t \in Topics, WriteTopic(k, t) PROVE MemInv'
  BY <1>1, <1>3, <1>4 DEF WriteTopic
<1>5. ASSUME NEW k \in Keepers, NEW t \in Topics, DeleteTopic(k, t) PROVE MemInv'
  BY <1>1, <1>3, <1>5 DEF DeleteTopic
<1>6. ASSUME NEW k \in Keepers, NEW t \in Topics, WriteBreaksOff(k, t) PROVE MemInv'
  BY <1>1, <1>3, <1>6 DEF WriteBreaksOff
<1>7. ASSUME NEW k \in Keepers, RebuildFails(k) PROVE MemInv'
  BY <1>1, <1>3, <1>7 DEF RebuildFails
<1>8. ASSUME NEW k \in Keepers, ListTopics(k) PROVE MemInv'
  <2> DEFINE mine == [keeper[k] EXCEPT !.at = "listed", !.found = topics]
  <2>1. keeper' = [keeper EXCEPT ![k] = mine] /\ UNCHANGED <<topics, unparsed, index>>
    BY <1>8 DEF ListTopics
  <2>2. mine \in Keeper /\ mine.at = "listed" /\ mine.found = topics
    BY <1>1 DEF Keeper
  <2> HIDE DEF mine
  <2>3. QED
    BY <2>1, <2>2, AFindingKeeps
<1>9. ASSUME NEW k \in Keepers, ReadTopics(k) PROVE MemInv'
  <2> DEFINE found == (keeper[k].found \cap topics) \ unparsed
             mine == [keeper[k] EXCEPT !.at = "read", !.found = found]
  <2>1. /\ keeper[k].at = "listed" /\ keeper' = [keeper EXCEPT ![k] = mine]
        /\ UNCHANGED <<topics, unparsed, index>>
    BY <1>9 DEF ReadTopics
  <2>2. found \in SUBSET Topics /\ keeper[k] \in Keeper
    BY <1>1
  <2>3. keeper[k].alone => found = topics \ unparsed
    BY <2>1 DEF MemInv, Alone
  <2> HIDE DEF found
  <2>4. mine \in Keeper /\ mine.at = "read" /\ mine.found = found /\ mine.alone = keeper[k].alone
    BY <2>2 DEF Keeper
  <2> HIDE DEF mine
  <2>5. QED
    BY <2>1, <2>3, <2>4, AFindingKeeps
<1>10. ASSUME NEW k \in Keepers, WriteIndex(k) PROVE MemInv'
  <2> DEFINE mine == [Disturbs(k)[k] EXCEPT !.at = "built"]
  <2>1. /\ keeper[k].at = "read" /\ index' = Kept(Alphabetical(keeper[k].found))
        /\ keeper' = [Disturbs(k) EXCEPT ![k] = mine] /\ topics' = topics /\ unparsed' = unparsed
    BY <1>10 DEF WriteIndex
  <2>2. Disturbs(k)[k] \in Keeper
    BY DisturbsOthers
  <2>3. Disturbs(k)[k].alone => keeper[k].alone
    <3>1. Disturbs(k)[k] = [keeper[k] EXCEPT !.alone = @ /\ (k = k \/ keeper[k].at = "idle")]
      BY DEF Disturbs
    <3>2. QED
      BY <1>1, <3>1 DEF Keeper
  <2>4. mine \in Keeper /\ mine.at = "built" /\ mine.alone = Disturbs(k)[k].alone
    BY <2>2 DEF Keeper
  <2> HIDE DEF mine
  <2>5. mine.alone => keeper[k].found = topics' \ unparsed'
    BY <2>1, <2>3, <2>4 DEF MemInv, Alone
  <2>6. mine.alone => index' = Kept(Alphabetical(topics' \ unparsed'))
    BY <2>1, <2>5
  <2>7. QED
    BY <1>1, <2>1, <2>4, <2>6, AChangeKeeps
<1>11. ASSUME NEW t \in Topics, EditByHand(t) PROVE MemInv'
  <2>1. /\ topics' = topics /\ unparsed' = unparsed \cup {t} /\ t \in topics
        /\ keeper' = Disturbs("tool")
    BY <1>11 DEF EditByHand
  <2>2. /\ keeper' \in [Keepers -> Keeper]
        /\ \A k \in Keepers : keeper'[k].alone => keeper'[k].at = "idle"
    BY <2>1, DisturbsOthers, MemoryAssumption
  <2>3. Alone'
    BY <2>2 DEF Alone, Kept, Alphabetical, IndexLines
  <2>4. QED
    BY <1>1, <2>1, <2>2, <2>3 DEF MemInv
<1>12. CASE UNCHANGED memVars
  <2>1. UNCHANGED <<topics, unparsed, index, keeper>>
    BY <1>12 DEF memVars
  <2>2. Kept(Alphabetical(topics \ unparsed))' = Kept(Alphabetical(topics \ unparsed))
    BY <2>1 DEF Kept, Alphabetical, IndexLines
  <2>3. QED
    BY <2>1, <2>2 DEF MemInv, Alone
<1>13. QED
  BY <1>4, <1>5, <1>6, <1>7, <1>8, <1>9, <1>10, <1>11, <1>12 DEF MemNext

LEMMA AlwaysMemInv == MemSpec => []MemInv
BY MemInvInit, MemInvStep, PTL DEF MemSpec

\* The index lists names of topics, and fits, whatever broke off: it is either
\* empty or what was kept of the names a process had found.
Listed == index \in Seq(Topics) /\ Fitting(index)

LEMMA AlwaysListed == MemSpec => []Listed
<1>1. MemInit => Listed
  BY DEF MemInit, Listed, Fitting
<1>2. MemInv /\ Listed /\ [MemNext]_memVars => Listed'
  <2> SUFFICES ASSUME MemInv, Listed, [MemNext]_memVars PROVE Listed'
    OBVIOUS
  <2>1. ASSUME NEW k \in Keepers, WriteIndex(k) PROVE Listed'
    <3> DEFINE kept == Kept(Alphabetical(keeper[k].found))
    <3>1. keeper[k].found \in SUBSET Topics
      BY DEF MemInv, Keeper
    <3>2. kept \in Seq(keeper[k].found) /\ Fitting(kept)
      BY <3>1, KeptIs, KeptFits
    <3>3. index' = kept
      BY <2>1 DEF WriteIndex
    <3> HIDE DEF kept
    <3>4. kept \in Seq(Topics)
      BY <3>1, <3>2
    <3>5. QED
      BY <3>2, <3>3, <3>4 DEF Listed, Fitting, Text
  <2>2. ASSUME index' \in {index, <<>>} PROVE Listed'
    BY <2>2 DEF Listed, Fitting, Text
  <2>3. QED
    BY <2>1, <2>2 DEF MemNext, WriteTopic, DeleteTopic, WriteBreaksOff, ListTopics,
                      ReadTopics, RebuildFails, EditByHand, memVars
<1>3. QED
  BY <1>1, <1>2, AlwaysMemInv, PTL DEF MemSpec

\* The index is within both limits, whatever failed and whoever wrote beside
\* whom; and after a change that met no other it lists topics that exist, each
\* once, and all of them when they fit (RebuildIndex, WriteTopic, DeleteTopic).
THEOREM IndexRight == MemSpec => []IndexIsRight
<1>1. MemInv => IndexFollowsTopics
  <2> SUFFICES ASSUME MemInv, NEW k \in Keepers, keeper[k].at = "built", keeper[k].alone
               PROVE  LET readable == topics \ unparsed
                      IN  /\ ToSet(index) \subseteq readable /\ Len(index) = Cardinality(ToSet(index))
                          /\ Clip(IndexLines(Alphabetical(readable))) = IndexLines(Alphabetical(readable))
                               => ToSet(index) = readable
    BY DEF IndexFollowsTopics
  <2> DEFINE readable == topics \ unparsed
  <2>1. index = Kept(Alphabetical(readable)) /\ readable \in SUBSET Topics
    BY DEF MemInv, Alone
  <2> HIDE DEF readable
  <2>2. index \in Seq(readable)
    BY <2>1, KeptIs
  <2>3. ToSet(index) \subseteq readable
    BY <2>2 DEF ToSet
  <2>4. QED
    BY <2>1, <2>3, KeptIs DEF readable
<1>2. Listed => IndexFits
  BY DEF Listed, Fitting, Text, IndexFits
<1>3. QED
  BY <1>1, <1>2, AlwaysMemInv, AlwaysListed, PTL DEF IndexIsRight

\* The types of the directory, of the index and of what processes have found:
\* the index lists names of topics, whatever broke off.
THEOREM MemTypeCorrect == MemSpec => []MemTypeOK
<1>1. MemInv /\ Listed => MemTypeOK
  BY DEF MemInv, Keeper, Listed, MemTypeOK
<1>2. QED
  BY <1>1, AlwaysMemInv, AlwaysListed, PTL

-----------------------------------------------------------------------------
(* A response on its way from the wire to the next request.                 *)

ReplyBlock == [kind : Kinds, pieces : Nat \ {0}]
Pair == Nat \X Nat
ToolUse == [id : Nat, args : Seq(Pair)]
Assembly == [text : Seq(Pair), calls : Seq(ToolUse), current : ToolUse, finish : {"", "stop", "tool_use"}]
OnWire == [type : {"block_start", "block_delta", "block_stop", "call_chunk", "chunk", "part", "finish", "usage"},
           block : Nat, data : Seq(Pair)]
Heard == [type : {"text_delta", "reasoning_delta", "tool_use_delta", "tool_use_start", "tool_use_end", "message_end"},
          id : Nat \cup {"", "stop", "tool_use"}, data : Seq(Pair)]

LEMMA ReplyType ==
  ASSUME reply \in Replies
  PROVE  /\ reply \in Seq(ReplyBlock) /\ Len(reply) \in Nat
         /\ \A i \in 1..Len(reply) : reply[i].pieces \in Nat \ {0} /\ reply[i].kind \in Kinds
<1>1. reply \in Seq(ReplyBlock)
  BY StreamAssumption DEF ReplyBlock
<1>2. Len(reply) \in Nat /\ \A i \in 1..Len(reply) : reply[i] \in ReplyBlock
  BY <1>1
<1>3. QED
  BY <1>1, <1>2 DEF ReplyBlock

\* An identity of a call is not the zero of no call.
LEMMA CallIdType ==
  ASSUME NEW i \in Nat, IsCall(i)
  PROVE  CallId(i) \in Nat \ {0} \/ i = 0
<1> DEFINE S == {j \in 1..i : IsCall(j)}
<1>1. IsFiniteSet(1..i)
  BY FS_Interval
<1>2. IsFiniteSet(S)
  BY <1>1, FS_Subset
<1>3. Cardinality(S) \in Nat
  BY <1>2, FS_CardinalityType
<1>4. i # 0 => i \in S
  OBVIOUS
<1>5. i # 0 => Cardinality(S) # 0
  BY <1>2, <1>4, FS_EmptySet
<1>6. QED
  BY <1>3, <1>5 DEF CallId

LEMMA AnyCallId == ASSUME NEW i \in Nat PROVE CallId(i) \in Nat
<1> DEFINE S == {j \in 1..i : IsCall(j)}
<1>1. IsFiniteSet(1..i)
  BY FS_Interval
<1>2. IsFiniteSet(S)
  BY <1>1, FS_Subset
<1>3. Cardinality(S) \in Nat
  BY <1>2, FS_CardinalityType
<1>6. QED
  BY <1>3 DEF CallId

LEMMA PiecesType ==
  ASSUME reply \in Replies, NEW i \in 1..Len(reply)
  PROVE  Pieces(i) \in Seq(Pair) /\ Len(Pieces(i)) = reply[i].pieces /\ Len(Pieces(i)) \in Nat \ {0}
         /\ \A n \in 1..reply[i].pieces : Pieces(i)[n] = Piece(i, n) /\ <<Pieces(i)[n]>> \in Seq(Pair)
<1>1. reply[i].pieces \in Nat \ {0} /\ i \in Nat
  BY ReplyType
<1>2. \A n \in 1..reply[i].pieces : Piece(i, n) \in Pair
  BY <1>1 DEF Piece, Pair
<1>3. QED
  BY <1>1, <1>2 DEF Pieces

\* The pieces of a block, each in an event of its own.
Deltas(type, i) == [n \in DOMAIN Pieces(i) |-> W(type, i, <<Pieces(i)[n]>>)]

LEMMA DeltasType ==
  ASSUME reply \in Replies, NEW i \in 1..Len(reply), NEW type \in {"block_delta", "chunk"}
  PROVE  /\ Deltas(type, i) \in Seq(OnWire) /\ Len(Deltas(type, i)) = reply[i].pieces
         /\ \A n \in 1..reply[i].pieces : Deltas(type, i)[n] = W(type, i, <<Pieces(i)[n]>>)
<1> DEFINE d == Deltas(type, i)
           m == reply[i].pieces
<1>1. reply[i].pieces \in Nat \ {0} /\ DOMAIN Pieces(i) = 1..reply[i].pieces /\ i \in Nat
  BY ReplyType, PiecesType
<1>2. \A n \in 1..reply[i].pieces : W(type, i, <<Pieces(i)[n]>>) \in OnWire
  BY <1>1, PiecesType DEF W, OnWire
<1>3. QED
  <2>1. Deltas(type, i) = [n \in 1..reply[i].pieces |-> W(type, i, <<Pieces(i)[n]>>)]
    BY <1>1 DEF Deltas
  <2>2. \A n \in 1..m : d[n] = W(type, i, <<Pieces(i)[n]>>)
    BY <2>1
  <2>3. d = [n \in 1..m |-> d[n]] /\ \A n \in 1..m : d[n] \in OnWire
    BY <1>2, <2>1, <2>2
  <2>4. m \in Nat
    BY <1>1
  <2> HIDE DEF d, m
  <2>5. d \in Seq(OnWire) /\ Len(d) = m
    BY <2>3, <2>4, FunctionIsSequence
  <2>6. QED
    BY <2>2, <2>5 DEF d, m

LEMMA BlockType ==
  ASSUME reply \in Replies, protocol \in Protocols, NEW i \in 1..Len(reply)
  PROVE  BlockOnWire(i) \in Seq(OnWire)
<1>1. i \in Nat /\ Pieces(i) \in Seq(Pair) /\ protocol \in {"anthropic", "openai", "google"}
  BY ReplyType, PiecesType, StreamAssumption
<1>2. /\ W("block_start", i, <<>>) \in OnWire /\ W("block_stop", i, <<>>) \in OnWire
      /\ W("call_chunk", i, <<>>) \in OnWire /\ W("part", i, Pieces(i)) \in OnWire
  BY <1>1 DEF W, OnWire
<1>3. Deltas("block_delta", i) \in Seq(OnWire) /\ Deltas("chunk", i) \in Seq(OnWire)
  BY DeltasType
<1>4. CASE protocol = "anthropic"
  <2>1. BlockOnWire(i) = <<W("block_start", i, <<>>)>> \o Deltas("block_delta", i) \o <<W("block_stop", i, <<>>)>>
    BY <1>4 DEF BlockOnWire, Deltas
  <2>2. QED
    BY <1>2, <1>3, <2>1
<1>5. CASE protocol = "openai"
  <2>1. BlockOnWire(i) = (IF IsCall(i) THEN <<W("call_chunk", i, <<>>)>> ELSE <<>>) \o Deltas("chunk", i)
    BY <1>5 DEF BlockOnWire, Deltas
  <2>2. QED
    BY <1>2, <1>3, <2>1
<1>6. CASE protocol = "google"
  <2>1. BlockOnWire(i) = <<W("part", i, Pieces(i))>>
    BY <1>6 DEF BlockOnWire
  <2>2. QED
    BY <1>2, <2>1
<1>7. QED
  BY <1>1, <1>4, <1>5, <1>6

\* The events of one block: how many, and what the next one is.
LEMMA AnthropicBlock ==
  ASSUME reply \in Replies, protocol = "anthropic", NEW i \in 1..Len(reply)
  PROVE  /\ Len(BlockOnWire(i)) = reply[i].pieces + 2
         /\ BlockOnWire(i)[1] = W("block_start", i, <<>>)
         /\ \A n \in 1..reply[i].pieces : BlockOnWire(i)[n + 1] = W("block_delta", i, <<Pieces(i)[n]>>)
         /\ BlockOnWire(i)[reply[i].pieces + 2] = W("block_stop", i, <<>>)
<1> DEFINE d == Deltas("block_delta", i)
           a == W("block_start", i, <<>>)
           b == W("block_stop", i, <<>>)
           m == reply[i].pieces
<1>1. /\ d \in Seq(OnWire) /\ Len(d) = m /\ m \in Nat \ {0}
      /\ \A n \in 1..m : d[n] = W("block_delta", i, <<Pieces(i)[n]>>)
  BY DeltasType, ReplyType
<1>2. a \in OnWire /\ b \in OnWire
  BY DEF W, OnWire
<1>3. BlockOnWire(i) = <<a>> \o d \o <<b>>
  BY DEF BlockOnWire, Deltas
<1> HIDE DEF d, a, b, m
<1>4. /\ Len(<<a>> \o d \o <<b>>) = m + 2
      /\ (<<a>> \o d \o <<b>>)[1] = a /\ (<<a>> \o d \o <<b>>)[m + 2] = b
      /\ \A n \in 1..m : (<<a>> \o d \o <<b>>)[n + 1] = d[n]
  BY <1>1, <1>2
<1>5. QED
  BY <1>1, <1>3, <1>4 DEF a, b, m

LEMMA GoogleBlock ==
  ASSUME protocol = "google", NEW i
  PROVE  Len(BlockOnWire(i)) = 1 /\ BlockOnWire(i)[1] = W("part", i, Pieces(i))
<1>1. BlockOnWire(i) = <<W("part", i, Pieces(i))>>
  BY DEF BlockOnWire
<1>2. QED
  BY <1>1

-----------------------------------------------------------------------------
(* The events of all blocks, and then the end.                              *)

Blocks == [i \in 1..Len(reply) |-> BlockOnWire(i)]
Ending == IF protocol = "openai" THEN <<W("finish", 0, <<>>), W("usage", 0, <<>>)>> ELSE <<W("finish", 0, <<>>)>>

LEMMA BlocksType ==
  ASSUME reply \in Replies, protocol \in Protocols
  PROVE  Blocks \in Seq(Seq(OnWire)) /\ Len(Blocks) = Len(reply)
<1>1. Len(reply) \in Nat
  BY ReplyType
<1>2. \A i \in 1..Len(reply) : Blocks[i] \in Seq(OnWire)
  BY BlockType DEF Blocks
<1>3. Blocks = [i \in 1..Len(reply) |-> Blocks[i]]
  BY DEF Blocks
<1>4. QED
  BY <1>1, <1>2, <1>3, FunctionIsSequence

LEMMA WireIs ==
  ASSUME reply \in Replies, protocol \in Protocols
  PROVE  /\ Wire = FlattenSeq(Blocks) \o Ending
         /\ FlattenSeq(Blocks) \in Seq(OnWire) /\ Ending \in Seq(OnWire) /\ Wire \in Seq(OnWire)
         /\ protocol # "openai" => Ending = <<W("finish", 0, <<>>)>>
<1>1. DOMAIN reply = 1..Len(reply)
  BY ReplyType
<1>2. Wire = FlattenSeq(Blocks) \o Ending
  BY <1>1, Zenon DEF Wire, Blocks, Ending
<1>3. FlattenSeq(Blocks) \in Seq(OnWire)
  BY BlocksType, FlattenType
<1>4. W("finish", 0, <<>>) \in OnWire /\ W("usage", 0, <<>>) \in OnWire
  BY DEF W, OnWire
<1>5. Ending \in Seq(OnWire)
  BY <1>4 DEF Ending
<1>6. QED
  BY <1>2, <1>3, <1>5 DEF Ending

\* What is on the wire behind the first k blocks.
LEMMA NextOnWire ==
  ASSUME reply \in Replies, protocol \in Protocols, protocol # "openai",
         NEW k \in 0..Len(reply), NEW q \in Nat,
         q \in 1..Len(Wire)
  PROVE  /\ k < Len(reply) => \A p \in 1..Len(BlockOnWire(k + 1)) :
                q = Len(Reach(Blocks, k)) + p => Wire[q] = BlockOnWire(k + 1)[p]
         /\ k = Len(reply) => \A p \in Nat \ {0} :
                q = Len(Reach(Blocks, k)) + p => Wire[q] = W("finish", 0, <<>>) /\ p = 1
<1> DEFINE all == FlattenSeq(Blocks)
           end == Ending
           last == W("finish", 0, <<>>)
<1>1. all \in Seq(OnWire) /\ end \in Seq(OnWire) /\ Wire = all \o end /\ end = <<last>>
  BY WireIs
<1>2. Blocks \in Seq(Seq(OnWire)) /\ Len(Blocks) = Len(reply) /\ Len(reply) \in Nat
  BY BlocksType, ReplyType
<1>3. Reach(Blocks, k) \in Seq(OnWire)
  BY <1>2, ReachType
<1>4. ASSUME k < Len(reply), NEW p \in 1..Len(BlockOnWire(k + 1)), q = Len(Reach(Blocks, k)) + p
      PROVE  Wire[q] = BlockOnWire(k + 1)[p]
  <2>1. Blocks[k + 1] = BlockOnWire(k + 1) /\ BlockOnWire(k + 1) \in Seq(OnWire) /\ k \in Nat /\ k < Len(Blocks)
    BY <1>2, <1>4, BlockType DEF Blocks
  <2>2. /\ Len(Reach(Blocks, k)) + Len(BlockOnWire(k + 1)) <= Len(all)
        /\ all[Len(Reach(Blocks, k)) + p] = BlockOnWire(k + 1)[p]
    BY <1>2, <1>4, <2>1, AfterThese, SMTT(30)
  <2> HIDE DEF all, end
  <2>3. q \in 1..Len(all)
    BY <1>1, <1>3, <1>4, <2>1, <2>2
  <2>4. (all \o end)[q] = all[q]
    BY <1>1, <2>3
  <2>5. QED
    BY <1>1, <1>4, <2>2, <2>4
<1>5. ASSUME k = Len(reply), NEW p \in Nat \ {0}, q = Len(Reach(Blocks, k)) + p
      PROVE  Wire[q] = last /\ p = 1
  <2>1. Reach(Blocks, k) = all
    BY <1>2, <1>5, ReachEnds
  <2> HIDE DEF all, end, last
  <2>2. Len(all \o <<last>>) = Len(all) + 1 /\ (all \o <<last>>)[Len(all) + 1] = last
    BY <1>1
  <2>3. q <= Len(all) + 1 /\ q = Len(all) + p /\ Len(all) \in Nat
    BY <1>1, <1>5, <2>1, <2>2
  <2>4. QED
    BY <1>1, <2>2, <2>3
<1>6. QED
  BY <1>4, <1>5

-----------------------------------------------------------------------------
(* What processStream makes of an event, and of several.                    *)

Taking(a, es, h) == h = [n \in 0..Len(es) |-> IF n = 0 THEN a ELSE Take(h[n - 1], es[n])]

LEMMA TakeAllIs ==
  ASSUME NEW a, NEW es, \E h : Taking(a, es, h)
  PROVE  \E h : Taking(a, es, h) /\ TakeAll(a, es) = h[Len(es)]
<1> DEFINE h == CHOOSE fn : Taking(a, es, fn)
<1>1. Taking(a, es, h)
  OBVIOUS
<1>2. TakeAll(a, es) = h[Len(es)]
  BY DEF TakeAll, Taking
<1>3. QED
  BY <1>1, <1>2

LEMMA TakeNone == ASSUME NEW a PROVE TakeAll(a, <<>>) = a
<1>1. Taking(a, <<>>, [n \in 0..0 |-> a])
  BY DEF Taking
<1>2. PICK h : Taking(a, <<>>, h) /\ TakeAll(a, <<>>) = h[Len(<<>>)]
  BY <1>1, TakeAllIs
<1>3. QED
  BY <1>2 DEF Taking

LEMMA TakeOne == ASSUME NEW a, NEW e PROVE TakeAll(a, <<e>>) = Take(a, e)
<1>1. Taking(a, <<e>>, [n \in 0..1 |-> IF n = 0 THEN a ELSE Take(a, e)])
  BY DEF Taking
<1>2. PICK h : Taking(a, <<e>>, h) /\ TakeAll(a, <<e>>) = h[Len(<<e>>)]
  BY <1>1, TakeAllIs
<1>3. h[0] = a /\ h[1] = Take(h[0], e)
  BY <1>2 DEF Taking
<1>4. QED
  BY <1>2, <1>3

LEMMA TakeThree ==
  ASSUME NEW a, NEW d, NEW e, NEW last
  PROVE  TakeAll(a, <<d, e, last>>) = Take(Take(Take(a, d), e), last)
<1> DEFINE es == <<d, e, last>>
           b == Take(a, d)
           c == Take(b, e)
           g == Take(c, last)
           h == [n \in 0..3 |-> IF n = 0 THEN a ELSE IF n = 1 THEN b ELSE IF n = 2 THEN c ELSE g]
<1>1. Len(es) = 3 /\ es[1] = d /\ es[2] = e /\ es[3] = last
  OBVIOUS
<1>2. ASSUME NEW n \in 0..3 PROVE h[n] = IF n = 0 THEN a ELSE Take(h[n - 1], es[n])
  <2>1. h[0] = a /\ h[1] = b /\ h[2] = c /\ h[3] = g
    OBVIOUS
  <2>2. n = 0 \/ n = 1 \/ n = 2 \/ n = 3
    OBVIOUS
  <2> HIDE DEF h, es
  <2>3. QED
    BY <1>1, <2>1, <2>2
<1>3. h = [n \in 0..3 |-> h[n]]
  OBVIOUS
<1> HIDE DEF es, h
<1>4. Taking(a, es, h)
  BY <1>1, <1>2, <1>3 DEF Taking
<1>5. PICK k : Taking(a, es, k) /\ TakeAll(a, es) = k[Len(es)]
  BY <1>4, TakeAllIs
<1>6. k = [n \in 0..3 |-> IF n = 0 THEN a ELSE Take(k[n - 1], es[n])]
  BY <1>1, <1>5 DEF Taking
<1>7. k[0] = a /\ k[1] = Take(k[0], es[1]) /\ k[2] = Take(k[1], es[2]) /\ k[3] = Take(k[2], es[3])
  BY <1>6
<1>8. TakeAll(a, es) = Take(Take(Take(a, d), e), last)
  BY <1>1, <1>5, <1>7
<1>9. QED
  BY <1>8 DEF es

LEMMA NoneType == None \in ToolUse /\ None.id = 0
BY DEF None, ToolUse

LEMMA TakeText ==
  ASSUME NEW a \in Assembly, NEW id, NEW data \in Seq(Pair),
         NEW e, e = E("text_delta", id, data) \/ e = E("reasoning_delta", id, data)
  PROVE  Take(a, e) \in Assembly /\ Take(a, e).calls = a.calls /\ Take(a, e).current = a.current
<1>1. e.type \in {"text_delta", "reasoning_delta"} /\ e.data = data
  BY DEF E
<1>2. a.text \o data \in Seq(Pair)
  <2>1. a.text \in Seq(Pair)
    BY DEF Assembly
  <2>2. QED
    BY <2>1
<1>3. e.type = "text_delta" => Take(a, e) = [a EXCEPT !.text = @ \o data]
  BY <1>1 DEF Take
<1>4. e.type = "reasoning_delta" => Take(a, e) = a
  BY <1>1 DEF Take
<1>5. QED
  BY <1>1, <1>2, <1>3, <1>4 DEF Assembly

LEMMA TakeFinish ==
  ASSUME NEW a \in Assembly, NEW id \in {"", "stop", "tool_use"}
  PROVE  /\ Take(a, E("message_end", id, <<>>)) \in Assembly
         /\ Take(a, E("message_end", id, <<>>)).calls = a.calls
         /\ Take(a, E("message_end", id, <<>>)).current = a.current
<1> DEFINE e == E("message_end", id, <<>>)
<1>1. e.type = "message_end" /\ e.id = id
  BY DEF E
<1> HIDE DEF e
<1>2. Take(a, e) = [a EXCEPT !.finish = id]
  BY <1>1 DEF Take
<1>3. Take(a, e) \in Assembly /\ Take(a, e).calls = a.calls /\ Take(a, e).current = a.current
  BY <1>2 DEF Assembly
<1>4. QED
  BY <1>3 DEF e

LEMMA TakeStart ==
  ASSUME NEW a \in Assembly, NEW id \in Nat
  PROVE  /\ Take(a, E("tool_use_start", id, <<>>)) \in Assembly
         /\ Take(a, E("tool_use_start", id, <<>>)).calls = a.calls
         /\ Take(a, E("tool_use_start", id, <<>>)).current = [id |-> id, args |-> <<>>]
<1>1. [id |-> id, args |-> <<>>] \in ToolUse
  BY DEF ToolUse
<1>2. QED
  BY <1>1 DEF Take, E, Assembly

LEMMA SameCall ==
  ASSUME NEW c \in ToolUse, NEW d \in ToolUse, c.id = d.id, c.args = d.args
  PROVE  c = d
BY DEF ToolUse

LEMMA TakeDelta ==
  ASSUME NEW a \in Assembly, NEW data \in Seq(Pair)
  PROVE  /\ Take(a, E("tool_use_delta", 0, data)) \in Assembly
         /\ Take(a, E("tool_use_delta", 0, data)).calls = a.calls
         /\ a.current = None => Take(a, E("tool_use_delta", 0, data)).current = None
         /\ a.current # None => Take(a, E("tool_use_delta", 0, data)).current
                = [id |-> a.current.id, args |-> a.current.args \o data]
<1> DEFINE e == E("tool_use_delta", 0, data)
<1>1. e.type = "tool_use_delta" /\ e.data = data
  BY DEF E
<1>2. a.current \in ToolUse /\ a.current.args \in Seq(Pair) /\ a.current.id \in Nat
  BY DEF Assembly, ToolUse
<1> HIDE DEF e
<1>3. CASE a.current = None
  <2>1. Take(a, e) = a
    BY <1>1, <1>3 DEF Take
  <2>2. QED
    BY <1>3, <2>1 DEF e
<1>4. CASE a.current # None
  <2>1. Take(a, e) = [a EXCEPT !.current.args = @ \o data]
    BY <1>1, <1>4 DEF Take
  <2>2. [a EXCEPT !.current.args = @ \o data].current = [a.current EXCEPT !.args = @ \o data]
    BY DEF Assembly
  <2> DEFINE c == [a.current EXCEPT !.args = @ \o data]
             d == [id |-> a.current.id, args |-> a.current.args \o data]
  <2>3. a.current.args \o data \in Seq(Pair)
    BY <1>2
  <2>4. c \in ToolUse /\ c.id = a.current.id /\ c.args = a.current.args \o data
    BY <1>2, <2>3 DEF ToolUse
  <2>5. d \in ToolUse /\ d.id = a.current.id /\ d.args = a.current.args \o data
    BY <1>2, <2>3 DEF ToolUse
  <2> HIDE DEF c, d
  <2>6. c = d
    BY <2>4, <2>5, SameCall
  <2>7. d \in ToolUse
    BY <2>5
  <2> USE DEF c, d
  <2>8. Take(a, e) \in Assembly /\ Take(a, e).calls = a.calls
    BY <2>1, <2>2, <2>6, <2>7, ZenonT(60) DEF Assembly
  <2>9. QED
    BY <1>4, <2>1, <2>2, <2>6, <2>8 DEF e
<1>5. QED
  BY <1>3, <1>4

LEMMA TakeEnd ==
  ASSUME NEW a \in Assembly, NEW id
  PROVE  /\ Take(a, E("tool_use_end", id, <<>>)) \in Assembly
         /\ a.current = None => Take(a, E("tool_use_end", id, <<>>)) = a
         /\ a.current # None =>
              /\ Take(a, E("tool_use_end", id, <<>>)).calls = Append(a.calls, a.current)
              /\ Take(a, E("tool_use_end", id, <<>>)).current = None
<1> DEFINE e == E("tool_use_end", id, <<>>)
<1>1. e.type = "tool_use_end"
  BY DEF E
<1>2. a.current \in ToolUse /\ a.calls \in Seq(ToolUse) /\ None \in ToolUse
  BY NoneType DEF Assembly
<1>3. Append(a.calls, a.current) \in Seq(ToolUse)
  BY <1>2
<1> HIDE DEF e
<1>4. CASE a.current = None
  <2>1. Take(a, e) = a
    BY <1>1, <1>4 DEF Take
  <2>2. QED
    BY <1>4, <2>1 DEF e
<1>5. CASE a.current # None
  <2>1. Take(a, e) = [a EXCEPT !.calls = Append(@, a.current), !.current = None]
    BY <1>1, <1>5 DEF Take
  <2>2. Take(a, e) \in Assembly /\ Take(a, e).calls = Append(a.calls, a.current) /\ Take(a, e).current = None
    BY <1>2, <1>3, <2>1 DEF Assembly
  <2>3. QED
    BY <1>5, <2>2 DEF e
<1>6. QED
  BY <1>4, <1>5

-----------------------------------------------------------------------------
(* The calls the model made, and those that have been put together.         *)

Made(i) == [id |-> CallId(i), args |-> Pieces(i)]
CallsOf == [i \in 1..Len(reply) |-> IF IsCall(i) THEN <<Made(i)>> ELSE <<>>]

LEMMA MadeType ==
  ASSUME reply \in Replies, NEW i \in 1..Len(reply)
  PROVE  Made(i) \in ToolUse /\ (IsCall(i) => Made(i) # None /\ CallId(i) # 0)
<1>1. i \in Nat \ {0} /\ Pieces(i) \in Seq(Pair) /\ CallId(i) \in Nat
  BY ReplyType, PiecesType, AnyCallId
<1>2. IsCall(i) => CallId(i) # 0
  BY <1>1, CallIdType
<1>3. Made(i) \in ToolUse /\ Made(i).id = CallId(i)
  BY <1>1 DEF Made, ToolUse
<1>4. QED
  BY <1>2, <1>3, NoneType

LEMMA CallsOfType ==
  ASSUME reply \in Replies
  PROVE  /\ CallsOf \in Seq(Seq(ToolUse)) /\ Len(CallsOf) = Len(reply)
         /\ \A i \in 1..Len(reply) : CallsOf[i] = IF IsCall(i) THEN <<Made(i)>> ELSE <<>>
         /\ CallsSaid = FlattenSeq(CallsOf)
<1>1. Len(reply) \in Nat /\ DOMAIN reply = 1..Len(reply)
  BY ReplyType
<1>2. \A i \in 1..Len(reply) : CallsOf[i] \in Seq(ToolUse)
  BY MadeType DEF CallsOf
<1>3. CallsOf = [i \in 1..Len(reply) |-> CallsOf[i]]
  BY DEF CallsOf
<1>4. CallsOf \in Seq(Seq(ToolUse)) /\ Len(CallsOf) = Len(reply)
  BY <1>1, <1>2, <1>3, FunctionIsSequence
<1>5. CallsSaid = FlattenSeq(CallsOf)
  BY <1>1, Zenon DEF CallsSaid, CallsOf, Made
<1>6. QED
  BY <1>4, <1>5 DEF CallsOf

\* The call in the making after p events of block i, which is one of Anthropic's.
Half(i, p) ==
  IF IsCall(i) /\ p > 0 THEN [id |-> CallId(i), args |-> SubSeq(Pieces(i), 1, p - 1)] ELSE None

LEMMA HalfGrows ==
  ASSUME reply \in Replies, NEW i \in 1..Len(reply), IsCall(i)
  PROVE  /\ Half(i, 0) = None
         /\ Half(i, 1) = [id |-> CallId(i), args |-> <<>>]
         /\ Half(i, reply[i].pieces + 1) = Made(i)
         /\ \A p \in 1..reply[i].pieces :
              /\ Half(i, p) # None
              /\ Half(i, p + 1) = [id |-> Half(i, p).id, args |-> Half(i, p).args \o <<Pieces(i)[p]>>]
<1> DEFINE s == Pieces(i)
           m == reply[i].pieces
<1>1. s \in Seq(Pair) /\ Len(s) = m /\ m \in Nat \ {0}
  BY PiecesType, ReplyType
<1>2. CallId(i) # 0 /\ None.id = 0
  BY MadeType, NoneType
<1>3. Half(i, 0) = None
  BY DEF Half
<1>4. \A p \in 1..m + 1 : Half(i, p) = [id |-> CallId(i), args |-> SubSeq(s, 1, p - 1)]
  BY <1>1 DEF Half
<1> HIDE DEF s, m
<1>5. SubSeq(s, 1, 1 - 1) = <<>> /\ SubSeq(s, 1, (m + 1) - 1) = s
  BY <1>1
<1>6. Half(i, 1) = [id |-> CallId(i), args |-> <<>>] /\ Half(i, m + 1) = [id |-> CallId(i), args |-> s]
  <2>1. 1 \in 1..m + 1 /\ m + 1 \in 1..m + 1
    BY <1>1
  <2>2. QED
    BY <1>4, <1>5, <2>1
<1>7. ASSUME NEW p \in 1..m
      PROVE  /\ Half(i, p) # None
             /\ Half(i, p + 1) = [id |-> Half(i, p).id, args |-> Half(i, p).args \o <<s[p]>>]
  <2>1. p \in 1..m + 1 /\ p + 1 \in 1..m + 1
    BY <1>1
  <2>2. Half(i, p) = [id |-> CallId(i), args |-> SubSeq(s, 1, p - 1)]
    BY <1>4, <2>1
  <2>3. Half(i, p + 1) = [id |-> CallId(i), args |-> SubSeq(s, 1, (p + 1) - 1)]
    BY <1>4, <2>1
  <2>4. SubSeq(s, 1, (p + 1) - 1) = SubSeq(s, 1, p - 1) \o <<s[p]>>
    BY <1>1
  <2>5. Half(i, p).id = CallId(i) /\ Half(i, p).args = SubSeq(s, 1, p - 1)
    BY <2>2
  <2>6. QED
    BY <1>2, <2>3, <2>4, <2>5
<1>8. QED
  BY <1>3, <1>6, <1>7 DEF s, m, Made

-----------------------------------------------------------------------------
(* Where the parser and the loop are.                                       *)

\* The parser has read k blocks, and perhaps some events of the next; the calls
\* of the k blocks are put together, and the next as far as it has been read.
At(k, a, h) ==
  /\ a.calls = Reach(CallsOf, k)
  /\ h >= Len(Reach(Blocks, k))
  /\ k < Len(reply) => /\ h < Len(Reach(Blocks, k)) + Len(BlockOnWire(k + 1))
                       /\ a.current = Half(k + 1, h - Len(Reach(Blocks, k)))
  /\ k = Len(reply) => a.current = None

LEMMA NextBlock ==
  ASSUME reply \in Replies, protocol \in Protocols, protocol # "openai", NEW k \in 0..Len(reply),
         NEW a \in Assembly, a.calls = Reach(CallsOf, k), a.current = None
  PROVE  At(k, a, Len(Reach(Blocks, k)))
<1>1. Len(reply) \in Nat /\ Blocks \in Seq(Seq(OnWire)) /\ Len(Blocks) = Len(reply)
  BY ReplyType, BlocksType
<1>2. Len(Reach(Blocks, k)) \in Nat
  <2>1. Reach(Blocks, k) \in Seq(OnWire)
    BY <1>1, ReachType
  <2>2. QED
    BY <2>1
<1>3. protocol \in {"anthropic", "google"}
  BY StreamAssumption
<1>4. ASSUME k < Len(reply) PROVE Len(BlockOnWire(k + 1)) \in Nat \ {0} /\ Half(k + 1, 0) = None
  <2> DEFINE n == Len(BlockOnWire(k + 1))
             m == reply[k + 1].pieces
  <2>1. k + 1 \in 1..Len(reply)
    BY <1>1, <1>4
  <2>2. protocol = "anthropic" => n = m + 2
    BY <2>1, AnthropicBlock
  <2>3. protocol = "google" => n = 1
    BY GoogleBlock
  <2>4. m \in Nat
    BY <2>1, ReplyType
  <2>5. Half(k + 1, 0) = None
    BY DEF Half
  <2> HIDE DEF n, m
  <2>6. n \in Nat \ {0}
    BY <1>3, <2>2, <2>3, <2>4
  <2>7. QED
    BY <2>5, <2>6 DEF n
<1> DEFINE h == Len(Reach(Blocks, k))
<1>5. h - h = 0 /\ h >= h
  BY <1>2
<1>6. k < Len(reply) => h < h + Len(BlockOnWire(k + 1))
  BY <1>2, <1>4
<1>7. QED
  BY <1>4, <1>5, <1>6 DEF At

\* A reading of one more event: what comes of it is again such a place.
Goes(a, h) == a \in Assembly /\ \E k \in 0..Len(reply) : At(k, a, h)

LEMMA ReasonType == Reason \in {"stop", "tool_use"}
BY DEF Reason

\* Behind the last block only the end of the message is left.
LEMMA HearsTheEnd ==
  ASSUME reply \in Replies, protocol \in Protocols, protocol # "openai", asm \in Assembly,
         heard \in Nat, heard < Len(Wire), At(Len(reply), asm, heard)
  PROVE  Goes(TakeAll(asm, Parse(Wire[heard + 1])), heard + 1)
<1> DEFINE k == Len(reply)
           u == Len(Reach(Blocks, k))
           e == E("message_end", Reason, <<>>)
           b == Take(asm, e)
<1>1. k \in Nat /\ k \in 0..Len(reply) /\ Blocks \in Seq(Seq(OnWire)) /\ Len(Blocks) = k
  BY ReplyType, BlocksType
<1>2. u \in Nat /\ Len(Wire) \in Nat
  <2>1. Reach(Blocks, k) \in Seq(OnWire) /\ Wire \in Seq(OnWire)
    BY <1>1, ReachType, WireIs
  <2>2. QED
    BY <2>1
<1>3. heard >= u /\ asm.calls = Reach(CallsOf, k) /\ asm.current = None
  BY DEF At
<1>4. Wire[heard + 1] = W("finish", 0, <<>>)
  <2> HIDE DEF u
  <2> DEFINE p == (heard + 1) - u
  <2>1. p \in Nat \ {0} /\ heard + 1 = u + p /\ heard + 1 \in Nat /\ heard + 1 \in 1..Len(Wire)
    BY <1>2, <1>3
  <2> HIDE DEF p
  <2>2. QED
    BY <1>1, <2>1, NextOnWire DEF u
<1>5. Parse(Wire[heard + 1]) = <<e>>
  <2>1. W("finish", 0, <<>>).type = "finish"
    BY DEF W
  <2>2. protocol \in {"anthropic", "google"}
    BY StreamAssumption
  <2>3. protocol = "anthropic" => Parse(W("finish", 0, <<>>)) = <<e>>
    BY <2>1 DEF Parse, ParseAnthropic
  <2>4. protocol = "google" => Parse(W("finish", 0, <<>>)) = <<e>>
    BY <2>1 DEF Parse, ParseGoogle
  <2>5. QED
    BY <1>4, <2>2, <2>3, <2>4
<1>6. b \in Assembly /\ b.calls = asm.calls /\ b.current = asm.current
  BY ReasonType, TakeFinish
<1>7. TakeAll(asm, Parse(Wire[heard + 1])) = b
  BY <1>5, TakeOne
<1> HIDE DEF b, u
<1>8. At(k, b, heard + 1)
  <2>1. heard + 1 >= u
    BY <1>2, <1>3
  <2>2. QED
    BY <1>3, <1>6, <2>1 DEF At, u
<1>9. QED
  BY <1>1, <1>6, <1>7, <1>8 DEF Goes

\* What an event of Anthropic's in the middle of block k + 1 makes of the assembly.
LEMMA AnthropicTakes ==
  ASSUME reply \in Replies, protocol = "anthropic", protocol \in Protocols, asm \in Assembly,
         NEW i \in 1..Len(reply), NEW p \in 0..(reply[i].pieces + 1), asm.current = Half(i, p),
         NEW b, b = TakeAll(asm, Parse(BlockOnWire(i)[p + 1]))
  PROVE  /\ b \in Assembly
         /\ p # reply[i].pieces + 1 => b.calls = asm.calls /\ b.current = Half(i, p + 1)
         /\ p = reply[i].pieces + 1 => b.current = None
         /\ p = reply[i].pieces + 1 /\ IsCall(i) => b.calls = Append(asm.calls, Made(i))
         /\ p = reply[i].pieces + 1 /\ ~IsCall(i) => b.calls = asm.calls
<1> DEFINE m == reply[i].pieces
           w == BlockOnWire(i)[p + 1]
<1>1. m \in Nat \ {0} /\ i \in Nat /\ reply[i].kind \in Kinds
  BY ReplyType
<1>2. Parse(w) = ParseAnthropic(w)
  BY DEF Parse
<1>3. ~IsCall(i) => Half(i, p) = None /\ Half(i, p + 1) = None
  BY DEF Half
<1>4. CASE p = 0
  <2>1. w = W("block_start", i, <<>>) /\ w.type = "block_start" /\ w.block = i
    <3>1. p + 1 = 1
      BY <1>4
    <3>2. w = W("block_start", i, <<>>)
      BY <3>1, AnthropicBlock
    <3> HIDE DEF w
    <3>3. QED
      BY <3>2 DEF W
  <2>2. p # m + 1 /\ p + 1 = 1
    BY <1>1, <1>4
  <2>3. CASE IsCall(i)
    <3>1. Parse(w) = <<E("tool_use_start", CallId(i), <<>>)>>
      BY <1>2, <2>1, <2>3 DEF ParseAnthropic
    <3>2. b = Take(asm, E("tool_use_start", CallId(i), <<>>))
      BY <3>1, TakeOne
    <3>3. CallId(i) \in Nat
      BY <1>1, AnyCallId
    <3>4. Half(i, 1) = [id |-> CallId(i), args |-> <<>>]
      BY <2>3, HalfGrows
    <3>5. b \in Assembly /\ b.calls = asm.calls /\ b.current = Half(i, 1)
      BY <3>2, <3>3, <3>4, TakeStart
    <3>6. QED
      BY <2>2, <3>5
  <2>4. CASE ~IsCall(i)
    <3>1. Parse(w) = <<>>
      BY <1>2, <2>1, <2>4 DEF ParseAnthropic
    <3>2. b = asm
      BY <3>1, TakeNone
    <3>3. QED
      BY <1>3, <2>2, <2>4, <3>2
  <2>5. QED
    BY <2>3, <2>4
<1>5. CASE p \in 1..m
  <2> DEFINE data == <<Pieces(i)[p]>>
  <2>1. w = W("block_delta", i, data) /\ w.type = "block_delta" /\ w.block = i /\ w.data = data
    <3>1. p \in 1..reply[i].pieces
      BY <1>5
    <3>2. w = W("block_delta", i, data)
      BY <3>1, AnthropicBlock
    <3> HIDE DEF w
    <3>3. QED
      BY <3>2 DEF W
  <2>2. p # m + 1
    BY <1>1, <1>5
  <2>3. data \in Seq(Pair)
    BY <1>5, PiecesType
  <2> HIDE DEF data
  <2>4. Parse(w) = DeltaOf(i, data)
    BY <1>2, <2>1 DEF ParseAnthropic
  <2>5. CASE IsCall(i)
    <3>1. Parse(w) = <<E("tool_use_delta", 0, data)>>
      BY <2>4, <2>5 DEF DeltaOf, IsCall
    <3>2. b = Take(asm, E("tool_use_delta", 0, data))
      BY <3>1, TakeOne
    <3>3. /\ Half(i, p) # None
          /\ Half(i, p + 1) = [id |-> Half(i, p).id, args |-> Half(i, p).args \o data]
      BY <1>5, <2>5, HalfGrows DEF data
    <3>4. b \in Assembly /\ b.calls = asm.calls /\ b.current = Half(i, p + 1)
      BY <2>3, <3>2, <3>3, TakeDelta, ZenonT(60)
    <3>5. QED
      BY <2>2, <3>4
  <2>6. CASE ~IsCall(i)
    <3>1. Parse(w) = <<E("text_delta", 0, data)>> \/ Parse(w) = <<E("reasoning_delta", 0, data)>>
      BY <1>1, <2>4, <2>6 DEF DeltaOf, IsCall, Kinds
    <3>2. PICK e : Parse(w) = <<e>> /\ (e = E("text_delta", 0, data) \/ e = E("reasoning_delta", 0, data))
      BY <3>1
    <3>3. b = Take(asm, e)
      BY <3>2, TakeOne
    <3>4. b \in Assembly /\ b.calls = asm.calls /\ b.current = asm.current
      BY <2>3, <3>2, <3>3, TakeText
    <3>5. QED
      BY <1>3, <2>2, <2>6, <3>4
  <2>7. QED
    BY <2>5, <2>6
<1>6. CASE p = m + 1
  <2>1. p + 1 = m + 2
    BY <1>1, <1>6
  <2>2. w = W("block_stop", i, <<>>) /\ w.type = "block_stop"
    <3>1. p + 1 = reply[i].pieces + 2
      BY <2>1
    <3>2. w = W("block_stop", i, <<>>)
      BY <3>1, AnthropicBlock
    <3> HIDE DEF w
    <3>3. QED
      BY <3>2 DEF W
  <2>3. Parse(w) = <<E("tool_use_end", 0, <<>>)>>
    BY <1>2, <2>2 DEF ParseAnthropic
  <2>4. b = Take(asm, E("tool_use_end", 0, <<>>))
    BY <2>3, TakeOne
  <2>5. CASE IsCall(i)
    <3>1. asm.current = Made(i) /\ Made(i) # None
      BY <1>6, <2>5, HalfGrows, MadeType
    <3>2. QED
      BY <1>6, <2>4, <2>5, <3>1, TakeEnd
  <2>6. CASE ~IsCall(i)
    <3>1. asm.current = None
      BY <1>3, <2>6
    <3>2. b = asm
      BY <2>4, <3>1, TakeEnd
    <3>3. QED
      BY <1>6, <2>6, <3>1, <3>2
  <2>7. QED
    BY <2>5, <2>6
<1>7. p = 0 \/ p \in 1..m \/ p = m + 1
  BY <1>1
<1>8. QED
  BY <1>4, <1>5, <1>6, <1>7

\* The last event of block i, after which its call is among those put together.
LEMMA BlockRead ==
  ASSUME reply \in Replies, protocol \in Protocols, protocol # "openai",
         NEW k \in Nat, k < Len(reply), NEW a \in Assembly, a.current = None,
         NEW calls \in Seq(ToolUse), calls = Reach(CallsOf, k),
         IsCall(k + 1) => a.calls = Append(calls, Made(k + 1)),
         ~IsCall(k + 1) => a.calls = calls,
         NEW h, h = Len(Reach(Blocks, k)) + Len(BlockOnWire(k + 1))
  PROVE  Goes(a, h)
<1>1. /\ CallsOf \in Seq(Seq(ToolUse)) /\ Len(CallsOf) = Len(reply)
      /\ CallsOf[k + 1] = IF IsCall(k + 1) THEN <<Made(k + 1)>> ELSE <<>>
      /\ k + 1 \in 1..Len(reply) /\ k + 1 \in 0..Len(reply)
  BY ReplyType, CallsOfType
<1>2. Reach(CallsOf, k + 1) = calls \o CallsOf[k + 1]
  BY <1>1, ReachNext
<1>3. Made(k + 1) \in ToolUse
  BY <1>1, MadeType
<1>4. a.calls = Reach(CallsOf, k + 1)
  <2> DEFINE x == Made(k + 1)
  <2>1. x \in ToolUse
    BY <1>3
  <2> HIDE DEF x
  <2>2. Append(calls, x) = calls \o <<x>> /\ calls \o <<>> = calls
    BY <2>1
  <2>3. QED
    BY <1>1, <1>2, <2>2 DEF x
<1>5. h = Len(Reach(Blocks, k + 1))
  <2>1. Blocks \in Seq(Seq(OnWire)) /\ Len(Blocks) = Len(reply) /\ Blocks[k + 1] = BlockOnWire(k + 1)
    BY <1>1, BlocksType DEF Blocks
  <2>2. Reach(Blocks, k + 1) = Reach(Blocks, k) \o BlockOnWire(k + 1)
    BY <2>1, ReachNext
  <2> DEFINE u == Reach(Blocks, k)
             v == BlockOnWire(k + 1)
  <2>3. k \in 0..Len(Blocks)
    BY <1>1, <2>1
  <2>4. u \in Seq(OnWire) /\ v \in Seq(OnWire)
    BY <1>1, <2>1, <2>3, ReachType, BlockType
  <2> HIDE DEF u, v
  <2>5. Len(u \o v) = Len(u) + Len(v)
    BY <2>4
  <2>6. QED
    BY <2>2, <2>5 DEF u, v
<1>6. At(k + 1, a, Len(Reach(Blocks, k + 1)))
  BY <1>1, <1>4, NextBlock
<1>7. QED
  BY <1>1, <1>5, <1>6 DEF Goes

LEMMA HearsABlock ==
  ASSUME reply \in Replies, protocol \in Protocols, protocol # "openai", asm \in Assembly,
         heard \in Nat, heard < Len(Wire), NEW k \in Nat, k < Len(reply), At(k, asm, heard)
  PROVE  Goes(TakeAll(asm, Parse(Wire[heard + 1])), heard + 1)
<1> DEFINE i == k + 1
           u == Len(Reach(Blocks, k))
           n == Len(BlockOnWire(i))
           p == heard - u
           b == TakeAll(asm, Parse(Wire[heard + 1]))
           calls == Reach(CallsOf, k)
<1>1. /\ Len(reply) \in Nat /\ i \in 1..Len(reply) /\ k \in 0..Len(reply)
      /\ Blocks \in Seq(Seq(OnWire)) /\ Len(Blocks) = Len(reply)
      /\ CallsOf \in Seq(Seq(ToolUse)) /\ Len(CallsOf) = Len(reply)
  BY ReplyType, BlocksType, CallsOfType
<1>2. u \in Nat /\ n \in Nat /\ Len(Wire) \in Nat
  <2>1. Reach(Blocks, k) \in Seq(OnWire) /\ Wire \in Seq(OnWire) /\ BlockOnWire(i) \in Seq(OnWire)
    BY <1>1, ReachType, WireIs, BlockType
  <2>2. QED
    BY <2>1
<1>3. calls \in Seq(ToolUse) /\ asm.calls = calls /\ heard >= u /\ heard < u + n /\ asm.current = Half(i, p)
  BY <1>1, ReachType DEF At
<1>4. p \in Nat /\ p < n /\ p + 1 \in 1..n /\ heard = u + p /\ heard + 1 = u + (p + 1)
  <2> HIDE DEF u, n
  <2>1. QED
    BY <1>2, <1>3
<1>5. Wire[heard + 1] = BlockOnWire(i)[p + 1]
  <2>1. heard + 1 \in Nat /\ heard + 1 \in 1..Len(Wire)
    BY <1>2
  <2>2. \A q \in 1..Len(BlockOnWire(k + 1)) :
          heard + 1 = Len(Reach(Blocks, k)) + q => Wire[heard + 1] = BlockOnWire(k + 1)[q]
    BY <1>1, <2>1, NextOnWire
  <2>3. QED
    BY <1>4, <2>2
<1>6. CASE protocol = "anthropic"
  <2> DEFINE m == reply[i].pieces
  <2>1. n = m + 2 /\ m \in Nat
    BY <1>1, <1>6, AnthropicBlock, ReplyType
  <2>2. p \in 0..(m + 1)
    <3> HIDE DEF n, m, p
    <3>1. QED
      BY <1>4, <2>1
  <2>3. /\ b \in Assembly
        /\ p # m + 1 => b.calls = asm.calls /\ b.current = Half(i, p + 1)
        /\ p = m + 1 => b.current = None
        /\ p = m + 1 /\ IsCall(i) => b.calls = Append(asm.calls, Made(i))
        /\ p = m + 1 /\ ~IsCall(i) => b.calls = asm.calls
    BY <1>1, <1>3, <1>5, <1>6, <2>2, AnthropicTakes
  <2> HIDE DEF b
  <2>4. CASE p = m + 1
    <3>1. heard + 1 = u + n
      <4> HIDE DEF u, n, m, p
      <4>1. QED
        BY <1>2, <1>4, <2>1, <2>4
    <3>2. Goes(b, heard + 1)
      BY <1>3, <2>3, <2>4, <3>1, BlockRead
    <3>3. QED
      BY <3>2 DEF b
  <2>5. CASE p # m + 1
    <3>1. /\ (heard + 1) - u = p + 1 /\ heard + 1 >= u /\ heard + 1 < u + n
      <4> HIDE DEF u, n, m, p
      <4>1. QED
        BY <1>2, <1>4, <2>1, <2>2, <2>5
    <3>2. b.calls = calls /\ b.current = Half(i, (heard + 1) - u)
      BY <1>3, <2>3, <2>5, <3>1
    <3>3. At(k, b, heard + 1)
      BY <3>1, <3>2 DEF At
    <3>4. QED
      BY <1>1, <2>3, <3>3 DEF Goes, b
  <2>6. QED
    BY <2>4, <2>5
<1>7. CASE protocol = "google"
  <2>1. n = 1 /\ BlockOnWire(i)[1] = W("part", i, Pieces(i))
    BY <1>7, GoogleBlock
  <2>2. p = 0
    <3> HIDE DEF n, p
    <3>1. QED
      BY <1>4, <2>1
  <2>3. Wire[heard + 1] = W("part", i, Pieces(i)) /\ asm.current = None /\ heard + 1 = u + n
    <3>1. p + 1 = 1 /\ Half(i, p) = None
      BY <2>2 DEF Half
    <3>2. QED
      BY <1>3, <1>4, <1>5, <2>1, <3>1
  <2> DEFINE w == W("part", i, Pieces(i))
             data == Pieces(i)
  <2>4. w.type = "part" /\ w.block = i /\ w.data = data
    BY DEF W
  <2>5. data \in Seq(Pair) /\ CallId(i) \in Nat
    BY <1>1, PiecesType, AnyCallId
  <2> HIDE DEF w, data
  <2>6. Parse(w) = ParseGoogle(w)
    BY <1>7 DEF Parse
  <2>7. CASE IsCall(i)
    <3> DEFINE c == Take(asm, E("tool_use_start", CallId(i), <<>>))
               d == Take(c, E("tool_use_delta", 0, data))
               done == Take(d, E("tool_use_end", CallId(i), <<>>))
    <3>1. Parse(w) = <<E("tool_use_start", CallId(i), <<>>), E("tool_use_delta", 0, data),
                       E("tool_use_end", CallId(i), <<>>)>>
      <4>1. w.type = "part" /\ IsCall(w.block) /\ CallId(w.block) = CallId(i)
        BY <2>4, <2>7
      <4>2. QED
        BY <2>4, <2>6, <4>1 DEF ParseGoogle
    <3>2. b = done
      BY <2>3, <3>1, TakeThree DEF w
    <3> HIDE DEF b, done
    <3>3. c \in Assembly /\ c.calls = calls /\ c.current = [id |-> CallId(i), args |-> <<>>]
      BY <1>3, <2>5, TakeStart
    <3>4. CallId(i) # 0 /\ None.id = 0 /\ Made(i) # None
      BY <1>1, <2>7, MadeType, NoneType
    <3>5. c.current # None /\ c.current.id = CallId(i) /\ c.current.args = <<>> /\ <<>> \o data = data
      BY <2>5, <3>3, <3>4
    <3> HIDE DEF c
    <3>6. d \in Assembly /\ d.calls = calls /\ d.current = Made(i)
      <4>1. d.current = [id |-> c.current.id, args |-> c.current.args \o data]
        BY <2>5, <3>3, <3>5, TakeDelta
      <4>2. d.current = Made(i)
        BY <3>5, <4>1 DEF Made, data
      <4>3. QED
        BY <2>5, <3>3, <4>2, TakeDelta
    <3> HIDE DEF d
    <3>7. done \in Assembly /\ done.calls = Append(calls, Made(i)) /\ done.current = None
      BY <3>4, <3>6, TakeEnd DEF done
    <3>8. Goes(done, heard + 1)
      BY <1>3, <2>3, <2>7, <3>7, BlockRead
    <3>9. QED
      BY <3>2, <3>8 DEF b
  <2>8. CASE ~IsCall(i)
    <3>1. Parse(w) = <<E("text_delta", 0, data)>>
      BY <2>4, <2>6, <2>8 DEF ParseGoogle
    <3> DEFINE e == E("text_delta", 0, data)
    <3>2. b = Take(asm, e)
      BY <2>3, <3>1, TakeOne DEF w
    <3> HIDE DEF b
    <3>3. b \in Assembly /\ b.calls = calls /\ b.current = None
      BY <1>3, <2>3, <2>5, <3>2, TakeText
    <3>4. Goes(b, heard + 1)
      BY <1>3, <2>3, <2>8, <3>3, BlockRead
    <3>5. QED
      BY <3>4 DEF b
  <2>9. QED
    BY <2>7, <2>8
<1>8. protocol \in {"anthropic", "google"}
  BY StreamAssumption
<1>9. QED
  BY <1>6, <1>7, <1>8

LEMMA Hears ==
  ASSUME reply \in Replies, protocol \in Protocols, protocol # "openai", asm \in Assembly,
         heard \in Nat, heard < Len(Wire), Goes(asm, heard)
  PROVE  Goes(TakeAll(asm, Parse(Wire[heard + 1])), heard + 1)
<1>1. PICK k \in 0..Len(reply) : At(k, asm, heard)
  BY DEF Goes
<1>2. k = Len(reply) \/ (k \in Nat /\ k < Len(reply))
  BY ReplyType
<1>3. QED
  BY <1>1, <1>2, HearsABlock, HearsTheEnd

\* The OpenAI parser says no end of a call: none is ever put aside.
LEMMA OpenAIHears ==
  ASSUME reply \in Replies, protocol \in Protocols, protocol = "openai", asm \in Assembly,
         heard \in Nat, heard < Len(Wire)
  PROVE  /\ TakeAll(asm, Parse(Wire[heard + 1])) \in Assembly
         /\ TakeAll(asm, Parse(Wire[heard + 1])).calls = asm.calls
<1> DEFINE w == Wire[heard + 1]
           b == TakeAll(asm, Parse(w))
<1>1. w \in OnWire
  <2>1. Wire \in Seq(OnWire)
    BY WireIs
  <2>2. heard + 1 \in 1..Len(Wire)
    BY <2>1
  <2>3. QED
    BY <2>1, <2>2
<1> HIDE DEF w
<1>2. Parse(w) = ParseOpenAI(w)
  BY DEF Parse
<1>3. w.block \in Nat /\ w.data \in Seq(Pair)
  BY <1>1 DEF OnWire
<1>4. CASE w.type = "call_chunk"
  <2>1. Parse(w) = <<E("tool_use_start", CallId(w.block), <<>>)>>
    BY <1>2, <1>4 DEF ParseOpenAI
  <2>2. b = Take(asm, E("tool_use_start", CallId(w.block), <<>>)) /\ CallId(w.block) \in Nat
    BY <1>3, <2>1, TakeOne, AnyCallId
  <2>3. QED
    BY <2>2, TakeStart, ZenonT(60) DEF w
<1>5. CASE w.type = "chunk"
  <2>1. CASE reply[w.block].kind = "thinking"
    <3>1. Parse(w) = <<>>
      BY <1>2, <1>5, <2>1 DEF ParseOpenAI
    <3>2. b = asm
      BY <3>1, TakeNone
    <3>3. QED
      BY <3>2 DEF w
  <2>2. CASE reply[w.block].kind # "thinking"
    <3>1. Parse(w) = DeltaOf(w.block, w.data)
      BY <1>2, <1>5, <2>2 DEF ParseOpenAI
    <3>2. CASE reply[w.block].kind = "text"
      <4>1. Parse(w) = <<E("text_delta", 0, w.data)>>
        BY <3>1, <3>2 DEF DeltaOf
      <4> DEFINE e == E("text_delta", 0, w.data)
      <4>2. b = Take(asm, e)
        BY <4>1, TakeOne
      <4> HIDE DEF b
      <4>3. b \in Assembly /\ b.calls = asm.calls
        BY <1>3, <4>2, TakeText
      <4>4. QED
        BY <4>3 DEF b, w
    <3>3. CASE reply[w.block].kind # "text"
      <4>1. Parse(w) = <<E("tool_use_delta", 0, w.data)>>
        BY <2>2, <3>1, <3>3 DEF DeltaOf
      <4>2. b = Take(asm, E("tool_use_delta", 0, w.data))
        BY <4>1, TakeOne
      <4> HIDE DEF b
      <4>3. b \in Assembly /\ b.calls = asm.calls
        BY <1>3, <4>2, TakeDelta
      <4>4. QED
        BY <4>3 DEF b, w
    <3>4. QED
      BY <3>2, <3>3
  <2>3. QED
    BY <2>1, <2>2
<1>6. CASE w.type \notin {"call_chunk", "chunk"}
  <2>1. \E id \in {"", "stop", "tool_use"} : Parse(w) = <<E("message_end", id, <<>>)>>
    BY <1>2, <1>6, ReasonType DEF ParseOpenAI
  <2>2. PICK id \in {"", "stop", "tool_use"} : Parse(w) = <<E("message_end", id, <<>>)>>
    BY <2>1
  <2>3. b = Take(asm, E("message_end", id, <<>>))
    BY <2>2, TakeOne
  <2> HIDE DEF b
  <2>4. b \in Assembly /\ b.calls = asm.calls
    BY <2>3, TakeFinish
  <2>5. QED
    BY <2>4 DEF b, w
<1>7. QED
  BY <1>4, <1>5, <1>6

-----------------------------------------------------------------------------
(* The invariant, and that what is put together are the model's calls.      *)

StreamTypes ==
  /\ protocol \in Protocols /\ reply \in Replies /\ asm \in Assembly
  /\ heard \in 0..Len(Wire)
  /\ stream \in {"open", "ended", "cut", "failed"}

InPlace ==
  /\ protocol = "openai" => asm.calls = <<>>
  /\ protocol # "openai" => Goes(asm, heard)
  /\ stream = "ended" => heard = Len(Wire)

StreamInv == StreamTypes /\ InPlace

LEMMA StreamInvInit == StreamInit => StreamInv
<1> SUFFICES ASSUME StreamInit PROVE StreamInv
  OBVIOUS
<1>1. protocol \in Protocols /\ reply \in Replies /\ heard = 0 /\ asm = Empty /\ stream = "open"
  BY DEF StreamInit
<1>2. asm \in Assembly /\ asm.calls = <<>> /\ asm.current = None
  <2>1. /\ Empty = [text |-> <<>>, calls |-> <<>>, current |-> None, finish |-> ""]
        /\ None \in ToolUse /\ <<>> \in Seq(Pair) /\ <<>> \in Seq(ToolUse)
    BY NoneType DEF Empty
  <2>2. Empty \in Assembly /\ Empty.calls = <<>> /\ Empty.current = None
    BY <2>1 DEF Assembly
  <2>3. QED
    BY <1>1, <2>2
<1>3. heard \in 0..Len(Wire)
  <2>1. Wire \in Seq(OnWire)
    BY <1>1, WireIs
  <2>2. QED
    BY <1>1, <2>1
<1>4. ASSUME protocol # "openai" PROVE Goes(asm, heard)
  <2>1. Reach(Blocks, 0) = <<>> /\ Reach(CallsOf, 0) = <<>> /\ 0 \in 0..Len(reply)
    BY <1>1, BlocksType, CallsOfType, ReachEnds, ReplyType
  <2>2. At(0, asm, Len(Reach(Blocks, 0)))
    BY <1>1, <1>2, <1>4, <2>1, NextBlock
  <2>3. Len(Reach(Blocks, 0)) = 0
    BY <2>1
  <2>4. QED
    BY <1>1, <1>2, <2>1, <2>2, <2>3 DEF Goes
<1>5. QED
  BY <1>1, <1>2, <1>3, <1>4 DEF StreamInv, StreamTypes, InPlace

\* While the reply and the parser are the same, so is all that was said of them.
LEMMA SameReply ==
  ASSUME protocol' = protocol, reply' = reply
  PROVE  /\ Wire' = Wire
         /\ \A a, h : Goes(a, h)' = Goes(a, h)
<1>1. Wire' = Wire
  BY DEF Wire, BlockOnWire, W, Pieces, Piece, IsCall
<1>2. Blocks' = Blocks /\ CallsOf' = CallsOf /\ (\A i : BlockOnWire(i)' = BlockOnWire(i))
  BY DEF Blocks, CallsOf, BlockOnWire, W, Pieces, Piece, IsCall, Made, CallId
<1>3. \A i, p : Half(i, p)' = Half(i, p)
  BY DEF Half, Pieces, Piece, IsCall, CallId
<1>4. QED
  BY <1>1, <1>2, <1>3, SMTT(30) DEF Goes, At

LEMMA StreamInvStep == StreamInv /\ [StreamNext]_streamVars => StreamInv'
<1> SUFFICES ASSUME StreamInv, [StreamNext]_streamVars PROVE StreamInv'
  OBVIOUS
<1>1. /\ protocol \in Protocols /\ reply \in Replies /\ asm \in Assembly
      /\ heard \in 0..Len(Wire) /\ heard \in Nat /\ Len(Wire) \in Nat
  <2>1. protocol \in Protocols /\ reply \in Replies /\ asm \in Assembly /\ heard \in 0..Len(Wire)
    BY DEF StreamInv, StreamTypes
  <2>2. Wire \in Seq(OnWire)
    BY <2>1, WireIs
  <2>3. QED
    BY <2>1, <2>2
<1>2. protocol' = protocol /\ reply' = reply
  BY DEF StreamNext, Hear, EndOfStream, CutOff, ErrorEvent, streamVars
<1>3. Wire' = Wire /\ \A a, h : Goes(a, h)' = Goes(a, h)
  BY <1>2, SameReply
<1>4. CASE Hear
  <2> DEFINE b == TakeAll(asm, Parse(Wire[heard + 1]))
  <2>1. stream = "open" /\ stream' = "open" /\ heard < Len(Wire) /\ heard' = heard + 1 /\ asm' = b
    BY <1>4 DEF Hear
  <2>2. protocol = "openai" => b \in Assembly /\ b.calls = asm.calls
    BY <1>1, <2>1, OpenAIHears
  <2>3. protocol # "openai" => Goes(b, heard + 1)
    <3>1. protocol # "openai" => Goes(asm, heard)
      BY DEF StreamInv, InPlace
    <3>2. QED
      BY <1>1, <2>1, <3>1, Hears
  <2> HIDE DEF b
  <2>4. b \in Assembly
    BY <2>2, <2>3 DEF Goes
  <2>5. heard + 1 \in 0..Len(Wire)
    BY <1>1, <2>1
  <2>6. StreamTypes'
    BY <1>1, <1>2, <1>3, <2>1, <2>4, <2>5 DEF StreamTypes
  <2>7. InPlace'
    <3>1. protocol = "openai" => b.calls = <<>>
      BY <2>2 DEF StreamInv, InPlace
    <3>2. protocol # "openai" => Goes(asm, heard)'
      BY <1>3, <2>1, <2>3
    <3>3. QED
      BY <1>2, <2>1, <3>1, <3>2 DEF InPlace
  <2>8. QED
    BY <2>6, <2>7 DEF StreamInv
<1>5. CASE EndOfStream \/ CutOff \/ ErrorEvent \/ UNCHANGED streamVars
  <2>1. /\ heard' = heard /\ asm' = asm
        /\ stream' \in {"open", "ended", "cut", "failed"}
        /\ stream' = "ended" => heard = Len(Wire)
    BY <1>5 DEF EndOfStream, CutOff, ErrorEvent, streamVars, StreamInv, StreamTypes, InPlace
  <2>2. Goes(asm, heard)' = Goes(asm, heard)
    BY <1>3, <2>1
  <2>3. QED
    BY <1>2, <1>3, <2>1, <2>2 DEF StreamInv, StreamTypes, InPlace
<1>6. QED
  BY <1>4, <1>5 DEF StreamNext

LEMMA AlwaysStreamInv == StreamSpec => []StreamInv
BY StreamInvInit, StreamInvStep, PTL DEF StreamSpec

\* The calls put together are the first the model made, and all of them at the end.
LEMMA ModelsCalls == StreamInv => CallsAreTheModels
<1> SUFFICES ASSUME StreamInv PROVE CallsAreTheModels
  OBVIOUS
<1>1. /\ protocol \in Protocols /\ reply \in Replies /\ asm \in Assembly
      /\ CallsOf \in Seq(Seq(ToolUse)) /\ Len(CallsOf) = Len(reply) /\ Len(reply) \in Nat
      /\ Blocks \in Seq(Seq(OnWire)) /\ Len(Blocks) = Len(reply)
      /\ CallsSaid = FlattenSeq(CallsOf)
  BY ReplyType, CallsOfType, BlocksType DEF StreamInv, StreamTypes
<1>2. CallsSaid \in Seq(ToolUse) /\ CallsSaid = Reach(CallsOf, Len(reply))
  BY <1>1, FlattenType, ReachEnds
<1>3. CASE protocol = "openai"
  <2>1. asm.calls = <<>>
    BY <1>3 DEF StreamInv, InPlace
  <2>2. IsPrefix(<<>>, CallsSaid)
    BY <1>2 DEF IsPrefix
  <2>3. QED
    BY <1>3, <2>1, <2>2 DEF CallsAreTheModels
<1>4. CASE protocol # "openai"
  <2>1. PICK k \in 0..Len(reply) : At(k, asm, heard)
    BY <1>4 DEF StreamInv, InPlace, Goes
  <2>2. asm.calls = Reach(CallsOf, k) /\ Reach(CallsOf, k) \in Seq(ToolUse)
    BY <1>1, <2>1, ReachType DEF At
  <2>3. Extends(ToolUse, CallsOf, k, Len(reply))
    BY <1>1, ReachGrows
  <2>4. PICK rest \in Seq(ToolUse) : CallsSaid = Reach(CallsOf, k) \o rest
    BY <1>2, <2>3 DEF Extends
  <2>5. IsPrefix(asm.calls, CallsSaid)
    <3> DEFINE u == Reach(CallsOf, k)
    <3>1. u \in Seq(ToolUse)
      BY <2>2
    <3> HIDE DEF u
    <3>2. IsPrefix(u, u \o rest)
      BY <3>1 DEF IsPrefix
    <3>3. QED
      BY <2>2, <2>4, <3>2 DEF u
  <2>6. ASSUME stream = "ended" PROVE asm.calls = CallsSaid
    <3>1. heard = Len(Wire)
      BY <2>6 DEF StreamInv, InPlace
    <3>2. CASE k < Len(reply)
      <4> DEFINE u == Len(Reach(Blocks, k))
                 n == Len(BlockOnWire(k + 1))
                 all == FlattenSeq(Blocks)
      <4>1. k \in Nat /\ Blocks[k + 1] = BlockOnWire(k + 1)
        BY <1>1, <3>2 DEF Blocks
      <4>2. u + n <= Len(all)
        BY <1>1, <3>2, <4>1, AfterThese
      <4>3. heard < u + n
        BY <2>1, <3>2 DEF At
      <4>4. all \in Seq(OnWire) /\ Wire = all \o <<W("finish", 0, <<>>)>>
        BY <1>1, <1>4, WireIs
      <4>5. Reach(Blocks, k) \in Seq(OnWire) /\ BlockOnWire(k + 1) \in Seq(OnWire)
        BY <1>1, <3>2, ReachType, BlockType
      <4>6. u \in Nat /\ n \in Nat
        BY <4>5
      <4> HIDE DEF u, n, all
      <4>7. Len(Wire) = Len(all) + 1 /\ Len(all) \in Nat
        BY <4>4
      <4>8. QED
        BY <3>1, <4>2, <4>3, <4>6, <4>7
    <3>3. k = Len(reply) \/ k < Len(reply)
      BY <1>1
    <3>4. QED
      BY <1>2, <2>2, <3>2, <3>3
  <2>7. QED
    BY <2>5, <2>6 DEF CallsAreTheModels
<1>5. QED
  BY <1>3, <1>4

-----------------------------------------------------------------------------
(* The next request.                                                        *)

Note == [kind : {"text", "call", "result"}, id : Nat]
TextTold == IF asm.text = <<>> THEN <<>> ELSE <<Told("text", 0)>>
CallsTold(kind) == [i \in 1..Len(asm.calls) |-> Told(kind, asm.calls[i].id)]

LEMMA TextToldType ==
  /\ TextTold \in Seq(Note) /\ Len(TextTold) \in Nat
  /\ \A i \in 1..Len(TextTold) : TextTold[i].kind = "text"
<1>1. Told("text", 0) \in Note /\ Told("text", 0).kind = "text"
  BY DEF Told, Note
<1>2. QED
  BY <1>1 DEF TextTold

LEMMA CallsToldType ==
  ASSUME asm \in Assembly, NEW kind \in {"call", "result"}
  PROVE  /\ CallsTold(kind) \in Seq(Note) /\ Len(CallsTold(kind)) = Len(asm.calls)
         /\ Len(asm.calls) \in Nat
         /\ \A i \in 1..Len(asm.calls) :
              /\ CallsTold(kind)[i].kind = kind /\ CallsTold(kind)[i].id = asm.calls[i].id
              /\ asm.calls[i].id \in Nat
<1> DEFINE s == CallsTold(kind)
           n == Len(asm.calls)
<1>1. asm.calls \in Seq(ToolUse)
  BY DEF Assembly
<1>2. n \in Nat /\ \A i \in 1..n : asm.calls[i] \in ToolUse
  BY <1>1
<1>3. \A i \in 1..n : s[i] = Told(kind, asm.calls[i].id) /\ asm.calls[i].id \in Nat
  BY <1>2 DEF CallsTold, ToolUse
<1>4. s = [i \in 1..n |-> s[i]]
  BY DEF CallsTold
<1> HIDE DEF s
<1>5. \A i \in 1..n : s[i] \in Note /\ s[i].kind = kind /\ s[i].id = asm.calls[i].id
  <2> SUFFICES ASSUME NEW i \in 1..n
               PROVE  s[i] \in Note /\ s[i].kind = kind /\ s[i].id = asm.calls[i].id
    OBVIOUS
  <2> DEFINE d == asm.calls[i].id
  <2>1. s[i] = Told(kind, d) /\ d \in Nat
    BY <1>3
  <2> HIDE DEF d
  <2>2. s[i] \in Note /\ s[i].kind = kind /\ s[i].id = d
    BY <2>1 DEF Told, Note
  <2>3. QED
    BY <2>2 DEF d
<1> HIDE DEF n
<1>6. s \in Seq(Note) /\ Len(s) = n
  BY <1>2, <1>4, <1>5, FunctionIsSequence
<1>7. QED
  BY <1>2, <1>3, <1>5, <1>6 DEF s, n

\* The calls on the wire: those of Google have lost their ids.
CallsSent == [i \in 1..Len(asm.calls) |-> Sent(Told("call", asm.calls[i].id))]

LEMMA CallsSentType ==
  ASSUME asm \in Assembly
  PROVE  /\ CallsSent \in Seq(Note) /\ Len(CallsSent) = Len(asm.calls)
         /\ \A i \in 1..Len(asm.calls) :
              /\ CallsSent[i] = Sent(CallsTold("call")[i]) /\ CallsSent[i].kind = "call"
              /\ protocol # "google" => CallsSent[i].id = asm.calls[i].id
<1> DEFINE s == CallsSent
           n == Len(asm.calls)
<1>1. n \in Nat /\ \A i \in 1..n : asm.calls[i].id \in Nat
  BY CallsToldType
<1>2. \A i \in 1..n : s[i] = Sent(Told("call", asm.calls[i].id)) /\ s[i] = Sent(CallsTold("call")[i])
  BY DEF CallsSent, CallsTold
<1>3. s = [i \in 1..n |-> s[i]]
  BY DEF CallsSent
<1> HIDE DEF s
<1>4. ASSUME NEW i \in 1..n
      PROVE  s[i] \in Note /\ s[i].kind = "call" /\ (protocol # "google" => s[i].id = asm.calls[i].id)
  <2> DEFINE d == asm.calls[i].id
  <2>1. s[i] = Sent(Told("call", d)) /\ d \in Nat
    BY <1>1, <1>2
  <2> HIDE DEF d
  <2>2. Told("call", d) \in Note /\ Told("call", d).kind = "call" /\ Told("call", d).id = d
    BY <2>1 DEF Told, Note
  <2>3. Told("call", 0) \in Note /\ Told("call", 0).kind = "call"
    BY DEF Told, Note
  <2>4. QED
    BY <2>1, <2>2, <2>3 DEF Sent, d
<1> HIDE DEF n
<1>5. s \in Seq(Note) /\ Len(s) = n
  BY <1>1, <1>3, <1>4, FunctionIsSequence
<1>6. QED
  BY <1>2, <1>4, <1>5 DEF s, n

\* Of a message all parts of which the provider takes every part is sent.
LEMMA AllParts ==
  ASSUME NEW m, m.parts \in Seq(Note), \A i \in 1..Len(m.parts) : Has(m.role, m.parts[i]),
         NEW sent \in Seq(Note), Len(sent) = Len(m.parts),
         \A i \in 1..Len(sent) : sent[i] = Sent(m.parts[i])
  PROVE  ConvertMessage(m) = sent
<1>1. DOMAIN m.parts = 1..Len(m.parts) /\ DOMAIN sent = DOMAIN m.parts
  OBVIOUS
<1>2. [i \in DOMAIN m.parts |-> IF Has(m.role, m.parts[i]) THEN <<Sent(m.parts[i])>> ELSE <<>>]
        = [i \in DOMAIN sent |-> <<sent[i]>>]
  BY <1>1
<1>3. FlattenSeq([i \in DOMAIN sent |-> <<sent[i]>>]) = sent
  BY FlattenSingles
<1>4. QED
  BY <1>2, <1>3 DEF ConvertMessage

LEMMA OneAndOne ==
  ASSUME NEW U, NEW x \in U, NEW y \in U
  PROVE  <<y>> \o <<>> = <<y>> /\ <<x>> \o <<y>> = <<x, y>>
<1>1. <<x>> \in Seq(U) /\ <<y>> \in Seq(U) /\ <<x, y>> \in Seq(U)
  OBVIOUS
<1>2. <<y>> \o <<>> = <<y>>
  BY <1>1
<1>3. <<x>> \o <<y>> = Append(<<x>>, y)
  BY <1>1
<1>4. Append(<<x>>, y) = <<x, y>>
  <2> DEFINE z == Append(<<x>>, y)
             w == <<x, y>>
  <2>1. z \in Seq(U) /\ Len(z) = 2 /\ z[1] = x /\ z[2] = y
    BY <1>1
  <2>2. w \in Seq(U) /\ Len(w) = 2 /\ w[1] = x /\ w[2] = y
    BY <1>1
  <2> HIDE DEF z, w
  <2>3. \A i \in 1..2 : z[i] = w[i]
    <3>1. \A i \in 1..2 : i = 1 \/ i = 2
      OBVIOUS
    <3>2. QED
      BY <2>1, <2>2, <3>1
  <2>4. z = w
    BY <2>1, <2>2, <2>3
  <2>5. QED
    BY <2>4 DEF z, w
<1>5. QED
  BY <1>2, <1>3, <1>4

LEMMA FlattenTwo ==
  ASSUME NEW T, NEW s \in Seq(T), NEW t \in Seq(T)
  PROVE  FlattenSeq(<<s, t>>) = s \o t
<1>1. FlattenSeq(<<s>> \o <<t>>) = s \o FlattenSeq(<<t>>)
  <2>1. <<t>> \in Seq(Seq(T))
    OBVIOUS
  <2>2. QED
    BY <2>1, FlattenPrepend
<1>2. FlattenSeq(<<t>> \o <<>>) = t \o FlattenSeq(<<>>)
  <2>1. <<>> \in Seq(Seq(T))
    OBVIOUS
  <2>2. QED
    BY <2>1, FlattenPrepend
<1>3. <<t>> \o <<>> = <<t>> /\ t \o <<>> = t /\ <<s>> \o <<t>> = <<s, t>>
  <2>1. t \o <<>> = t
    OBVIOUS
  <2>2. <<t>> \o <<>> = <<t>> /\ <<s>> \o <<t>> = <<s, t>>
    BY OneAndOne
  <2>3. QED
    BY <2>1, <2>2
<1>4. QED
  BY <1>1, <1>2, <1>3, FlattenEmpty

LEMMA RequestIs ==
  ASSUME asm \in Assembly
  PROVE  Request = (TextTold \o CallsSent) \o CallsTold("result")
<1> DEFINE s == TextTold
           t == CallsTold("call")
           u == CallsSent
           b == CallsTold("result")
           x == [role |-> "assistant", parts |-> s \o t]
           y == [role |-> "user", parts |-> b]
<1>1. asm.calls \in Seq(ToolUse)
  BY DEF Assembly
<1>2. DOMAIN asm.calls = 1..Len(asm.calls)
  BY <1>1
<1>3. Conversation = <<x, y>>
  BY <1>2, Zenon DEF Conversation, TextTold, CallsTold
<1>4. /\ s \in Seq(Note) /\ Len(s) \in Nat /\ \A i \in 1..Len(s) : s[i].kind = "text"
      /\ t \in Seq(Note) /\ Len(t) \in Nat /\ \A i \in 1..Len(t) : t[i].kind = "call"
      /\ u \in Seq(Note) /\ Len(u) = Len(t) /\ \A i \in 1..Len(t) : u[i] = Sent(t[i])
      /\ b \in Seq(Note) /\ \A i \in 1..Len(b) : b[i].kind = "result"
  BY TextToldType, CallsToldType, CallsSentType
<1>5. x.role = "assistant" /\ x.parts = s \o t /\ y.role = "user" /\ y.parts = b
  OBVIOUS
<1> HIDE DEF s, t, u, b, x, y
<1>6. /\ s \o t \in Seq(Note) /\ Len(s \o t) = Len(s) + Len(t)
      /\ \A i \in 1..Len(s) : (s \o t)[i] = s[i]
      /\ \A i \in 1..Len(t) : (s \o t)[Len(s) + i] = t[i]
  BY <1>4, PutTogether
<1>7. /\ s \o u \in Seq(Note) /\ Len(s \o u) = Len(s) + Len(t)
      /\ \A i \in 1..Len(s) : (s \o u)[i] = s[i]
      /\ \A i \in 1..Len(t) : (s \o u)[Len(s) + i] = u[i]
  <2>1. /\ s \o u \in Seq(Note) /\ Len(s \o u) = Len(s) + Len(u)
        /\ \A i \in 1..Len(s) : (s \o u)[i] = s[i]
        /\ \A i \in 1..Len(u) : (s \o u)[Len(s) + i] = u[i]
    <3>1. s \in Seq(Note) /\ u \in Seq(Note)
      BY <1>4
    <3>2. QED
      BY <3>1, PutTogether
  <2>2. Len(u) = Len(t)
    BY <1>4
  <2>3. QED
    BY <2>1, <2>2
<1>8. ASSUME NEW i \in 1..Len(s) + Len(t)
      PROVE  (s \o t)[i].kind \in {"text", "call"} /\ (s \o u)[i] = Sent((s \o t)[i])
  <2>1. i \in 1..Len(s) \/ (i - Len(s) \in 1..Len(t) /\ i = Len(s) + (i - Len(s)))
    BY <1>4
  <2>2. CASE i \in 1..Len(s)
    BY <1>4, <1>6, <1>7, <2>2 DEF Sent
  <2>3. CASE i - Len(s) \in 1..Len(t) /\ i = Len(s) + (i - Len(s))
    BY <1>4, <1>6, <1>7, <2>3
  <2>4. QED
    BY <2>1, <2>2, <2>3
<1>9. \A i \in 1..Len(x.parts) : Has(x.role, x.parts[i])
  BY <1>5, <1>6, <1>8 DEF Has
<1>10. \A i \in 1..Len(y.parts) : Has(y.role, y.parts[i])
  BY <1>4, <1>5 DEF Has
<1>11. ConvertMessage(x) = s \o u
  <2> DEFINE sent == s \o u
             kept == s \o t
  <2>1. /\ kept \in Seq(Note) /\ sent \in Seq(Note) /\ Len(sent) = Len(kept)
        /\ \A i \in 1..Len(sent) : sent[i] = Sent(kept[i])
    BY <1>6, <1>7, <1>8
  <2>2. x.parts = kept
    BY <1>5
  <2> HIDE DEF sent, kept
  <2>3. ConvertMessage(x) = sent
    BY <1>9, <2>1, <2>2, AllParts
  <2>4. QED
    BY <2>3 DEF sent
<1>12. ConvertMessage(y) = b
  <2>1. \A i \in 1..Len(b) : b[i] = Sent(b[i])
    BY <1>4 DEF Sent
  <2>2. QED
    BY <1>4, <1>5, <1>10, <2>1, AllParts
<1>13. [i \in DOMAIN Conversation |-> ConvertMessage(Conversation[i])] = <<s \o u, b>>
  BY SMTT(30), <1>3, <1>11, <1>12
<1>14. FlattenSeq(<<s \o u, b>>) = (s \o u) \o b
  BY <1>4, <1>7, FlattenTwo
<1>15. QED
  BY <1>13, <1>14 DEF Request, s, u, b

\* The ids of the parts of one kind, in any sequence of parts.
PickedFrom(s, kind) == [i \in DOMAIN s |-> IF s[i].kind = kind THEN <<s[i].id>> ELSE <<>>]
Picked(s, kind) == FlattenSeq(PickedFrom(s, kind))

LEMMA PickedFromType ==
  ASSUME NEW s \in Seq(Note), NEW kind
  PROVE  /\ PickedFrom(s, kind) \in Seq(Seq(Nat)) /\ Len(PickedFrom(s, kind)) = Len(s)
         /\ \A i \in 1..Len(s) : PickedFrom(s, kind)[i] = IF s[i].kind = kind THEN <<s[i].id>> ELSE <<>>
<1> DEFINE p == PickedFrom(s, kind)
           n == Len(s)
<1>1. DOMAIN s = 1..n /\ n \in Nat /\ \A i \in 1..n : s[i] \in Note
  OBVIOUS
<1>2. \A i \in 1..n : s[i].id \in Nat
  BY <1>1 DEF Note
<1>3. p = [i \in 1..n |-> p[i]] /\ \A i \in 1..n : p[i] = IF s[i].kind = kind THEN <<s[i].id>> ELSE <<>>
  BY <1>1 DEF PickedFrom
<1> HIDE DEF p
<1>4. \A i \in 1..n : p[i] \in Seq(Nat)
  <2>1. \A x \in Nat : <<x>> \in Seq(Nat)
    OBVIOUS
  <2>2. <<>> \in Seq(Nat)
    OBVIOUS
  <2>3. QED
    BY <1>2, <1>3, <2>1, <2>2
<1> HIDE DEF n
<1>5. p \in Seq(Seq(Nat)) /\ Len(p) = n
  BY <1>1, <1>3, <1>4, FunctionIsSequence
<1>6. QED
  BY <1>3, <1>5 DEF p, n

LEMMA PickedBoth ==
  ASSUME NEW s \in Seq(Note), NEW t \in Seq(Note), NEW kind
  PROVE  Picked(s \o t, kind) = Picked(s, kind) \o Picked(t, kind)
<1> DEFINE p == PickedFrom(s, kind)
           q == PickedFrom(t, kind)
           u == PickedFrom(s \o t, kind)
<1>1. s \o t \in Seq(Note) /\ Len(s \o t) = Len(s) + Len(t) /\ Len(s) \in Nat /\ Len(t) \in Nat
  OBVIOUS
<1>2. /\ p \in Seq(Seq(Nat)) /\ Len(p) = Len(s) /\ q \in Seq(Seq(Nat)) /\ Len(q) = Len(t)
      /\ u \in Seq(Seq(Nat)) /\ Len(u) = Len(s) + Len(t)
  BY <1>1, PickedFromType
<1>3. /\ \A i \in 1..Len(s) : p[i] = IF s[i].kind = kind THEN <<s[i].id>> ELSE <<>>
      /\ \A i \in 1..Len(t) : q[i] = IF t[i].kind = kind THEN <<t[i].id>> ELSE <<>>
      /\ \A i \in 1..Len(s \o t) : u[i] = IF (s \o t)[i].kind = kind THEN <<(s \o t)[i].id>> ELSE <<>>
  BY <1>1, PickedFromType
<1> HIDE DEF p, q, u
<1>4. /\ \A i \in 1..Len(s) : u[i] = p[i]
      /\ \A i \in 1..Len(t) : u[Len(s) + i] = q[i]
  <2>1. \A i \in 1..Len(s) : (s \o t)[i] = s[i] /\ i \in 1..Len(s \o t)
    BY <1>1
  <2>2. \A i \in 1..Len(t) : (s \o t)[Len(s) + i] = t[i] /\ Len(s) + i \in 1..Len(s \o t)
    BY <1>1
  <2>3. QED
    BY <1>3, <2>1, <2>2, ZenonT(60)
<1>5. u = p \o q
  <2>1. /\ p \o q \in Seq(Seq(Nat)) /\ Len(p \o q) = Len(s) + Len(t)
        /\ \A i \in 1..Len(s) : (p \o q)[i] = p[i]
        /\ \A i \in 1..Len(t) : (p \o q)[Len(s) + i] = q[i]
    <3> DEFINE X == Seq(Nat)
    <3>1. p \in Seq(X) /\ q \in Seq(X)
      BY <1>2
    <3> HIDE DEF X
    <3>2. p \o q \in Seq(X)
      BY <3>1
    <3>3. Len(p \o q) = Len(p) + Len(q)
      BY <3>1
    <3>4. \A i \in 1..Len(p) : (p \o q)[i] = p[i]
      BY <3>1
    <3>5. \A i \in 1..Len(q) : (p \o q)[Len(p) + i] = q[i]
      BY <3>1
    <3>6. QED
      BY <1>2, <3>2, <3>3, <3>4, <3>5 DEF X
  <2>2. ASSUME NEW i \in 1..(Len(s) + Len(t)) PROVE u[i] = (p \o q)[i]
    <3>1. i \in 1..Len(s) \/ \E j \in 1..Len(t) : i = Len(s) + j
      <4>1. i \in 1..Len(s) \/ (i - Len(s) \in 1..Len(t) /\ i = Len(s) + (i - Len(s)))
        BY <1>1
      <4>2. QED
        BY <4>1
    <3>2. QED
      BY <1>4, <2>1, <3>1
  <2> DEFINE v == p \o q
  <2> HIDE DEF v
  <2>3. v \in Seq(Seq(Nat)) /\ Len(v) = Len(s) + Len(t) /\ \A i \in 1..(Len(s) + Len(t)) : u[i] = v[i]
    BY <2>1, <2>2 DEF v
  <2>4. u = v
    BY <1>1, <1>2, <2>3
  <2>5. QED
    BY <2>4 DEF v
<1>6. QED
  BY <1>2, <1>5, FlattenBoth DEF Picked, p, q, u

\* Of parts that are all of another kind nothing is picked; of parts that are
\* all of this kind, the ids.
LEMMA PickedNone ==
  ASSUME NEW s \in Seq(Note), NEW kind, \A i \in 1..Len(s) : s[i].kind # kind
  PROVE  Picked(s, kind) = <<>>
<1> DEFINE p == PickedFrom(s, kind)
           n == Len(s)
<1>1. DOMAIN s = 1..n /\ n \in Nat
  OBVIOUS
<1>2. p = [i \in 1..n |-> p[i]] /\ \A i \in 1..n : p[i] = <<>>
  BY <1>1 DEF PickedFrom
<1> HIDE DEF p, n
<1>3. \A i \in 1..n : p[i] \in Seq({})
  <2>1. <<>> \in Seq({})
    OBVIOUS
  <2>2. QED
    BY <1>2, <2>1
<1>4. p \in Seq(Seq({}))
  BY <1>1, <1>2, <1>3, FunctionIsSequence
<1>5. FlattenSeq(p) \in Seq({})
  BY <1>4, FlattenType
<1>6. \A t \in Seq({}) : t = <<>>
  OBVIOUS
<1>7. QED
  BY <1>5, <1>6 DEF Picked, p

LEMMA PickedAll ==
  ASSUME NEW s \in Seq(Note), NEW kind, \A i \in 1..Len(s) : s[i].kind = kind
  PROVE  Picked(s, kind) = [i \in 1..Len(s) |-> s[i].id]
<1> DEFINE ids == [i \in 1..Len(s) |-> s[i].id]
           n == Len(s)
<1>1. DOMAIN s = 1..n /\ n \in Nat /\ \A i \in 1..n : s[i] \in Note
  OBVIOUS
<1>2. \A i \in 1..n : ids[i] = s[i].id /\ s[i].id \in Nat
  BY <1>1 DEF Note
<1>3. ids = [i \in 1..n |-> ids[i]]
  OBVIOUS
<1>4. PickedFrom(s, kind) = [i \in 1..n |-> <<s[i].id>>]
  BY <1>1 DEF PickedFrom
<1> HIDE DEF ids, n
<1>5. ids \in Seq(Nat) /\ Len(ids) = n
  BY <1>1, <1>2, <1>3, FunctionIsSequence
<1>6. DOMAIN ids = 1..n
  BY <1>5
<1>7. [i \in DOMAIN ids |-> <<ids[i]>>] = [i \in 1..n |-> <<s[i].id>>]
  BY <1>2, <1>6
<1>8. FlattenSeq([i \in DOMAIN ids |-> <<ids[i]>>]) = ids
  BY <1>5, FlattenSingles
<1>9. QED
  BY <1>4, <1>7, <1>8 DEF Picked, ids

LEMMA IdsOfIs ==
  ASSUME asm \in Assembly
  PROVE  /\ IdsOf("call") = [i \in 1..Len(asm.calls) |-> CallsSent[i].id]
         /\ IdsOf("result") = [i \in 1..Len(asm.calls) |-> asm.calls[i].id]
<1> DEFINE x == TextTold
           y == CallsSent
           z == CallsTold("result")
           n == Len(asm.calls)
           sent == [i \in 1..n |-> y[i].id]
           ids == [i \in 1..n |-> asm.calls[i].id]
<1>1. /\ x \in Seq(Note) /\ \A i \in 1..Len(x) : x[i].kind = "text"
      /\ y \in Seq(Note) /\ Len(y) = n /\ \A i \in 1..n : y[i].kind = "call"
      /\ z \in Seq(Note) /\ Len(z) = n /\ \A i \in 1..n : z[i].kind = "result" /\ z[i].id = asm.calls[i].id
  BY TextToldType, CallsToldType, CallsSentType
<1>2. Request = (x \o y) \o z
  BY RequestIs
<1>3. \A kind \in {"call", "result"} : IdsOf(kind) = Picked(Request, kind)
  BY DEF IdsOf, Picked, PickedFrom
<1>4. [i \in 1..Len(y) |-> y[i].id] = sent /\ [i \in 1..Len(z) |-> z[i].id] = ids
  BY <1>1
<1>5. sent \in Seq(Nat) /\ ids \in Seq(Nat)
  <2>1. n \in Nat /\ \A i \in 1..n : y[i] \in Note /\ z[i] \in Note /\ ids[i] = z[i].id
    BY <1>1, CallsToldType
  <2>2. \A i \in 1..n : sent[i] \in Nat /\ ids[i] \in Nat
    BY <2>1 DEF Note
  <2>3. sent = [i \in 1..n |-> sent[i]] /\ ids = [i \in 1..n |-> ids[i]]
    OBVIOUS
  <2> HIDE DEF sent, ids, n
  <2>4. QED
    BY <2>1, <2>2, <2>3, FunctionIsSequence
<1> HIDE DEF x, y, z, n, sent, ids
<1>6. x \o y \in Seq(Note)
  BY <1>1
<1>7. ASSUME NEW kind \in {"call", "result"}
      PROVE  IdsOf(kind) = (<<>> \o Picked(y, kind)) \o Picked(z, kind)
  <2>1. Picked((x \o y) \o z, kind) = Picked(x \o y, kind) \o Picked(z, kind)
    BY <1>1, <1>6, PickedBoth
  <2>2. Picked(x \o y, kind) = Picked(x, kind) \o Picked(y, kind)
    BY <1>1, PickedBoth
  <2>3. Picked(x, kind) = <<>>
    BY <1>1, PickedNone
  <2>4. QED
    BY <1>2, <1>3, <2>1, <2>2, <2>3
<1>8. Picked(y, "call") = sent /\ Picked(z, "call") = <<>>
  <2>1. \A i \in 1..Len(y) : y[i].kind = "call"
    BY <1>1
  <2>2. \A i \in 1..Len(z) : z[i].kind # "call"
    BY <1>1
  <2>3. QED
    BY <1>1, <1>4, <2>1, <2>2, PickedAll, PickedNone
<1>9. Picked(z, "result") = ids /\ Picked(y, "result") = <<>>
  <2>1. \A i \in 1..Len(z) : z[i].kind = "result"
    BY <1>1
  <2>2. \A i \in 1..Len(y) : y[i].kind # "result"
    BY <1>1
  <2>3. QED
    BY <1>1, <1>4, <2>1, <2>2, PickedAll, PickedNone
<1>10. (<<>> \o sent) \o <<>> = sent /\ (<<>> \o <<>>) \o ids = ids
  BY <1>5
<1>11. QED
  BY <1>7, <1>8, <1>9, <1>10 DEF sent, ids, n, y

LEMMA Answered == ASSUME asm \in Assembly PROVE ResultsAnswerCalls
<1> DEFINE x == TextTold
           y == CallsSent
           z == CallsTold("result")
<1>1. /\ x \in Seq(Note) /\ \A i \in 1..Len(x) : x[i].kind = "text"
      /\ y \in Seq(Note) /\ \A i \in 1..Len(y) : y[i].kind = "call"
      /\ z \in Seq(Note) /\ \A i \in 1..Len(z) : z[i].kind = "result"
  BY TextToldType, CallsToldType, CallsSentType
<1>2. Request = (x \o y) \o z
  BY RequestIs
<1> HIDE DEF x, y, z
<1>3. /\ Len(x) \in Nat /\ Len(y) \in Nat /\ Len(z) \in Nat
      /\ x \o y \in Seq(Note) /\ Len(x \o y) = Len(x) + Len(y)
      /\ \A i \in 1..Len(x) : (x \o y)[i] = x[i]
      /\ \A i \in 1..Len(y) : (x \o y)[Len(x) + i] = y[i]
  BY <1>1, PutTogether
<1> DEFINE v == x \o y
           m == Len(x) + Len(y)
<1>4. v \in Seq(Note) /\ Len(v) = m /\ m \in Nat
  BY <1>3
<1>5. \A i \in 1..m : v[i].kind # "result"
  <2> SUFFICES ASSUME NEW i \in 1..m PROVE v[i].kind # "result"
    OBVIOUS
  <2>1. i \in 1..Len(x) \/ (i - Len(x) \in 1..Len(y) /\ i = Len(x) + (i - Len(x)))
    BY <1>3
  <2>2. CASE i \in 1..Len(x)
    BY <1>1, <1>3, <2>2
  <2>3. CASE i - Len(x) \in 1..Len(y) /\ i = Len(x) + (i - Len(x))
    BY <1>1, <1>3, <2>3
  <2>4. QED
    BY <2>1, <2>2, <2>3
<1> HIDE DEF v, m
<1>6. /\ v \o z \in Seq(Note) /\ Len(v \o z) = m + Len(z)
      /\ \A i \in 1..m : (v \o z)[i] = v[i]
      /\ \A i \in 1..Len(z) : (v \o z)[m + i] = z[i]
  <2>1. v \in Seq(Note) /\ z \in Seq(Note)
    BY <1>1, <1>4
  <2>2. v \o z \in Seq(Note)
    BY <2>1
  <2>3. Len(v \o z) = Len(v) + Len(z)
    BY <2>1
  <2>4. \A i \in 1..Len(v) : (v \o z)[i] = v[i]
    BY <2>1
  <2>5. \A i \in 1..Len(z) : (v \o z)[Len(v) + i] = z[i]
    BY <2>1
  <2>6. QED
    BY <1>4, <2>2, <2>3, <2>4, <2>5
<1> DEFINE req == v \o z
<1>7. Request = req /\ DOMAIN req = 1..(m + Len(z))
  BY <1>2, <1>6 DEF v
<1> HIDE DEF req
<1>8. \A j \in 1..(m + Len(z)) : req[j].kind = "result" => j > m
  BY <1>3, <1>4, <1>5, <1>6 DEF req
<1>9. \A i \in 1..(m + Len(z)) : req[i].kind = "call" => i <= m
  <2> SUFFICES ASSUME NEW i \in 1..(m + Len(z)), i > m PROVE req[i].kind # "call"
    BY <1>3, <1>4
  <2>1. i - m \in 1..Len(z) /\ i = m + (i - m)
    BY <1>3, <1>4
  <2>2. req[i] = z[i - m]
    BY <1>6, <2>1 DEF req
  <2>3. QED
    BY <1>1, <2>1, <2>2
<1>10. \A i, j \in DOMAIN Request : Request[i].kind = "call" /\ Request[j].kind = "result" => i < j
  BY <1>3, <1>4, <1>7, <1>8, <1>9
<1>11. /\ IdsOf("result") = [i \in DOMAIN asm.calls |-> asm.calls[i].id]
       /\ Len(IdsOf("call")) = Len(IdsOf("result"))
       /\ protocol # "google" => IdsOf("call") = IdsOf("result")
  <2>1. asm.calls \in Seq(ToolUse)
    BY DEF Assembly
  <2>2. DOMAIN asm.calls = 1..Len(asm.calls) /\ Len(asm.calls) \in Nat
    BY <2>1
  <2>3. \A i \in 1..Len(asm.calls) : protocol # "google" => CallsSent[i].id = asm.calls[i].id
    BY CallsSentType
  <2>4. QED
    BY <2>2, <2>3, IdsOfIs
<1>12. QED
  BY <1>10, <1>11 DEF ResultsAnswerCalls

\* However a response is cut, and with whatever around them, the calls that run
\* are the model's, whole, in its order and each once; the next request has a
\* result for each, after the calls and in their order, by id too but for
\* Google (the parsers, processStream, and the three convertMessage).
THEOREM CallsSurvive == StreamSpec => []ToolCallsSurvive
<1>1. StreamInv => ToolCallsSurvive
  <2>1. StreamInv => asm \in Assembly
    BY DEF StreamInv, StreamTypes
  <2>2. StreamInv => ResultsAnswerCalls
    BY <2>1, Answered
  <2>3. QED
    BY <2>2, ModelsCalls DEF ToolCallsSurvive
<1>2. QED
  BY <1>1, AlwaysStreamInv, PTL

\* The OpenAI parser says where a call begins and never where it ends
\* (openai.go:304-377), and processStream puts a call aside at its end only
\* (agent.go:350-354): no call of an OpenAI model is ever run.
THEOREM OpenAIRunsNothing == StreamSpec => [](protocol = "openai" => asm.calls = <<>>)
<1>1. StreamInv => (protocol = "openai" => asm.calls = <<>>)
  BY DEF StreamInv, InPlace
<1>2. QED
  BY <1>1, AlwaysStreamInv, PTL

\* The types of a stream's state: nothing is heard beyond the wire.
THEOREM StreamTypeCorrect == StreamSpec => []StreamTypeOK
<1>1. StreamInv => StreamTypeOK
  BY DEF StreamInv, StreamTypes, StreamTypeOK, Assembly
<1>2. QED
  BY <1>1, AlwaysStreamInv, PTL

-----------------------------------------------------------------------------
(* The components side by side.                                             *)

\* A behaviour of all of them is one of each: it steps or it rests.
LEMMA EachBehaves ==
  Spec => /\ SnapSpec /\ FeedSpec /\ ListingSpec /\ SessSpec
          /\ MemSpec /\ ConfigSpec /\ StreamSpec /\ SkillSpec
<1>1. Init => /\ SnapInit /\ FeedInit /\ ListingInit /\ SessInit
              /\ MemInit /\ ConfigInit /\ StreamInit /\ SkillInit
  BY DEF Init
<1>2. [Next]_vars => /\ [SnapNext]_snapVars /\ [FeedNext]_feedVars
                     /\ [ListingNext]_listingVars /\ [SessNext]_sessVars
                     /\ [MemNext]_memVars /\ [ConfigNext]_configVars
                     /\ [StreamNext]_streamVars /\ [SkillNext]_skillVars
  BY DEF Next, vars
<1>3. QED
  BY <1>1, <1>2, PTL
  DEF Spec, SnapSpec, FeedSpec, ListingSpec, SessSpec, MemSpec, ConfigSpec, StreamSpec, SkillSpec

\* Type correctness of every component, whichever of them take steps, for any
\* values of their constants; channels, history and listing keep their bounds.
THEOREM AllTypeCorrect == Spec => []TypesOK
BY EachBehaves, SnapTypeCorrect, FeedTypeCorrect, HistoryBounded, SessTypeCorrect,
   MemTypeCorrect, ConfigTypeCorrect, StreamTypeCorrect, SkillTypeCorrect, PTL DEF TypesOK
=============================================================================
