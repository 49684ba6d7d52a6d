---------------------------- MODULE EventFeedProofs ---------------------------
(***************************************************************************)
(* Proofs about EventFeed, for any number of publishers, events and         *)
(* watchers, and any capacity of the channels.                              *)
(***************************************************************************)
EXTENDS EventFeed, SequenceTheorems, TLAPS

\* What a watcher has of a publisher has been published, and not while it is
\* still to be sent.
NotAhead ==
  \A w \in Watchers : \A i \in 1..Len(Received(w)) :
    LET p == Received(w)[i][1]
    IN  /\ Received(w)[i][2] <= published[p]
        /\ w \in sending[p] => Received(w)[i][2] < published[p]

\* Who watches is subscribed; who is sent something is sent a published event.
Subscribed ==
  /\ \A w \in Watchers : watcher[w] = "watching" => \E id \in DOMAIN subs : subs[id] = w
  /\ \A p \in Publishers : sending[p] # {} => published[p] >= 1

FeedInv == FeedTypeOK /\ NotAhead /\ Subscribed /\ FeedIsFaithful

-----------------------------------------------------------------------------
(* Sequences.                                                               *)

\* What a client has is a sequence of events.
LEMMA ReceivedType ==
  ASSUME FeedTypeOK, NEW w \in Watchers
  PROVE  /\ Received(w) \in Seq(FeedEvents)
         /\ Len(Received(w)) \in Nat
         /\ \A i \in 1..Len(Received(w)) : Received(w)[i] \in FeedEvents
<1>1. shown[w] \in Seq(FeedEvents) /\ feed[w] \in Seq(FeedEvents)
  BY DEF FeedTypeOK
<1>2. Received(w) \in Seq(FeedEvents)
  BY <1>1, ConcatProperties DEF Received
<1>3. QED
  BY <1>2, LenProperties, ElementOfSeq

\* Taking the head of the channel moves nothing in what a client has.
LEMMA HeadMoves ==
  ASSUME NEW S, NEW s \in Seq(S), NEW t \in Seq(S), t # <<>>
  PROVE  /\ Append(s, Head(t)) \o Tail(t) = s \o t
         /\ Append(s, Head(t)) \in Seq(S) /\ Tail(t) \in Seq(S)
         /\ Len(Tail(t)) = Len(t) - 1
  BY SMT

\* A send goes behind what a client has.
LEMMA AppendMoves ==
  ASSUME NEW S, NEW s \in Seq(S), NEW t \in Seq(S), NEW e \in S
  PROVE  /\ s \o Append(t, e) = Append(s \o t, e)
         /\ Append(t, e) \in Seq(S) /\ Len(Append(t, e)) = Len(t) + 1
  BY SMT

-----------------------------------------------------------------------------
(* The invariant.                                                           *)

LEMMA FeedInvInit == FeedInit => FeedInv
<1> SUFFICES ASSUME FeedInit PROVE FeedInv
  OBVIOUS
<1>1. \A w \in Watchers : Received(w) = <<>>
  BY DEF FeedInit, Received
<1>2. FeedTypeOK
  BY FeedAssumption DEF FeedInit, FeedTypeOK, Range
<1>3. NotAhead /\ Subscribed
  BY <1>1 DEF FeedInit, NotAhead, Subscribed
<1>4. FeedKeepsOrder /\ LosslessUntilFull
  BY <1>1 DEF FeedInit, FeedKeepsOrder, LosslessUntilFull
<1>5. QED
  BY <1>2, <1>3, <1>4 DEF FeedInv, FeedIsFaithful

\* An event is published to whoever is subscribed.
LEMMA PublishInv == ASSUME FeedInv, NEW p \in Publishers, Publish(p) PROVE FeedInv'
<1> USE DEF FeedInv, FeedIsFaithful
<1>1. /\ sending[p] = {} /\ published[p] < EventsEach
      /\ published' = [published EXCEPT ![p] = @ + 1]
      /\ sending' = [sending EXCEPT ![p] = Range(subs)]
      /\ UNCHANGED <<subs, nextID, watcher, feed, shown, overflowed, since>>
  BY DEF Publish
<1>2. \A w \in Watchers : Received(w)' = Received(w)
  BY <1>1 DEF Received
<1>3. /\ published' \in [Publishers -> 0..EventsEach]
      /\ published'[p] = published[p] + 1 /\ \A q \in Publishers \ {p} : published'[q] = published[q]
      /\ sending'[p] = Range(subs) /\ \A q \in Publishers \ {p} : sending'[q] = sending[q]
  BY <1>1, FeedAssumption DEF FeedTypeOK
<1>4. FeedTypeOK'
  BY <1>1, <1>3 DEF FeedTypeOK
<1>5. NotAhead'
  <2> SUFFICES ASSUME NEW w \in Watchers, NEW i \in 1..Len(Received(w)),
                      NEW q, q = Received(w)[i][1]
               PROVE  /\ Received(w)[i][2] <= published'[q]
                      /\ w \in sending'[q] => Received(w)[i][2] < published'[q]
    BY <1>2 DEF NotAhead
  <2>1. q \in Publishers /\ Received(w)[i][2] \in Nat
    BY ReceivedType DEF FeedEvents
  <2>2. Received(w)[i][2] <= published[q] /\ (w \in sending[q] => Received(w)[i][2] < published[q])
    BY DEF NotAhead
  <2>3. published[q] \in Nat
    BY <2>1 DEF FeedTypeOK
  <2>4. QED
    BY <1>3, <2>1, <2>2, <2>3
<1>6. Subscribed'
  BY <1>1, <1>3 DEF Subscribed, FeedTypeOK
<1>7. FeedKeepsOrder'
  BY <1>2 DEF FeedKeepsOrder
<1>8. LosslessUntilFull'
  <2> SUFFICES ASSUME NEW w \in Watchers, NEW q \in Publishers,
                      watcher[w] = "watching", w \notin overflowed,
                      NEW n \in since[w][q] + 1 .. published'[q]
               PROVE  <<q, n>> \in Range(Received(w)) \/ (n = published'[q] /\ w \in sending'[q])
    BY <1>1, <1>2 DEF LosslessUntilFull
  <2>0. \A m \in since[w][q] + 1 .. published[q] :
          <<q, m>> \in Range(Received(w)) \/ (m = published[q] /\ w \in sending[q])
    BY DEF LosslessUntilFull
  <2>1. since[w][q] \in Nat /\ published[q] \in Nat
    BY DEF FeedTypeOK
  <2>2. CASE q # p
    BY <1>3, <2>0, <2>2
  <2>3. CASE q = p /\ n = published'[q]
    <3>1. w \in Range(subs)
      BY DEF Subscribed, Range
    <3>2. QED
      BY <1>3, <2>3, <3>1
  <2>4. CASE q = p /\ n # published'[q]
    <3>1. n \in since[w][q] + 1 .. published[q]
      BY <1>3, <2>1, <2>4
    <3>2. QED
      BY <1>1, <2>0, <2>4, <3>1
  <2>5. QED
    BY <2>2, <2>3, <2>4
<1>9. QED
  BY <1>4, <1>5, <1>6, <1>7, <1>8

\* An event is sent to one subscriber, or lost to it.
LEMMA SendInv == ASSUME FeedInv, NEW p \in Publishers, NEW w \in Watchers, SendTo(p, w) PROVE FeedInv'
<1> USE DEF FeedInv, FeedIsFaithful
<1> DEFINE e == <<p, published[p]>>
<1>1. /\ w \in sending[p] /\ sending' = [sending EXCEPT ![p] = @ \ {w}]
      /\ UNCHANGED <<published, subs, nextID, watcher, shown, since>>
  BY DEF SendTo
<1>2. /\ sending'[p] = sending[p] \ {w}
      /\ \A q \in Publishers \ {p} : sending'[q] = sending[q]
      /\ sending' \in [Publishers -> SUBSET Watchers]
  BY <1>1 DEF FeedTypeOK
<1>3. e \in FeedEvents /\ published[p] \in Nat
  BY <1>1 DEF Subscribed, FeedEvents, FeedTypeOK
<1>4. Subscribed'
  BY <1>1, <1>2 DEF Subscribed
<1>5. CASE feed' = [feed EXCEPT ![w] = Append(@, e)] /\ Len(feed[w]) < FeedCap /\ overflowed' = overflowed
  <2>1. feed[w] \in Seq(FeedEvents) /\ shown[w] \in Seq(FeedEvents)
    BY DEF FeedTypeOK
  <2>2. /\ Received(w)' = Append(Received(w), e)
        /\ Append(feed[w], e) \in Seq(FeedEvents) /\ Len(Append(feed[w], e)) = Len(feed[w]) + 1
    <3>1. Received(w)' = shown[w] \o Append(feed[w], e)
      BY <1>1, <1>5 DEF Received, FeedTypeOK
    <3>2. /\ shown[w] \o Append(feed[w], e) = Append(shown[w] \o feed[w], e)
          /\ Append(feed[w], e) \in Seq(FeedEvents) /\ Len(Append(feed[w], e)) = Len(feed[w]) + 1
      <4> HIDE DEF e
      <4>1. QED
        BY <1>3, <2>1, AppendMoves
    <3>3. QED
      BY <3>1, <3>2 DEF Received
  <2>3. \A v \in Watchers \ {w} : Received(v)' = Received(v)
    BY <1>1, <1>5 DEF Received, FeedTypeOK
  <2>4. Received(w) \in Seq(FeedEvents) /\ Len(Received(w)) \in Nat
    BY ReceivedType
  <2>5. /\ Len(Received(w)') = Len(Received(w)) + 1
        /\ Received(w)'[Len(Received(w)) + 1] = e
        /\ \A i \in 1..Len(Received(w)) : Received(w)'[i] = Received(w)[i]
    BY <1>3, <2>2, <2>4, AppendProperties
  <2>6. FeedTypeOK'
    <3>1. feed' \in [Watchers -> Seq(FeedEvents)]
      BY <1>5, <2>2 DEF FeedTypeOK
    <3>2. \A v \in Watchers : Len(feed'[v]) <= FeedCap
      BY <1>5, <2>1, <2>2, FeedAssumption, LenProperties DEF FeedTypeOK
    <3>3. QED
      BY <1>1, <1>2, <1>5, <3>1, <3>2 DEF FeedTypeOK
  <2>7. NotAhead'
    <3>1. ASSUME NEW v \in Watchers \ {w}, NEW i \in 1..Len(Received(v))
          PROVE  LET q == Received(v)[i][1]
                 IN  /\ Received(v)[i][2] <= published[q]
                     /\ v \in sending'[q] => Received(v)[i][2] < published[q]
      <4>1. Received(v)[i][1] \in Publishers
        BY ReceivedType DEF FeedEvents
      <4>2. QED
        BY <1>2, <4>1 DEF NotAhead
    <3>2. ASSUME NEW i \in 1..Len(Received(w))
          PROVE  LET q == Received(w)[i][1]
                 IN  /\ Received(w)[i][2] <= published[q]
                     /\ w \in sending'[q] => Received(w)[i][2] < published[q]
      <4>1. Received(w)[i][1] \in Publishers
        BY ReceivedType DEF FeedEvents
      <4>2. QED
        BY <1>2, <4>1 DEF NotAhead
    <3>3. e[2] <= published[p] /\ ~(w \in sending'[p])
      BY <1>2, <1>3
    <3>4. ASSUME NEW i \in 1..(Len(Received(w)) + 1)
          PROVE  LET q == Received(w)'[i][1]
                 IN  /\ Received(w)'[i][2] <= published[q]
                     /\ w \in sending'[q] => Received(w)'[i][2] < published[q]
      <4>1. CASE i = Len(Received(w)) + 1
        BY <2>5, <3>3, <4>1
      <4>2. CASE i \in 1..Len(Received(w))
        BY <2>5, <3>2, <4>2
      <4>3. QED
        BY <2>4, <4>1, <4>2
    <3>5. QED
      BY <1>1, <2>3, <2>5, <3>1, <3>4 DEF NotAhead
  <2>8. FeedKeepsOrder'
    <3>1. ASSUME NEW i \in 1..(Len(Received(w)) + 1), NEW j \in 1..(Len(Received(w)) + 1), i < j,
                 Received(w)'[i][1] = Received(w)'[j][1]
          PROVE  Received(w)'[i][2] < Received(w)'[j][2]
      <4>1. CASE j = Len(Received(w)) + 1
        <5>1. i \in 1..Len(Received(w))
          BY <2>4, <3>1, <4>1
        <5>2. Received(w)[i][1] = p
          BY <2>5, <3>1, <4>1, <5>1
        <5>3. QED
          BY <1>1, <2>5, <4>1, <5>1, <5>2 DEF NotAhead
      <4>2. CASE j \in 1..Len(Received(w))
        <5>1. i \in 1..Len(Received(w))
          BY <2>4, <3>1, <4>2
        <5>2. QED
          BY <2>5, <3>1, <4>2, <5>1 DEF FeedKeepsOrder
      <4>3. QED
        BY <2>4, <4>1, <4>2
    <3>2. QED
      BY <2>3, <2>5, <3>1 DEF FeedKeepsOrder
  <2>9. LosslessUntilFull'
    <3>1. Range(Received(w)) \subseteq Range(Received(w)') /\ e \in Range(Received(w)')
      <4>1. Received(w)' \in Seq(FeedEvents)
        BY <1>3, <2>2, <2>4, AppendProperties
      <4>2. DOMAIN Received(w)' = 1..(Len(Received(w)) + 1) /\ DOMAIN Received(w) = 1..Len(Received(w))
        BY <2>4, <2>5, <4>1, LenProperties
      <4>3. QED
        BY <2>4, <2>5, <4>2 DEF Range
    <3>2. QED
      BY <1>1, <1>2, <1>5, <2>3, <3>1 DEF LosslessUntilFull
  <2>10. QED
    BY <1>4, <2>6, <2>7, <2>8, <2>9
<1>6. CASE feed' = feed /\ overflowed' = overflowed \cup {w}
  <2>1. \A v \in Watchers : Received(v)' = Received(v)
    BY <1>1, <1>6 DEF Received
  <2>2. FeedTypeOK'
    BY <1>1, <1>2, <1>6 DEF FeedTypeOK
  <2>3. NotAhead'
    <3> SUFFICES ASSUME NEW v \in Watchers, NEW i \in 1..Len(Received(v)),
                        NEW q, q = Received(v)[i][1]
                 PROVE  /\ Received(v)[i][2] <= published[q]
                        /\ v \in sending'[q] => Received(v)[i][2] < published[q]
      BY <1>1, <2>1 DEF NotAhead
    <3>1. q \in Publishers
      BY ReceivedType DEF FeedEvents
    <3>2. QED
      BY <1>2, <3>1 DEF NotAhead
  <2>4. FeedKeepsOrder' /\ LosslessUntilFull'
    BY <1>1, <1>2, <1>6, <2>1 DEF FeedKeepsOrder, LosslessUntilFull
  <2>5. QED
    BY <1>4, <2>2, <2>3, <2>4
<1>7. QED
  BY <1>5, <1>6 DEF SendTo

\* A request begins, or ends, or its subscription is entered.
LEMMA WatcherInv ==
  ASSUME FeedInv, NEW w \in Watchers, Ready(w) \/ SubscribeSession(w) \/ Leave(w)
  PROVE  FeedInv'
<1> USE DEF FeedInv, FeedIsFaithful
<1>1. UNCHANGED <<published, sending, feed, shown, overflowed>>
  BY DEF Ready, SubscribeSession, Leave
<1>2. \A v \in Watchers : Received(v)' = Received(v)
  BY <1>1 DEF Received
<1>3. NotAhead' /\ FeedKeepsOrder'
  BY <1>1, <1>2 DEF NotAhead, FeedKeepsOrder
<1>4. CASE Ready(w)
  <2>1. FeedTypeOK'
    BY <1>1, <1>4 DEF Ready, FeedTypeOK
  <2>2. Subscribed' /\ LosslessUntilFull'
    BY <1>1, <1>2, <1>4 DEF Ready, Subscribed, LosslessUntilFull, FeedTypeOK
  <2>3. QED
    BY <1>3, <2>1, <2>2
<1>5. CASE SubscribeSession(w)
  <2>1. /\ watcher' = [watcher EXCEPT ![w] = "watching"]
        /\ nextID' = nextID + 1 /\ since' = [since EXCEPT ![w] = published]
        /\ subs' = [i \in DOMAIN subs \cup {nextID} |-> IF i = nextID THEN w ELSE subs[i]]
    BY <1>5 DEF SubscribeSession, With
  <2>2. nextID \notin DOMAIN subs
    BY DEF FeedTypeOK
  <2>3. FeedTypeOK'
    <3>1. DOMAIN subs' \subseteq 0..(nextID' - 1) /\ nextID' \in Nat
      BY <2>1 DEF FeedTypeOK
    <3>2. Range(subs') \subseteq Watchers
      BY <2>1 DEF FeedTypeOK, Range
    <3>3. QED
      BY <1>1, <2>1, <3>1, <3>2 DEF FeedTypeOK
  <2>4. Subscribed'
    <3>1. ASSUME NEW v \in Watchers, watcher'[v] = "watching"
          PROVE  \E id \in DOMAIN subs' : subs'[id] = v
      <4>1. CASE v = w
        BY <2>1, <4>1
      <4>2. CASE v # w
        <5>1. PICK id \in DOMAIN subs : subs[id] = v
          BY <2>1, <3>1, <4>2 DEF Subscribed, FeedTypeOK
        <5>2. QED
          BY <2>1, <2>2, <5>1
      <4>3. QED
        BY <4>1, <4>2
    <3>2. QED
      BY <1>1, <3>1 DEF Subscribed
  <2>5. LosslessUntilFull'
    <3> SUFFICES ASSUME NEW v \in Watchers, NEW p \in Publishers,
                        watcher'[v] = "watching", v \notin overflowed,
                        NEW n \in since'[v][p] + 1 .. published[p]
                 PROVE  <<p, n>> \in Range(Received(v)) \/ (n = published[p] /\ v \in sending[p])
      BY <1>1, <1>2 DEF LosslessUntilFull
    <3>1. CASE v = w
      <4>1. since'[v][p] = published[p] /\ published[p] \in Nat
        BY <2>1, <3>1 DEF FeedTypeOK
      <4>2. QED
        BY <4>1
    <3>2. CASE v # w
      <4>1. since'[v] = since[v] /\ watcher[v] = "watching"
        BY <2>1, <3>2 DEF FeedTypeOK
      <4>2. QED
        BY <4>1 DEF LosslessUntilFull
    <3>3. QED
      BY <3>1, <3>2
  <2>6. QED
    BY <1>3, <2>3, <2>4, <2>5
<1>6. CASE Leave(w)
  <2>1. /\ watcher' = [watcher EXCEPT ![w] = "gone"]
        /\ subs' = [i \in {j \in DOMAIN subs : subs[j] # w} |-> subs[i]]
        /\ nextID' = nextID /\ since' = since
    BY <1>6 DEF Leave
  <2>2. FeedTypeOK'
    BY <1>1, <2>1 DEF FeedTypeOK, Range
  <2>3. Subscribed'
    <3>1. ASSUME NEW v \in Watchers, watcher'[v] = "watching"
          PROVE  \E id \in DOMAIN subs' : subs'[id] = v
      <4>1. v # w /\ watcher[v] = "watching"
        BY <2>1, <3>1 DEF FeedTypeOK
      <4>2. PICK id \in DOMAIN subs : subs[id] = v
        BY <4>1 DEF Subscribed
      <4>3. QED
        BY <2>1, <4>1, <4>2
    <3>2. QED
      BY <1>1, <3>1 DEF Subscribed
  <2>4. LosslessUntilFull'
    BY <1>1, <1>2, <2>1 DEF LosslessUntilFull, FeedTypeOK
  <2>5. QED
    BY <1>3, <2>2, <2>3, <2>4
<1>7. QED
  BY <1>4, <1>5, <1>6

\* A client is sent the head of its channel.
LEMMA WriteInv == ASSUME FeedInv, NEW w \in Watchers, WriteEvent(w) PROVE FeedInv'
<1> USE DEF FeedInv, FeedIsFaithful
<1>1. /\ feed[w] # <<>>
      /\ shown' = [shown EXCEPT ![w] = Append(@, Head(feed[w]))]
      /\ feed' = [feed EXCEPT ![w] = Tail(@)]
      /\ UNCHANGED <<published, sending, subs, nextID, watcher, overflowed, since>>
  BY DEF WriteEvent
<1>2. shown[w] \in Seq(FeedEvents) /\ feed[w] \in Seq(FeedEvents)
  BY DEF FeedTypeOK
<1>3. /\ Append(shown[w], Head(feed[w])) \o Tail(feed[w]) = shown[w] \o feed[w]
      /\ Append(shown[w], Head(feed[w])) \in Seq(FeedEvents) /\ Tail(feed[w]) \in Seq(FeedEvents)
      /\ Len(Tail(feed[w])) = Len(feed[w]) - 1
  BY <1>1, <1>2, HeadMoves
<1>4. \A v \in Watchers : Received(v)' = Received(v)
  BY <1>1, <1>3 DEF Received, FeedTypeOK
<1>5. FeedTypeOK'
  <2>1. \A v \in Watchers : Len(feed'[v]) <= FeedCap
    BY <1>1, <1>2, <1>3, FeedAssumption, LenProperties DEF FeedTypeOK
  <2>2. shown' \in [Watchers -> Seq(FeedEvents)] /\ feed' \in [Watchers -> Seq(FeedEvents)]
    BY <1>1, <1>3 DEF FeedTypeOK
  <2>3. QED
    BY <1>1, <2>1, <2>2 DEF FeedTypeOK
<1>6. NotAhead' /\ Subscribed'
  BY <1>1, <1>4 DEF NotAhead, Subscribed
<1>7. FeedKeepsOrder' /\ LosslessUntilFull'
  BY <1>1, <1>4 DEF FeedKeepsOrder, LosslessUntilFull
<1>8. QED
  BY <1>5, <1>6, <1>7

LEMMA FeedInvStep == ASSUME FeedInv, [FeedNext]_feedVars PROVE FeedInv'
<1>1. CASE FeedNext
  BY <1>1, PublishInv, SendInv, WatcherInv, WriteInv DEF FeedNext
<1>2. CASE UNCHANGED feedVars
  <2>1. \A w \in Watchers : Received(w)' = Received(w)
    BY <1>2 DEF feedVars, Received
  <2>2. FeedTypeOK' /\ NotAhead' /\ Subscribed'
    BY <1>2, <2>1 DEF FeedInv, feedVars, FeedTypeOK, NotAhead, Subscribed
  <2>3. FeedIsFaithful'
    BY <1>2, <2>1 DEF FeedInv, feedVars, FeedIsFaithful, FeedKeepsOrder, LosslessUntilFull
  <2>4. QED
    BY <2>2, <2>3 DEF FeedInv
<1>3. QED
  BY <1>1, <1>2

\* However publishers, sends and clients interleave.
THEOREM AlwaysFeedInv == FeedSpec => []FeedInv
<1>1. FeedInv /\ [FeedNext]_feedVars => FeedInv'
  BY FeedInvStep
<1>2. QED
  BY <1>1, FeedInvInit, PTL DEF FeedSpec

\* The types of the feed's state, no channel beyond its capacity (server.go:1349).
THEOREM FeedTypeCorrect == FeedSpec => []FeedTypeOK
<1>1. FeedInv => FeedTypeOK
  BY DEF FeedInv
<1>2. QED
  BY <1>1, AlwaysFeedInv, PTL

\* A client gets each publisher's events in order, and while its channel was
\* never full all of them since it subscribed (server.go:917-968, 1068-1088).
THEOREM FeedFaithful == FeedSpec => []FeedIsFaithful
<1>1. FeedInv => FeedIsFaithful
  BY DEF FeedInv
<1>2. QED
  BY <1>1, AlwaysFeedInv, PTL
=============================================================================
