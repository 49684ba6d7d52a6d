------------------------------ MODULE EventFeed ------------------------------
(***************************************************************************)
(* The event stream of a session (GET /session/{id}/events): the handlers   *)
(* of prompt requests publish their agent's events one by one, each to the  *)
(* subscribers found under the lock, with sends that never wait, after the  *)
(* lock is released.  Subscribers come and go meanwhile, and a client that  *)
(* reads slowly fills its channel.                                          *)
(***************************************************************************)
EXTENDS Integers, Sequences, SequencesExt

CONSTANTS
  Publishers,   \* the goroutines that publish for the session
  EventsEach,   \* bound on the events of one publisher
  Watchers,     \* the requests for the stream
  FeedCap       \* slots of a subscriber's channel (128 in the code)

ASSUME FeedAssumption == EventsEach \in Nat /\ FeedCap \in Nat \ {0}

VARIABLES
  published,    \* how many events each publisher has begun to publish
  sending,      \* the subscribers each publisher still sends its last one to
  subs,         \* s.subs[sessionID]: subscriber ids and their channels
  nextID,
  watcher,      \* where each request is
  feed,         \* the channel of each request
  shown,        \* what each client has been sent
  overflowed,   \* the requests whose channel was full when an event came
  since         \* how far each publisher had got when a request subscribed

feedVars ==
  <<published, sending, subs, nextID, watcher, feed, shown, overflowed, since>>

FeedEvents == Publishers \X (1..EventsEach)

FeedInit ==
  /\ published = [p \in Publishers |-> 0]
  /\ sending = [p \in Publishers |-> {}]
  /\ subs = <<>> /\ nextID = 0
  /\ watcher = [w \in Watchers |-> "new"]
  /\ feed = [w \in Watchers |-> <<>>]
  /\ shown = [w \in Watchers |-> <<>>]
  /\ overflowed = {}
  /\ since = [w \in Watchers |-> published]

-----------------------------------------------------------------------------
(* publishEvent.                                                            *)

\* Mutation: publishEvent returns before its sends are done.
PublishAsync(p) ==
  /\ published[p] < EventsEach
  /\ published' = [published EXCEPT ![p] = @ + 1]
  /\ sending' = [sending EXCEPT ![p] = Range(subs)]
  /\ UNCHANGED <<subs, nextID, watcher, feed, shown, overflowed, since>>

\* The channels are copied under the read lock.
Publish(p) ==
  /\ sending[p] = {} /\ published[p] < EventsEach
  /\ published' = [published EXCEPT ![p] = @ + 1]
  /\ sending' = [sending EXCEPT ![p] = Range(subs)]
  /\ UNCHANGED <<subs, nextID, watcher, feed, shown, overflowed, since>>

\* Mutation: the channel grows.
SendToUnbounded(p, w) ==
  /\ w \in sending[p]
  /\ sending' = [sending EXCEPT ![p] = @ \ {w}]
  /\ feed' = [feed EXCEPT ![w] = Append(@, <<p, published[p]>>)]
  /\ UNCHANGED <<published, subs, nextID, watcher, shown, overflowed, since>>

\* One send, in an order the map decides; a full channel loses the event.
SendTo(p, w) ==
  /\ w \in sending[p]
  /\ sending' = [sending EXCEPT ![p] = @ \ {w}]
  /\ IF Len(feed[w]) < FeedCap
     THEN feed' = [feed EXCEPT ![w] = Append(@, <<p, published[p]>>)] /\ UNCHANGED overflowed
     ELSE overflowed' = overflowed \cup {w} /\ UNCHANGED feed
  /\ UNCHANGED <<published, subs, nextID, watcher, shown, since>>

-----------------------------------------------------------------------------
(* handleSessionEvents.                                                     *)

\* session.ready is on its way before the subscription exists.
Ready(w) ==
  /\ watcher[w] = "new"
  /\ watcher' = [watcher EXCEPT ![w] = "ready"]
  /\ UNCHANGED <<published, sending, subs, nextID, feed, shown, overflowed, since>>

With(id, w) == [i \in DOMAIN subs \cup {id} |-> IF i = id THEN w ELSE subs[i]]

SubscribeSession(w) ==
  /\ watcher[w] = "ready"
  /\ watcher' = [watcher EXCEPT ![w] = "watching"]
  /\ subs' = With(nextID, w) /\ nextID' = nextID + 1
  /\ since' = [since EXCEPT ![w] = published]
  /\ UNCHANGED <<published, sending, feed, shown, overflowed>>

WriteEvent(w) ==
  /\ watcher[w] = "watching" /\ feed[w] # <<>>
  /\ shown' = [shown EXCEPT ![w] = Append(@, Head(feed[w]))]
  /\ feed' = [feed EXCEPT ![w] = Tail(@)]
  /\ UNCHANGED <<published, sending, subs, nextID, watcher, overflowed, since>>

\* The client is gone, or a write failed: cancel removes this subscription
\* alone.  The channel stays open, for a publisher that has it already.
Leave(w) ==
  /\ watcher[w] = "watching"
  /\ watcher' = [watcher EXCEPT ![w] = "gone"]
  /\ subs' = [i \in {j \in DOMAIN subs : subs[j] # w} |-> subs[i]]
  /\ UNCHANGED <<published, sending, nextID, feed, shown, overflowed, since>>

FeedNext ==
  \/ \E p \in Publishers : Publish(p) \/ \E w \in Watchers : SendTo(p, w)
  \/ \E w \in Watchers : Ready(w) \/ SubscribeSession(w) \/ WriteEvent(w) \/ Leave(w)

FeedSpec == FeedInit /\ [][FeedNext]_feedVars

-----------------------------------------------------------------------------
(* Properties.                                                              *)

FeedTypeOK ==
  /\ published \in [Publishers -> 0..EventsEach]
  /\ sending \in [Publishers -> SUBSET Watchers]
  /\ nextID \in Nat
  /\ DOMAIN subs \subseteq 0..(nextID - 1) /\ Range(subs) \subseteq Watchers
  /\ watcher \in [Watchers -> {"new", "ready", "watching", "gone"}]
  /\ feed \in [Watchers -> Seq(FeedEvents)] /\ \A w \in Watchers : Len(feed[w]) <= FeedCap
  /\ shown \in [Watchers -> Seq(FeedEvents)]
  /\ overflowed \subseteq Watchers
  /\ since \in [Watchers -> [Publishers -> 0..EventsEach]]

Received(w) == shown[w] \o feed[w]

\* Whatever the publishers interleave and the channels lose, a client gets the
\* events of each publisher in the order they were published, none twice.
FeedKeepsOrder ==
  \A w \in Watchers : \A i, j \in 1..Len(Received(w)) :
    i < j /\ Received(w)[i][1] = Received(w)[j][1] => Received(w)[i][2] < Received(w)[j][2]

\* Only a full channel loses events: while it never was, a subscriber has all
\* that was published since it subscribed, or it is about to be sent to it.
LosslessUntilFull ==
  \A w \in Watchers, p \in Publishers :
    watcher[w] = "watching" /\ w \notin overflowed =>
      \A n \in since[w][p] + 1 .. published[p] :
        \/ <<p, n>> \in Range(Received(w))
        \/ n = published[p] /\ w \in sending[p]

\* What a client sees of its session's runs, in the order it happened and, as
\* long as it keeps up, without a gap.
FeedIsFaithful == FeedKeepsOrder /\ LosslessUntilFull
=============================================================================
