------------------------------ MODULE Realtime ------------------------------
(***************************************************************************)
(* Realtime updates to the agents' browsers: the in-process broker         *)
(* (core/realtime.py), to which the worker and routing publish, and the    *)
(* event streams of the inbox (omnichannel/stream.py), each of which       *)
(* subscribes to its organisation's channel and to its user's.             *)
(*                                                                         *)
(* Broker and streams share one event loop, so what happens between two    *)
(* awaits is one step.  A published update is named by its position in the *)
(* history of publications.                                                *)
(***************************************************************************)
EXTENDS Naturals, FiniteSets, Sequences

CONSTANTS
  Streams,     \* calls of stream_events; a reconnecting browser makes a new one
  Channels,
  ChannelsOf,  \* _channels_for: what each stream subscribes to
  MaxSize,     \* _QUEUE_MAXSIZE (100 in the code)
  MaxUpdates   \* bound: how many updates are published

ASSUME RealtimeAssumption ==
  /\ ChannelsOf \in [Streams -> SUBSET Channels]
  /\ MaxSize \in Nat \ {0}
  /\ MaxUpdates \in Nat

VARIABLES
  subscribers,  \* _subscribers: the queues of a channel; no key without a queue
  loop,         \* where each stream is: "tick" at the top of its loop, "waiting" in get,
                \* "yielded" while the response is busy with the frame it yielded
  inbox,        \* the queue of each stream
  sent,         \* the updates yielded to the response as data frames, in order
  published,    \* history: the channel of each update, in order of publication
  since         \* history: how many updates were out when a stream subscribed

realtimeVars == <<subscribers, loop, inbox, sent, published, since>>

RealtimeInit ==
  /\ subscribers = [c \in {} |-> {}]
  /\ loop = [s \in Streams |-> "new"]
  /\ inbox = [s \in Streams |-> <<>>]
  /\ sent = [s \in Streams |-> <<>>]
  /\ published = <<>>
  /\ since = [s \in Streams |-> 0]

Live(s) == loop[s] \in {"tick", "waiting", "yielded"}

-----------------------------------------------------------------------------
(***************************************************************************)
(* The broker.                                                             *)
(***************************************************************************)

\* _subscribers.get(c, ())
QueuesOf(c) == IF c \in DOMAIN subscribers THEN subscribers[c] ELSE {}

\* Mutant: a full queue keeps what it has.
PutDroppingNewest(q, u) == IF Len(q) < MaxSize THEN Append(q, u) ELSE q

\* Mutant: a full queue is emptied.
PutDroppingAll(q, u) == IF Len(q) < MaxSize THEN Append(q, u) ELSE <<u>>

PutDroppingOldest(q, u) == Append(IF Len(q) < MaxSize THEN q ELSE Tail(q), u)

\* publish_update: no await, so every subscriber gets the update in one step.
PublishUpdate(c) ==
  /\ Len(published) < MaxUpdates
  /\ published' = Append(published, c)
  /\ inbox' = [s \in Streams |-> IF s \in QueuesOf(c)
                                   THEN PutDroppingOldest(inbox[s], Len(published'))
                                   ELSE inbox[s]]
  /\ UNCHANGED <<subscribers, loop, sent, since>>

\* subscribe, on entry: a new queue under every channel; the "connected" frame follows.
Subscribe(s) ==
  /\ loop[s] = "new"
  /\ loop' = [loop EXCEPT ![s] = "yielded"]
  /\ subscribers' = [c \in DOMAIN subscribers \cup ChannelsOf[s] |->
                       QueuesOf(c) \cup {t \in {s} : c \in ChannelsOf[t]}]
  /\ since' = [since EXCEPT ![s] = Len(published)]
  /\ UNCHANGED <<inbox, sent, published>>

\* Mutant: only the first channel is given up.
UnsubscribeOne(s) ==
  \E d \in ChannelsOf[s] :
    subscribers' = [c \in {e \in DOMAIN subscribers : e # d \/ subscribers[e] # {s}} |->
                      IF c = d THEN subscribers[c] \ {s} ELSE subscribers[c]]

\* subscribe, on exit: the queue leaves every channel, and empty channels go.
Unsubscribe(s) ==
  subscribers' = [c \in {e \in DOMAIN subscribers : subscribers[e] # {s}} |->
                    subscribers[c] \ {s}]

-----------------------------------------------------------------------------
(***************************************************************************)
(* stream_events.                                                          *)
(***************************************************************************)

\* get returns the oldest queued update, and it is relayed.
Relay(s) ==
  /\ sent' = [sent EXCEPT ![s] = Append(@, Head(inbox[s]))]
  /\ inbox' = [inbox EXCEPT ![s] = Tail(@)]
  /\ loop' = [loop EXCEPT ![s] = "yielded"]

\* The response has written the frame and asks for the next one.  A browser that does
\* not read fills the connection's buffers, and the stream stays where it is: neither
\* heartbeat nor lifetime reaches it there.
Resume(s) ==
  /\ loop[s] = "yielded"
  /\ loop' = [loop EXCEPT ![s] = "tick"]
  /\ UNCHANGED <<subscribers, inbox, sent, published, since>>

\* Mutant: get always waits to be woken.
RoundWaits(s) ==
  /\ loop[s] = "tick"
  /\ loop' = [loop EXCEPT ![s] = "waiting"]
  /\ UNCHANGED <<subscribers, inbox, sent, published, since>>

\* A round of the loop: get returns at once when there is an update, or waits.
Round(s) ==
  /\ loop[s] = "tick"
  /\ IF inbox[s] # <<>> THEN Relay(s)
       ELSE loop' = [loop EXCEPT ![s] = "waiting"] /\ UNCHANGED <<inbox, sent>>
  /\ UNCHANGED <<subscribers, published, since>>

\* An update wakes the waiting get.
Woken(s) ==
  /\ loop[s] = "waiting" /\ inbox[s] # <<>>
  /\ Relay(s)
  /\ UNCHANGED <<subscribers, published, since>>

\* The heartbeat timeout cancels get, be it in the same round of the event loop in which
\* an update came: that update stays in the queue, and a "keepalive" frame is yielded.
Heartbeat(s) ==
  /\ loop[s] = "waiting"
  /\ loop' = [loop EXCEPT ![s] = "yielded"]
  /\ UNCHANGED <<subscribers, inbox, sent, published, since>>

\* The lifetime is over or the client gone at the top of the loop, or the response is
\* cancelled, which ends the stream wherever it is.
Close(s) ==
  /\ Live(s)
  /\ loop' = [loop EXCEPT ![s] = "closed"]
  /\ Unsubscribe(s)
  /\ UNCHANGED <<inbox, sent, published, since>>

stream_events(s) == Round(s) \/ Woken(s) \/ Heartbeat(s)

RealtimeNext ==
  \/ \E c \in Channels : PublishUpdate(c)
  \/ \E s \in Streams : Subscribe(s) \/ Resume(s) \/ stream_events(s) \/ Close(s)

(***************************************************************************)
(* The event loop runs every stream that is not suspended at its yield.    *)
(* Nothing is assumed of publishers, of how often the heartbeat fires, or  *)
(* of browsers: whether a suspended stream ever resumes is up to them.     *)
(***************************************************************************)
RealtimeSpec ==
  /\ RealtimeInit /\ [][RealtimeNext]_realtimeVars
  /\ \A s \in Streams : WF_realtimeVars(stream_events(s))

-----------------------------------------------------------------------------
RealtimeTypeOK ==
  /\ DOMAIN subscribers \subseteq Channels
  /\ \A c \in DOMAIN subscribers : subscribers[c] \subseteq Streams
  /\ loop \in [Streams -> {"new", "tick", "waiting", "yielded", "closed"}]
  /\ inbox \in [Streams -> Seq(1..MaxUpdates)]
  /\ \A s \in Streams : Len(inbox[s]) <= MaxSize
  /\ sent \in [Streams -> Seq(1..MaxUpdates)]
  /\ published \in Seq(Channels)
  /\ since \in [Streams -> 0..MaxUpdates]

(***************************************************************************)
(* Broker and streams agree on who is subscribed, and a stream that ended, *)
(* however it ended, leaves nothing behind: neither its queue under any    *)
(* channel nor a channel without queues (realtime.py:139-149).             *)
(***************************************************************************)
RegistryExact ==
  /\ \A c \in Channels : QueuesOf(c) = {s \in Streams : Live(s) /\ c \in ChannelsOf[s]}
  /\ \A c \in DOMAIN subscribers : subscribers[c] # {}

\* The updates on s's channels since it subscribed.
Meant(s) == {u \in since[s] + 1 .. Len(published) : published[u] \in ChannelsOf[s]}

Elements(q) == {q[n] : n \in 1..Len(q)}

\* The updates of a live stream that are neither relayed nor queued.
Lost(s) == Meant(s) \ (Elements(sent[s]) \cup Elements(inbox[s]))

(***************************************************************************)
(* "each published message in order" (realtime.py:128-130) and no update   *)
(* of another channel: what a stream relays, followed by its queue, are    *)
(* updates meant for it in the order they were published, and what is      *)
(* queued are always the newest (realtime.py:77-91).                       *)
(***************************************************************************)
FeedInOrder ==
  \A s \in Streams : Live(s) =>
    LET feed == sent[s] \o inbox[s]
    IN /\ Elements(feed) \subseteq Meant(s)
       /\ \A m, n \in 1..Len(feed) : m < n => feed[m] < feed[n]
       /\ \A u \in Meant(s), n \in 1..Len(inbox[s]) :
            u > inbox[s][n] => u \in Elements(inbox[s])

(***************************************************************************)
(* A live stream misses an update only when it fell a whole queue behind:  *)
(* MaxSize newer ones were published, and however far behind it is, its    *)
(* queue does not grow beyond MaxSize (realtime.py:32-35, 77-91).          *)
(***************************************************************************)
LostOnlyWhenBehind ==
  \A s \in Streams : Live(s) =>
    /\ \A u \in Lost(s) : Cardinality({v \in Meant(s) : v > u}) >= MaxSize
    /\ Len(inbox[s]) <= MaxSize

(***************************************************************************)
(* A queued update of a browser that goes on reading does not wait for     *)
(* ever, even when the heartbeat races with every wake-up: it is relayed,  *)
(* dropped for a newer one, or its stream ends (stream.py:103-113).  A     *)
(* browser goes on reading if its stream is not suspended at a yield for   *)
(* ever.                                                                   *)
(***************************************************************************)
QueuedIsRelayed ==
  \A s \in Streams :
    []<>(loop[s] # "yielded") =>
      \A u \in 1..MaxUpdates :
        Live(s) /\ u \in Elements(inbox[s])
          ~> u \in Elements(sent[s]) \/ u \in Lost(s) \/ ~Live(s)

=============================================================================
