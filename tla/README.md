# TLA+ models of paho.mqtt.python

This directory holds TLA+ models of the MQTT client in `src/src/paho/mqtt/`, TLC configurations that check them
on small instances, and proofs checked by TLAPS. Line numbers below are lines of `src/src/paho/mqtt/client.py`
unless another file is named. `PROJECT.json` maps each definition to the lines it models.

## 1. The system

`Client` is one object of about 4400 lines. An application calls it on threads of its own; a *network thread*
(`loop_start()`, or the thread that calls `loop_forever()`) reads and writes the socket, runs the callbacks,
and reconnects. There is no persistence: a session lives in the `Client` object and outlives its connections.

| Component | State | Operations | Correct when |
|---|---|---|---|
| Session layer (QoS 1, 2) | `_out_messages`, `_inflight_messages`, `_last_mid`, `_in_messages`, `_mqttv5_first_connect` | `publish`, `ack`, `_messages_reconnect_reset*`, `_handle_connack`, `_handle_pub*`, `_update_inflight` | nothing accepted is lost, QoS 2 is delivered once, ids are unique, the window is used and respected, queued messages always move on |
| Connection lifecycle | `_state`, `_sock`, `_thread`, `_thread_terminate` | `connect`, `connect_async`, `reconnect`, `disconnect`, `loop_forever`, `loop_start`, `loop_stop`, `_loop_rc_handle` | the thread runs until asked and then ends; every connection it loses is reported |
| Keepalive | `_ping_t`, `_last_msg_in`, `_last_msg_out` | `_check_keepalive`, `loop_misc` | neither the client nor a dead broker is silent too long, a live one is kept |
| Out-packet queue, `MQTTMessageInfo` | `_out_packet`, `rc`, `_published` | `_packet_queue`, `_packet_write`, QoS 0 `publish`, `wait_for_publish` | the broker reads whole packets, waiters wake up, no success is reported for a lost message |
| Packet reader | `_in_packet` | `_packet_read`, `loop_read`, `_pack_remaining_length` | packets are found again whole and in order, none waits unseen |
| WebSocket wrapper | `_readbuffer`, `_payload_head`, `_sendbuffer` | `_recv_impl`, `_buffered_read`, `_send_impl` | the same, through frames that arrive or leave in pieces |
| Broker (external) | its session | | the peer the handlers rely on |
| Topic matcher | trie of `MQTTMatcher` | `message_callback_add`, `message_callback_remove`, `_handle_on_message`, `topic_matches_sub` | it behaves as a dictionary with MQTT's definition of matching |
| Subscriptions | the message id only | `subscribe`, `unsubscribe`, `_handle_suback` | |
| Callbacks and locks | six mutexes | setters, `with self._in_callback_mutex` | no deadlock, no lost update |
| Socket callbacks | `_registered_write` | `_call_socket_*`, `loop_read`, `loop_write`, `loop_misc` | an external loop watches what the client needs, and nothing queued waits for ever |
| One-shot helpers | the deque of `publish.py`, the count of `subscribe.py` | `multiple`, `single`, `callback`, `simple` | all messages are sent, or gathered, then the client disconnects |
| Sockets, TLS, proxies; tables; logging | | | not modelled: no protocol state |

The components meet in these places. `publish()` (session) calls `_send_publish`, which queues a packet and wakes
the network thread. `_packet_write` moves packets to the socket and reports QoS 0 messages and DISCONNECT.
`_packet_read` calls the handlers of the session. `_loop_rc_handle` and `loop_misc` close the socket and call
`on_disconnect`. `reconnect()` resets the session, the queue, the reader and the keepalive, in that thread and
without a lock. Callbacks call back into all of these.

What is hard in this code, and where the properties aim:

* Application threads share `_state`, `_sock` and `_out_packet` with the network thread without a lock;
  `disconnect()` and `publish()` look at `_sock` and act later.
* A connection may break anywhere, also twice before CONNACK, and in the middle of the loop that resumes messages.
* `_inflight_messages` is a counter beside the store it counts: every branch has to keep the two together.
* Message ids wrap and are shared with `subscribe()` and QoS 0.
* Waiting (`wait_for_publish`, `loop_stop`, queued messages, `select`) must end.
* Streams arrive and leave in pieces; WebSocket frames add a second level of pieces.

`PROJECT.json` lists the hazards one by one, each at its line, with the properties that would catch it.

## 2. Modules

| Module | Models | Notes |
|---|---|---|
| `Wire` | packets and the two channels | order and identity of packets, not their bytes |
| `ClientSession` | the session layer | one action per handler and per outcome of `publish()` |
| `Broker` | the server's side of QoS 1 and 2 (external) | |
| `Session` | their composition with faults; the properties | |
| `Delivery` | what `publish()` promises | abstract specification that `Session` implements |
| `MCSession` | instances | |
| `SessionProofs` | proofs about `Session`: store and window, channels, what was delivered; then messages to the client, DUP, exactly once, the refinement of `Delivery`, order | section 4 |
| `LifecycleProofs`, `KeepaliveProofs`, `MatcherProofs`, `OutPacketsProofs`, `ExternalLoopProofs`, `OneShotProofs`, `PacketReaderProofs` | proofs about those modules | section 4 |
| `Lifecycle`, `MCLifecycle` | `loop_forever` against the application thread | every unlocked access is a step of its own |
| `Keepalive`, `MCKeepalive` | `loop_misc` with discrete time | |
| `OutPackets`, `MCOutPackets` | `_out_packet`, QoS 0, `wait_for_publish`, `_send_impl` | |
| `PacketReader`, `MCPacketReader` | `_packet_read`, `_recv_impl`, `_buffered_read` | |
| `Registry` | what `message_callback_add` and `_remove` promise | abstract specification that `Matcher` implements |
| `Matcher`, `MCMatcher` | `matcher.py`, `_handle_on_message` | a node of the trie is the path to it |
| `PublishMultiple` | `publish.multiple()` and the client it drives | |
| `SubscribeSimple` | `subscribe.simple()` and the client it drives | |
| `OneShot`, `MCOneShot` | the two against a broker (external), with faults | |
| `ExternalLoop`, `MCExternalLoop` | `loop_read`, `loop_write`, `loop_misc`, the `on_socket_` callbacks, `examples/loop_asyncio.py` | a stack of steps still to be done |

### Session

`ClientSession` numbers the publications in the order of the `publish()` calls; since `_out_messages` is an
`OrderedDict` filled in that order, the store is the set `Live` and its order the order of numbers. `state[p]` is
`MQTTMessage.state`. `publish()` and the handlers of PUBACK, PUBREC, PUBCOMP and CONNACK are one action each, because they hold
`_out_message_mutex` while they work on the store. `reconnect()` is three (`ReconnectReset`, `SocketOpened`, `SendConnect`), because it
holds nothing from one to the next. `_handle_pubrel` is three as well: `HandlePubrel` passes the message on and reads
`_inflight_messages` (4216), `FreeSlot` writes it, one less, without a lock, so that an increment of `publish()` in between may be
lost or may undo it, and `HandOnSlot` takes `_out_message_mutex` (4218) and promotes. Between any two of these `publish()` may come:
it may take the slot that was freed and send a message before older ones that are queued. `_handle_connack`'s loop is one action (`ConnackAccepted`), and
`ConnackBroken` is its version in which the connection breaks while it sends: `_send_pubrel` does not look at the
socket, `_send_publish` does, after its message is marked in flight. A `publish()` or `ack()` made in a callback is the same as
one made by another thread directly before the handler, so it needs no action of its own. The out-packet queue is
part of the channel `toBroker`.

`Broker` is not code of the repository. It does what the handlers rely on and what the scripts in `src/tests/lib`
play: it remembers ids of QoS 2 messages until PUBREL, repeats unfinished messages after CONNACK of a resumed
session, and closes a connection whose first packet is not CONNECT.

### Lifecycle

The network thread is a program counter (`net`) over `loop_forever`, `reconnect`, `_loop`, `_handle_connack`, `_loop_rc_handle`,
`_packet_write` and `loop_misc`; the application thread one (`app`) over `connect()`, `disconnect()` and `loop_stop()`. Writes of
`_state`, `_sock` and `_out_packet` that another thread can come between are separate actions, e.g. `CloseSocket`, `CloseState`,
`CloseNotify`, `CloseSettle`. `within` tells who has called: `reconnect()` may be called by either loop of `loop_forever` or by
`_handle_connack` (`ReadFallback`), `_loop_rc_handle` from inside `_handle_connack` while it sends the messages of the session
again (`"resume"`), where its result is ignored. The two ways `loop_misc` gives up are `KeepaliveClose` to `KeepaliveNotify`
(`_check_keepalive`) and `MiscClose` to `MiscNotify` (the PINGREQ is too old), and the first may be followed by the second in one turn.
`fate` and `calls` are not in the code: how the last socket ended and how often on_disconnect was called for it.
Waiting times have no length here, so the keepalive may give up whenever its conditions on `_state` and `_ping_t` allow.

### Keepalive

Time is a tick; each variable is the age of a time stamp, capped by `MaxAge`. A tick happens only when the loop has
handled what arrived, written what is queued and run `loop_misc`: the loop turns at least once a second and the
keepalive is counted in whole seconds. `_check_keepalive` and `loop_misc` are one action (`Misc`); what they report, and how often, is part of `Lifecycle`.
`_last_msg_out` is not refreshed by a normal write, as in the code: `_packet_write` returns from `popleft()` before
the lines that set it (3168-3170, 3249-3250).

### OutPackets

`publish()` with QoS 0 is three steps (look at `_sock`; queue; store `rc`), `_packet_write` two (pop; send and put
back), and the loop of `reconnect()` over the deque one for each packet. Each packet has a length of its own (`Size`), in pieces, and
`pos`; `to_process` is what is left. `transport` says whether pieces go to TCP (`SendTcp`), to a WebSocket whose socket takes whole
frames or raises `BlockingIOError` (`SendFrame`, `Blocked`), or to one whose socket may take a part of a frame (`SendPart`).
`sendbuffer` and `requested` are the wrapper's: the frame it has begun and the length of that frame's payload, which is what it
returns when the frame is out, whatever packet it was called with. `Wrote` is what `_packet_write` makes of that number.

### PacketReader

The stream of a connection is chosen at the start: packets with given body lengths, cut into data frames, with at most
one other frame (PING, CONNCLOSE, PONG or an empty binary frame) among them. Each step is one `recv()` call of the reader; bytes that arrive during a
call are the same as bytes that arrive before it, because a call that lacks a byte gives up. Bases and limits (128, 126,
4, 100) are constants. Reading is by position, so a misaligned reader would see wrong values, not an error.
An answer to PING or CONNCLOSE is one `send()` on a non-blocking socket, after `_readbuffer` was reset (4940, 4945): it may go out whole, in part,
be refused (`BlockingIOError`, which the reader takes for "nothing to read") or find the connection broken; `sends` records which.

### Matcher and Registry

`nodes` are the `Node` objects and `content` their `_content`; a filter is a sequence of levels. `Pruned` is what the
loop of `__delitem__` takes out, `IterMatch` the recursion of `iter_match` as a function over the nodes.
`_handle_on_message` finds all callbacks under `_callback_mutex` and runs them without it, so it is `HandleOnMessage`
followed by one step for each callback; adding and removing go on in between. `topic_matches_sub` builds a matcher of one filter and asks it
for one topic, which is `SetItem` and `IterMatch`. `Registry` has a plain dictionary instead of the trie and MQTT's definition of
matching (4.7) instead of the walk. Its `calls` counts the calls still due, and the order of the callbacks of one message is left open.

### PublishMultiple, SubscribeSimple and OneShot

The helpers run on one thread: `connect()`, `loop_forever()`, callbacks. `DoPublish` and `OnPublish` are `_do_publish` and `_on_publish`,
called from where the client calls `on_publish`: while a QoS 0 packet is written (`WritePublish`), or when PUBACK
arrives (`Puback`), before the message leaves `_out_messages`. `_handle_connack`'s loop is one turn at a time
(`ResumeNext`, `FlushEnds`), because its `loop_write()` runs `on_publish`, which may add to the dictionary under the
loop (`ResumeRaises`). A message of QoS 1 is stored until one answer comes; the detail of the session is in `ClientSession`.
`OneShot` puts a broker with clean sessions between a publisher and a subscriber. A closed socket may
still deliver what it holds, or lose it (`TailLost`).

### ExternalLoop

All calls of the event loop happen on one thread. `stack` holds the steps its current call has still to do, so each step
sees what the steps before it have left, and a user callback that raises drops the stack down to the next `finally`
clause, which is the one of `loop_write()`. The steps are named after what they do: `"flush"` is a turn of `_packet_write`,
`"close"` is `_sock_close`, `"user"` is a callback of the user, which may return, raise, publish or
disconnect. The example's four callbacks change what the loop watches. `publish()` on a second thread is five
steps, one for each unlocked access (`ThreadCalls` to `ThreadRegisters`). That `_registered_write` is cleared in
`reconnect()` only after the new socket exists is kept (`Fresh`).

## 3. Runs

| Run | Question | States | Outcome |
|---|---|---|---|
| `SessionFaults` | store, window, ids and on_message with publish() and ack() at any time, two faults of any kind, wrapped ids | 1.6 M | holds |
| `SessionQoS2` | with clean_session False: DUP, order; refinement of `Delivery`, which contains exactly-once | 1.1 M | holds |
| `SessionLive` | sessions left by an earlier run; everything is finished in the end | 93 k | holds |
| `QoS2TwoResets` | QoS 2 across a failed reconnection | | violated |
| `Lifecycle` | disconnect() from a thread and from callbacks, loop_stop(), failures, unanswered PINGREQs, refusals | 401 k | holds |
| `DisconnectLost` | disconnect() in on_disconnect | | violated |
| `Keepalive` | keepalive 0, 2, 3; a broker that answers in time or dies | 11 k | holds |
| `OutPackets` | packets of different lengths, pieces, breaks and callbacks, three transports | 161 k | holds |
| `PacketReader` | any fragmentation of packets and frames, answers sent, cut or refused | 629 k | holds |
| `Matcher` | adding, removing and messages in any order; refinement of `Registry` | 112 k | holds |
| `OneShot` | both helpers across lost and refused connections | 275 k | holds |
| `ExternalLoop` | watches, order of the socket callbacks, queued packets, with one thread and with two | 347 k | holds |

**Bounds and why they are enough.** The session runs use two or three publications over a window of one: that
is the least at which one message is in flight, one is queued and one is refused or behind both. Ids
wrap at two or three, so a new message meets the id of a stored one. Two faults cover a failed reconnection after a
lost connection, the pattern behind all multi-reset errors we know of; three are allowed when only established
connections break. `Lifecycle` allows two failures, two `connect()` and two `loop_start()`, so that a second life begins with
what a first one left behind (an open socket among it), and one refused version, so that `_handle_connack` calls `reconnect()` once. `Keepalive` needs ages beyond twice the largest keepalive (6), and has 9.
`OutPackets` has packets of one, two and three pieces (begin, middle, end), two messages and two broken connections.
`PacketReader` has lengths 0, 1 and 3 with two digits of base 2 (the limits of one and two digits), 4 as the first
length that is too long, frames of 1, 3 and 8 bytes around the limit of the longer header (3), and `MaxReads` 2.
`Matcher` holds two filters at a time, the least at which one is a prefix, a brother or a wildcard of the other, out of
24: all of up to two levels over an ordinary name, a name with `$`, `+` and `#`, and four of three levels. Topics have up to three levels,
so `#` stands for none, one and more. `OneShot` has lists of up to four messages, the
least with two chains of `on_publish` and a message behind both, a subscription to a topic with
a retained message and to the live one, and two faults. `ExternalLoop` has two sockets, two calls and two packets of the
broker: what the first connection leaves behind meets the second.

**Restrictions of runs, by intent.** `SessionQoS2` publishes in `down` and `up` only and breaks only established
connections, and its broker sends no message of QoS 2, since order and exactly-once do not hold otherwise (see section 5). `SessionLive` leaves out refused CONNECTs,
after one of which `NoStaleSession` fails. In `OutPackets` `SuccessIsWritten`, `NoneForgotten` and `CallbackWaitReturns`
speak of messages published on the network thread and of transports that split no frame; `WholePackets` speaks of all messages
and of transports that split no frame. `RunsUntilAsked` and `Reconnects` leave out the OSError of `reconnect()` in `_handle_connack`.
In `OneShot` `EndsAsPromised` allows one lost connection and `PublisherReturns` speaks of lists that end with QoS 1. In
`ExternalLoop` `WatchesFit` and `CallbacksInOrder` speak of one thread, `QueuedIsWritten` of both. Section 5 says what happens otherwise.

**Fairness.** The network thread never stops of itself (`loop_forever` retries, 2320-2335), so its steps are weakly
fair, as is the broker that answers, and a call that has begun (`disconnect()`, `loop_stop()`) goes on. With manual
acknowledgement the application calls `ack()` in the end. Nothing forces a publication, a call or a fault; faults
are bounded, so liveness means "if the faults end". In `OutPackets` writing is strongly fair: the socket may be full
again and again, but not for ever. In `OneShot` `loop_forever()` goes on and the broker answers. In `ExternalLoop` a call that has begun goes on (weak
fairness), and an event loop runs each callback that is ready again and again: `loop_write` of a watched socket and, once a second,
`misc_loop` are strongly fair, since a new call may hold them up each time, but not for ever. `Matcher` needs none: its
property is safety. `CHECK_DEADLOCK FALSE` stands in all runs but `Keepalive` and `Matcher`, because an
application that has nothing left to do, and a thread that has ended, are no errors; in `Keepalive` time must always go on, and
callbacks can always be added or removed.

## 4. Proofs

TLAPS proves, for every value of the constants that satisfies the named assumptions (`WireAssumption`,
`ClientAssumption`, `BrokerAssumption`, `SessionAssumption`, `LifecycleAssumption`, `KeepaliveAssumption`,
`MatcherAssumption`, `OutPacketsAssumption`, `ExternalLoopAssumption`,
`MultipleAssumption`, `SimpleAssumption`, `ReaderAssumption`), first about `Session`:

* `TypeCorrect`: `Spec => []TypeOK`. The type invariant says among others that each packet on a channel has the
  fields its handler reads, and that ids stay in `1..MaxMid`. One lemma per group of actions.
* `QueueIsServed`: `WorkConserving` (but for the moment in which `_handle_pubrel` has freed a slot and waits for the mutex). `NoSlotIsLost`: `NoSlotLeak`. `MidsAreUnique`: `OneHolder`.
* `NothingBehindQueued`: `ResumeReachesAll`. `FirstSessionIsNew`: `NoStaleSession`. `ReportedAfterDelivery`: `PublishedDelivered`.
* `InboundExactlyOnce`: `InboundOnce`. `InboundAtLeastOnce`: `InboundNotLost`.
* `RepetitionsAreMarked`: `RetransmissionsMarked`. `DeliveredExactlyOnce`: `ExactlyOnce`.
  `FirstDeliveriesOrdered`: `FirstDeliveriesInOrder`.
* `KeepsItsPromise`: `ImplementsDelivery`, the refinement of `Delivery`.

So every safety property of `Session` is a theorem. The argument goes up in layers; the last two are the
second half of `SessionProofs`, "Promises".

**Store and window**. `SlotInv` = `TypeOK` /\ `Unused` /\ `UniqueMids` /\ `WorkConserving` /\
`NoSlotLeak`. None of its parts is inductive alone. `NoSlotLeak` needs `UniqueMids`, since PUBACK takes one off the
counter and must take one message out of the store. `UniqueMids` needs `Unused`: a
publication that was not made yet is in no set. `WorkConserving` needs types for the arithmetic of the
window. The heart are `PromotedFits` and `PromotedFills`: `_update_inflight` (4234-4257)
promotes as many queued messages as fit and leaves one queued only if the window is full, by counting the queue with `Rank`.

**Channels**. `OutInv` says that of all packets about one message id (PUBLISH and PUBREL one way, PUBACK, PUBREC and PUBCOMP
the other) there is at most one in both channels together, and that it fits the stored message: it has its id and QoS, and the message is in the
state that waits for its answer. This is what the handlers rely on without looking: `_handle_pubackcomp` ends a message whatever its
state, and `_handle_pubrec` moves it on whatever its QoS. `ResumeReachesAll` is proved by itself: a message is stored behind a queued one only by a
`publish()` that takes the slot `_handle_pubrel` has freed, while the connection is up and the message is sent at once; what a
reset makes of it, it makes of the queued ones too.

**Delivered**. `DelivInv` adds that a message reported, resumed at PUBREL, or about to be answered has been passed on, and that
an id the broker remembers belongs to a stored message it has passed on. It needs that the broker's session is the client's own (`OwnSession`).
An old one may swallow a new QoS 2 message under an id of an earlier run, and the answer ends it undelivered. `NoOldSession`
states when the session is its own: there is no old session, or each first connection asks for a clean one. The latter is `StaleInv`, with the
hypothesis `NoRefusal`, because a refused CONNACK clears `_mqttv5_first_connect` (3908).

**Inbound**. `Setup` and `First` describe a connection that is set up: at most one CONNECT and its CONNACK, which is the first packet handled, and
an empty `_in_messages` until the first one. `InInv` gives for each message of the broker, by its progress there, what the client holds of it and which
packets may be on their way. With it on_message runs once, with and without manual acknowledgement and with late calls of `ack()`, and under every fault.

**Promise**. `StoreMoves` lists what any step may do to one publication, and `StepPassesOn` what it may pass on; the rest is stated with
these two.

* DUP. `DupInv`: what is to be sent and was passed on has `dup`. It fails when `resend_pubrel` is reset to `publish`, without
  DUP (3739), which takes two calls of `reconnect()` in a row: the error `QoS2TwoResets` shows. `OneReset` states the three ways to exclude it: connections
  break only while they are up (`Steady`), sessions are always clean, or all messages have QoS 1. `Steady` also keeps the
  application from writing in front of CONNECT, since the broker closes such a connection.
* Exactly once. `ExInv`: a QoS 2 message passed on and not yet known to be received is remembered by the broker under its id. The
  hypothesis `Resumed` excludes sessions that are always clean, in which the broker forgets. `CleanFirst` says that with
  `MQTT_CLEAN_START_FIRST_ONLY` the one clean CONNECT precedes every delivery.
* Refinement. `DeliveryStep` maps each step to `Accept`, `PassOn`, `Report` or a stutter of `Delivery`, from `StoreMoves`, `StepPassesOn`, `ExInv` and `PublishedDelivered`.
* Order. A message is owed while it has not been passed on. `OrderInv`: every PUBLISH in `toBroker` stands behind one of each older message still owed;
  while the connection is up each owed message that waits is on its way, and while it is set up none is. Promotion (`PromotedOldest`) and the loop of `_handle_connack` send in
  the order of the store, and `QueueIsServed` lets `publish()` send at once only if nothing is queued. Faults, the window and
  clean sessions do not matter. An application that publishes between CONNECT and CONNACK does (TLC finds the message overtake older ones), so
  `"connecting" \notin PublishWhen` is a hypothesis. So is `2 \notin InQos`: with an incoming message of QoS 2 `publish()` may overtake the queue (4216). What is published before CONNECT makes no difference: the broker reads none of it (`Doomed`).

The inductive invariants hold in the states TLC reaches with the constants of the session runs too.

About `Lifecycle`: `EndsAreReported` (`EndsReported`) and `EndsWhenAsked` (the action property
`RunsUntilAsked`), wherever `disconnect()` is called, whatever the broker refuses and however often connections fail. The inductive
invariant is `LifeInv` = `TypeOK` /\ `Account` /\ `Wish`. `Account` has two parts. `Places` says where the network thread has a
socket and where it has none, and who has called what it is in; `Count` gives, for each fate of the last socket and each place,
how often on_disconnect has run: `EndsReported` alone says nothing about the steps between the end of a socket and the report, of
which there are different ones in `_packet_write`, `_loop_rc_handle` and `loop_misc`. It also needs that `loop_forever` never
calls `reconnect()` with an open socket, which is a fact about `_state`: `connect_async()` is the only way into the first loop's
`reconnect()`, and it has closed the socket. `Wish` says that `_state` and `_thread_terminate` ask for the end only
when a caller did. No fairness is used.

About `Keepalive`: `ClientIsHeard` (`NeverTooSilent`), `DeadBrokerIsNoticed` (`DeadBrokerNoticed`) and `LiveBrokerIsKept`
(`LiveBrokerKept`), for every set of keepalive times and every delay of the
broker. The inductive invariant is `KeepInv` = `TypeOK` /\ `Stamps` /\ `Question` /\ `Open` /\ `LiveBrokerKept`.
`Stamps` bounds the two time stamps of `_check_keepalive` between a turn of the loop and the next tick, and how much
older the last packet really is: `_last_msg_in` is reset with PINGREQ too, which hides up to one keepalive time of
silence. `Question` follows the one question (CONNECT or PINGREQ) a client waits for from the queue to the broker and
back. `Open`: a client with a socket is not in state CONNECTION_LOST, so `_check_keepalive` may ask. `KeepaliveAssumption` asks that `MaxAge`, at which ages stop growing, lies beyond twice each keepalive, so that
the bound hides nothing.

About `Matcher`: `TrieIsDictionary` (`TrieShape`) for every set of filters and topics, from `MatchInv` = `TrieShape` /\
"`wanted` is a function". The heart is what `__delitem__` (37-50) does: `Parting` says that the climb stops where another
filter parts from the removed one, and `PrunedIs` that it takes out exactly the nodes no other filter
needs. `MatcherImplementsRegistry` (`ImplementsRegistry`) is the refinement: each step of the matcher is a step of the plain
dictionary, and `iter_match` finds what MQTT's definition of matching gives. `IterMatch` is a recursive function, and the
library's theorems about recursion take operators, so the induction is made by hand, over the distance of a
node from the last level of the topic, as a search for the smallest counterexample (`Least`). `WalkExists` shows that the recursion has a solution,
`NodeFinds` that a node finds the filters `Below` it which fit the rest of the topic if its children do. The three places
a node looks at, the child of the level, the child `+` and the value of `#`, have no filter in common, so each
is found once (`FoundBoth`), also when several filters have the same callback. `RegistryInv` is `MatchInv` with two facts a count
needs: the dictionary is finite, and what is left to call are callbacks.
`MatcherAssumption` asks that filters and topics have at least one level, which `split('/')` (23) sees to, and
that a topic has no wildcard.

About `OutPackets`: `BrokerReadsWholePackets` (`WholePackets`), `ReportedIsWritten` (`SuccessIsWritten`) and
`AcceptedIsInLine` (`NoneForgotten`), for all lengths the packets may have and whoever publishes. `WholePackets` looks at the bytes that
were taken and not at what comes next, so it is not inductive. `WriteInv` adds `Place`: what the socket has taken ends where
the packet in hand goes on (`OnTcp`: the first packet in line has `pos` bytes written and no other has any; `OnWeb`: a frame the
wrapper has begun is that of the first packet in line, nothing of it is written, and `requested` is that packet's length), and after
reconnect() nothing is begun. `SentIs` draws from it that a call of `_packet_write` goes on with its own packet and is told its own length, which fails when
frames are split. `SuccessIsWritten` and `NoneForgotten` need
`AccountInv` too: each message stands where its flags say, also between the steps in which reconnect() marks the queue as
lost and clears it, while callbacks append to it.

About `ExternalLoop`: `LoopWatchesWhatIsNeeded` (`WatchesFit`) and `SocketCallbacksInOrder` (`CallbacksInOrder`), for every
number of sockets, packets, calls and failures. Both are about a moment at which the stack of steps is empty or a
callback is called, so the invariant must say what every stack still has to do. `LoopInv` has `StackOK`: which steps
may stand behind which. on_socket_close stands directly behind the step that takes the watch away, a new socket
is announced before CONNECT is queued, and each flush stands in front of a finally clause. With it `Fit` gives what the event loop watches and was
told, counted for the socket it *knows* (`Known`), which is not `_sock` while a socket is being opened or closed; and
`Due` says that a queue without a watch has a step ahead that asks for it, and a watch without a queue one that ends it. A finally clause may
stand far down in the stack, under whole calls made by callbacks, so `Due` has to allow that. The hypothesis is the property's own: one thread.

About `OneShot`: `SimpleGathersExactly` (`GathersExactly`) and `MultipleEndsAsPromised` (`EndsAsPromised`), for every list of
messages and topics. The first needs of the subscriber only that what is collected and what is still wanted add up to
`msg_count` (`Collected`), and that nothing makes it leave before. The second is about chains: on_connect and each on_publish take the next
message, so the number of chains is the number of CONNACKs, and on_publish must not disconnect while another chain owes a message.
`Kept` says that a message the broker has not got is stored and, while the connection is up, on its way or still to be visited by the
loop of `_handle_connack`. `OneChain` describes the one chain before the first lost connection: its message is queued, on its way
or answered, or DISCONNECT is queued. So a connection that is lost leaves at most one message in the store, and from that `TwoChains` follows:
the loop sends at most one message again, and in between writes nothing of QoS 0, whose on_publish would change the dictionary under it and
raise. DISCONNECT therefore stands behind every PUBLISH (`NoneBehind`). After two lost connections none of this holds, and the property does not either.

About `PacketReader`: `PacketsHandledAsSent` (`HandledAsSent`), `PingsGetAnswers` (`PingsAnsweredOnce`) and `NoPacketIsHidden`
(`NothingHidden`), for every stream, every base and limit of the encodings, and all pieces in which it may arrive. None of the three is inductive:
what was handled says nothing of a packet half read, and `replies` nothing of a frame half received. The inductive invariant `IInv` (`ReaderInvariant`) =
`WireOK` /\ `Typed` /\ `Phased` /\ "there is a number `d` of bytes of the broker's packets that the transport has handed to `_packet_read`".
Both levels of the reader are placed by that one `d`:

* Below, `Sock`: over TCP `d` is what was received. Over the wrapper, `At` names the frame the stream stands in: all frames before it are used up and
  answered, and `_readbuffer` holds what has been received of this one, with `d` the payload already handed out. `WireFramed` shows that the broker's frames with the control
  frame in any place are so `Framed`, and `RecvIs` that a `recv()` returns the next bytes of the packets, whatever it meets (`WsHas`, `HowFar`), or waits for a frame that has not arrived.
* Above, `Reads`: with `m` packets handled, `d` is the beginning of packet `m + 1` (`Fresh`), inside its remaining length, with the multiplier and the value read so far (`InLength`), or inside its body
  (`InBody`). `CommandStep`, `LengthStep`, `BodyStep` and `HandleStep` move from one to the next, also after an exception, which leaves `_in_packet` as it was.
* `NoPacketIsHidden` takes both. The wrapper asks the socket for no byte behind what it is about to hand out (`At`: what was received ends inside the
  frame at hand), so when everything was received everything was handed out (`SocketIs`), and then each packet is handled or the last one is complete (`AllReceived`).
  `Phased` says that the loop leaves a complete packet unhandled for `select()` only in the two cases the property names.

The stream is encoded by recursive functions (`Digits`, `FlattenSeq`). Their induction is by hand too, as a search for the smallest counterexample
(`Least`, `UpTo`): first that the recursion has a solution (`DigsExist`, `FlatExists`), then what it is (`DigitsIs`,
`FlattenParts`); `PacketsPacked` is all the rest needs of it. `ReaderAssumption` asks that packets travel in the data frames: an extra frame that is a data frame is empty.

So every invariant and every action property the runs check is a theorem. Only model-checked: all liveness. It rests on fairness and ENABLED, which are out of the prover's reach.

## 5. Where the code disagrees with its documentation

Each of these has a run that shows it:

* `QoS2TwoResets`: two resets in a row turn `resend_pubrel` into `publish` (3739) and QoS 2 is delivered twice, although
  `src/README.rst:107` promises one delivery with clean_session False.
* `DisconnectLost`: `disconnect()` in `on_disconnect` is overwritten by CONNECTION_LOST (3055), and `loop_forever` does not return (2269).

Seen while modelling, without a run of their own. In the session:

* `_handle_pubrel` (4216) takes one off `_inflight_messages` for an *incoming* message; every incoming QoS 2
  message lets one more outgoing message in flight than `max_inflight_messages` (1031). It does so before it takes `_out_message_mutex`
  (4218): `publish()` on another thread may take the slot and send its message before older ones that are queued, so the queued
  messages are not always the youngest and subscribers may see a new message first. `ResumeReachesAll` says that nothing is stranded by it.
* A reset puts queued messages into state `publish` with a window of 0 in flight (3719-3740), and CONNACK then sends the
  whole store, so after a reconnection the limit is exceeded by design.
* `_mqttv5_first_connect` is cleared by a refused CONNACK too (3908), although the clean start flag is to be sent
  "on the first successful connect only" (1420-1422).
* With manual acknowledgement a PUBREL for an unknown message is never answered (4223-4229).
* `subscribe()` and QoS 0 take message ids without looking at `_out_messages` (3304).

In the life of a connection:

* `disconnect()` from another thread is lost when it falls between `should_exit()` and the end of `reconnect()` (1571), or when CONNACK
  is handled before DISCONNECT is written (3901). `Lifecycle` has these steps, and checks that they do no other harm.
* An unanswered PINGREQ may call `on_disconnect` twice for one connection (3291-3302 and 2156-2173). So does
  a `loop_write()` inside `_handle_connack` that loses the connection while messages are left (4017, then 2108). `Lifecycle` has
  both, and `EndsReported` says that it happens nowhere else and never three times.
* `_handle_connack` answers a refused MQTT 3.1.1, or a refused empty client id, with `reconnect()` (3883, 3894). It closes the open socket
  and nobody is told; its OSError is caught nowhere and ends the network thread (`Abandoned`), although `loop_forever` is to handle reconnecting (2268).
* `connect_async()` (1526) and `connect()` (1573) close an open socket, which `loop_stop()` may leave behind, without on_disconnect,
  which is "called when the connection is closed" (`src/README.rst:253`).
* `reconnect()` in a callback waits for `_in_callback_mutex`, which the thread itself holds, for ever.
* `loop_stop()` reads `_thread` twice (2364); when the thread ends in between, `join()` raises AttributeError.

In the queue and the reader:

* When the socket takes a part of a WebSocket frame, the wrapper returns 0 to be called with "the same data again" (4978), but
  `_packet_write` drops the packet (3247). The next packet is handed to the wrapper, which finishes the first frame and returns the first
  packet's length (4976): the next packet is reported as written if it is as long, else it is put back and only its tail goes out, or it is
  dropped. `OutPackets` has this as `"websockets_parts"`.
* `wait_for_publish()` can hang although `reconnect()` marks lost packets: a packet queued between the loop and
  the `clear()` is never marked (1575-1582).
* The answer to a PING or CONNCLOSE is sent once, after the frame was forgotten (4940, 4945): if the socket is full it is lost, and if the
  socket takes a part, the rest never follows and the next packet stands in the middle of a frame. The comment at 4936 says that
  answers may not arrive.
* `publish()` of QoS 0 on a thread stores SUCCESS over CONN_LOST (1781), and `notify()` wakes one waiter only (540).
* A body read in exactly 100 pieces is handled only when another byte arrives (3140). `NothingHidden` leaves it out.

In the matcher: `message_callback_add` does not check its filter, so one with `#` in the middle matches nothing, and
a filter `$share/...` never matches, since messages carry the plain topic. A removed callback may still run
for the message being handled.

In the helpers:

* `multiple()` may return with a message of QoS 1 unanswered when two connections are lost: the second of two chains of
  `on_publish` finds the deque empty (`publish.py:100`).
* After two lost connections an `on_publish` inside the loop of `_handle_connack` may publish, and the loop ends with
  `RuntimeError: OrderedDict mutated during iteration` (3956, 4014).
* `multiple()` and `single()` never return when the last message has QoS 0 and `reconnect()` drops it.

With an external event loop:

* A second thread that publishes breaks the order of the socket callbacks `src/README.rst:478-485` promises, and may leave a watch on a closed
  socket, a watch for writing with nothing to write (a busy loop), or a queued packet without a watch. The last one waits
  for PINGREQ, or for the keepalive to close the connection; `QueuedIsWritten` says that no more is lost.
* An `on_disconnect` that raises behind a written DISCONNECT leaves the socket open (3236-3241).

## 6. Not modelled, and why

Sockets, TLS, proxies, tables, logging and deprecated wrappers keep no protocol state. Subscriptions keep none but
the message id, which `ConsumeMid` takes; `unsubscribe()` and UNSUBACK follow the same lines as `subscribe()` and SUBACK. Bodies of
packets and `Properties` are parsed without state. Locks are taken as the code takes them: each locked region is one step; the
order of the locks has no model. The threaded models are about `loop_start()`, and loops on several threads are left
out. `ExternalLoop` is about TCP: with TLS bytes may wait inside the `ssl` object where an event loop does not see them. A PONG inside a partly
written WebSocket frame (4945) needs both directions of the wrapper, which are in two modules.

## 7. Plan

Done: Session, Lifecycle, Keepalive, OutPackets, PacketReader, Matcher, OneShot, ExternalLoop. Next:

1. `Locks`: which mutex each entry point takes in which order, and callbacks that call back.
2. The WebSocket's two directions together: a PONG inside a partly written frame.
3. `unsubscribe()` and UNSUBACK beside SUBACK, with ids shared with `publish()`.
