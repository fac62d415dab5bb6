----------------------------- MODULE EventBroker -----------------------------
(***************************************************************************)
(* rules_changed events: a handler that has written a rule broadcasts to   *)
(* the SSE connections of the rule's service, one buffered channel each.   *)
(* A send never blocks: when the channel is full the event is dropped.     *)
(* Subscribe and Unsubscribe hold the broker's write lock from end to end, *)
(* Broadcast its read lock while it walks the subscribers.                 *)
(***************************************************************************)
EXTENDS Integers, Sequences, FiniteSets

CONSTANTS
  Clients,   \* SSE connections of one service
  Writers,   \* requests that write a rule of that service (bound)
  Buffer,    \* capacity of a subscriber's channel: 16 in the code
  Stalled,   \* clients that do not read
  Faults     \* "version": reading rule_version for the event may fail

ASSUME BufferAssumption == Buffer \in Nat \ {0} /\ Stalled \subseteq Clients
ASSUME FaultAssumption == Faults \subseteq {"version"}

VARIABLES
  version,        \* rule_version
  pc, news,       \* writers: where each is, the version it announces
  todo,           \*   the subscribers it has yet to send to
  subs,           \* clients[service]
  chan, closed,   \* channels: what each holds, which are closed
  conn,           \* connections: "new", "open", "leaving", "gone"
  since, fetched  \* clients: the version at the subscription; the version
                  \*   current when they last received an event

broker == <<subs, chan, closed>>
client == <<conn, since, fetched>>
vars   == <<version, pc, news, todo, subs, chan, closed, conn, since, fetched>>

TypeOK ==
  /\ version \in Nat
  /\ pc \in [Writers -> {"idle", "read", "lock", "send", "done", "silent"}]
  /\ news \in [Writers -> Nat] /\ todo \in [Writers -> SUBSET Clients]
  /\ subs \subseteq Clients /\ closed \subseteq Clients
  /\ chan \in [Clients -> Seq(Nat)] /\ \A c \in Clients : Len(chan[c]) <= Buffer
  /\ conn \in [Clients -> {"new", "open", "leaving", "gone"}]
  /\ since \in [Clients -> Nat] /\ fetched \in [Clients -> Nat]

Init ==
  /\ version = 0
  /\ pc = [w \in Writers |-> "idle"]
  /\ news = [w \in Writers |-> 0] /\ todo = [w \in Writers |-> {}]
  /\ subs = {} /\ closed = {} /\ chan = [c \in Clients |-> <<>>]
  /\ conn = [c \in Clients |-> "new"]
  /\ since = [c \in Clients |-> 0] /\ fetched = [c \in Clients |-> 0]

Readers == {w \in Writers : pc[w] = "send"}

-----------------------------------------------------------------------------
(* A rule handler: the transaction that writes and bumps, and then         *)
(* broadcastRulesChanged.                                                  *)

Goto(w, l) == pc' = [pc EXCEPT ![w] = l]

WriteRule(w) ==
  /\ pc[w] = "idle" /\ Goto(w, "read")
  /\ version' = version + 1
  /\ UNCHANGED <<news, todo, broker, client>>

(* The version is read again, outside that transaction; when Version()     *)
(* fails no event is sent.                                                 *)
ReadVersion(w) ==
  /\ pc[w] = "read" /\ Goto(w, "lock")
  /\ news' = [news EXCEPT ![w] = version]
  /\ UNCHANGED <<version, todo, broker, client>>

VersionFails(w) ==
  /\ "version" \in Faults
  /\ pc[w] = "read" /\ Goto(w, "silent")
  /\ UNCHANGED <<version, news, todo, broker, client>>

BroadcastLock(w) ==
  /\ pc[w] = "lock" /\ Goto(w, "send")
  /\ todo' = [todo EXCEPT ![w] = subs]
  /\ UNCHANGED <<version, news, broker, client>>

(* Mutants: a send that waits for room; a full channel that ends the loop. *)
SendWaits(w, c) ==
  /\ pc[w] = "send" /\ c \in todo[w] /\ Len(chan[c]) < Buffer
  /\ todo' = [todo EXCEPT ![w] = @ \ {c}]
  /\ chan' = [chan EXCEPT ![c] = Append(@, news[w])]
  /\ UNCHANGED <<version, pc, news, subs, closed, client>>

SendGivesUp(w, c) ==
  \/ SendWaits(w, c)
  \/ /\ pc[w] = "send" /\ c \in todo[w] /\ Len(chan[c]) = Buffer
     /\ todo' = [todo EXCEPT ![w] = {}]
     /\ UNCHANGED <<version, pc, news, broker, client>>

Send(w, c) ==
  /\ pc[w] = "send" /\ c \in todo[w]
  /\ todo' = [todo EXCEPT ![w] = @ \ {c}]
  /\ IF Len(chan[c]) < Buffer
     THEN chan' = [chan EXCEPT ![c] = Append(@, news[w])]
     ELSE UNCHANGED chan
  /\ UNCHANGED <<version, pc, news, subs, closed, client>>

BroadcastUnlock(w) ==
  /\ pc[w] = "send" /\ todo[w] = {} /\ Goto(w, "done")
  /\ UNCHANGED <<version, news, todo, broker, client>>

-----------------------------------------------------------------------------
(* An SSE connection: handleSSEEvents.                                     *)

Subscribe(c) ==
  /\ conn[c] = "new" /\ Readers = {}
  /\ conn' = [conn EXCEPT ![c] = "open"]
  /\ subs' = subs \cup {c} /\ since' = [since EXCEPT ![c] = version]
  /\ UNCHANGED <<version, pc, news, todo, chan, closed, fetched>>

(* The event is written out, and the instance polls.                       *)
Deliver(c) ==
  /\ conn[c] = "open" /\ c \notin Stalled /\ chan[c] # <<>>
  /\ chan' = [chan EXCEPT ![c] = Tail(@)]
  /\ fetched' = [fetched EXCEPT ![c] = version]
  /\ UNCHANGED <<version, pc, news, todo, subs, closed, conn, since>>

(* The client goes away, or a write to it fails; the handler returns.      *)
Leave(c) ==
  /\ conn[c] = "open"
  /\ conn' = [conn EXCEPT ![c] = "leaving"]
  /\ UNCHANGED <<version, pc, news, todo, broker, since, fetched>>

(* Mutants: a close outside the lock; one that waits for an empty channel. *)
UnsubscribeUnlocked(c) ==
  /\ conn[c] = "leaving"
  /\ conn' = [conn EXCEPT ![c] = "gone"]
  /\ subs' = subs \ {c} /\ closed' = closed \cup {c}
  /\ UNCHANGED <<version, pc, news, todo, chan, since, fetched>>

UnsubscribeDrained(c) == chan[c] = <<>> /\ Readers = {} /\ UnsubscribeUnlocked(c)

Unsubscribe(c) ==
  /\ conn[c] = "leaving" /\ Readers = {}
  /\ conn' = [conn EXCEPT ![c] = "gone"]
  /\ subs' = subs \ {c} /\ closed' = closed \cup {c}
  /\ UNCHANGED <<version, pc, news, todo, chan, since, fetched>>

Broadcasting(w) == \/ ReadVersion(w) \/ VersionFails(w)
                   \/ BroadcastLock(w) \/ BroadcastUnlock(w)
                   \/ \E c \in Clients : Send(w, c)

Next ==
  \/ \E w \in Writers : WriteRule(w) \/ Broadcasting(w)
  \/ \E c \in Clients : Subscribe(c) \/ Deliver(c) \/ Leave(c) \/ Unsubscribe(c)

Spec == Init /\ [][Next]_vars

(* Goroutines run; the runtime lets a waiting writer of an RWMutex in      *)
(* before later readers, so that Unsubscribe is not kept out for ever.     *)
LiveSpec ==
  /\ Spec
  /\ \A w \in Writers : WF_vars(Broadcasting(w))
  /\ \A c \in Clients : SF_vars(Unsubscribe(c))

-----------------------------------------------------------------------------
(* No writer is about to send on a closed channel, which would panic: the  *)
(* write lock of Unsubscribe keeps the close out of a broadcast.           *)
NoSendOnClosed ==
  \A w \in Writers : pc[w] = "send" => todo[w] \cap closed = {}

(* Dropping an event loses nothing: it is dropped only on a channel that   *)
(* holds another one, and the poll that one leads to is later still.  Once *)
(* the writers are done and its channel is empty, an instance has polled   *)
(* since the last write.  A writer that could not read the version sends   *)
(* nothing, and then the property promises nothing.                        *)
DropsAreHarmless ==
  (\A w \in Writers : pc[w] \in {"idle", "done"}) =>
    \A c \in subs : chan[c] = <<>> /\ since[c] < version => fetched[c] = version

(* A client that does not read keeps no writer from finishing its request. *)
WritersFinish == \A w \in Writers : []<>(pc[w] \in {"idle", "done", "silent"})

(* Every connection that ends is taken out of the broker.                  *)
LeaversAreForgotten == \A c \in Clients : []<>(conn[c] = "leaving" => c \notin subs)
=============================================================================
