--------------------------- MODULE EventSubscriber ---------------------------
(***************************************************************************)
(* Filters and subscriptions of the Ethereum JSON-RPC: the calls of         *)
(* FiltersAPI, the goroutine each of them starts, the event loop and the    *)
(* consumer of EventSubscriber, and the event bus with one publishing       *)
(* goroutine per topic channel.  Every behaviour is about one topic:        *)
(* topics share no state but the filters map and its lock.  The websocket   *)
(* server has an EventSubscriber of its own, so a behaviour is about        *)
(* filters and push subscriptions, or about websocket subscriptions.        *)
(***************************************************************************)
EXTENDS Integers, FiniteSets

CONSTANTS
    Subs,       \* subscriptions (each call makes one with an ID of its own)
    MaxEvents,  \* bound on the events of the chain
    FilterCap   \* RPCFilterCap

NoChan == "none"

ASSUME EventsAssumption ==
    NoChan \notin Subs /\ IsFiniteSet(Subs) /\ MaxEvents \in Nat /\ FilterCap \in Nat

FilterKinds == {"blockFilter", "pendingFilter", "logFilter"}
PushKinds == {"newHeads", "newPending", "logs"}
WsKinds == {"wsHeads", "wsPending", "wsLogs"}

\* The kinds of subscription that listen to the same query of one EventSubscriber.
KindsOfTopic == {{"blockFilter", "newHeads"}, {"pendingFilter", "newPending"},
                 {"logFilter", "logs"}} \cup {{k} : k \in WsKinds}

Chans == Subs \* topic channels: each is made by the installation of a subscription

\* Data of another type than the query is about is "mistyped"; otherwise the handlers find in it
\* what they decode (a transaction, its response, a header with its bloom), or it is "broken".
Shapes == {"good", "mistyped", "broken"}
NoEvent == [id |-> 0, shape |-> "none"]

VARIABLES
    kind,         \* the kind of each subscription
    \* memEventBus
    topicKnown,   \* topics holds the topic
    subscribers,  \* the subscriptions registered under the topic
    \* EventSubscriber
    index,        \* Index: installed subscriptions
    nodeFeeds,    \* the node was asked for the events of the query
    topicChan,    \* TopicChans: the channel of the topic, if any
    closedTopics, \* topic channels that were closed
    publisher,    \* the goroutine publishTopic of each topic channel
    held,         \* the event a publisher has received
    consumer,     \* consumeEvents: the event and channel it is about to use
    nextEvent,
    \* one subscription each
    caller,       \* where the call that creates it is
    goroutine,    \* where its goroutine is
    received,     \* the event its goroutine works on
    closedSubs,   \* subscriptions whose EventCh is closed
    closedErr,    \* subscriptions whose ErrCh is closed
    uninstalls,   \* number of goroutines of Unsubscribe waiting to send
    disconnected, \* push and websocket subscriptions whose client is gone
    \* FiltersAPI
    filters,      \* subscriptions with an entry in the filters map
    filtersMu,    \* the subscription whose creation holds the lock, or "free"
    content,      \* what each client has been given or may poll
    polled,       \* what each client polled
    panics,       \* ways in which the process has panicked
    late          \* history: subscriptions registered when the topic had no channel

busVars == <<topicKnown, subscribers>>
loopVars == <<index, nodeFeeds, topicChan, closedTopics>>
feedVars == <<publisher, held, consumer, nextEvent>>
subVars == <<caller, goroutine, received>>
signalVars == <<closedSubs, closedErr, uninstalls, disconnected>>
apiVars == <<filters, filtersMu, content, polled>>
vars == <<kind, late, busVars, loopVars, feedVars, subVars, signalVars, apiVars, panics>>

Running == panics = {}
Unlocked == filtersMu = "free"
IsFilter(s) == kind[s] \in FilterKinds
IsPush(s) == kind[s] \in PushKinds
IsWs(s) == kind[s] \in WsKinds

-----------------------------------------------------------------------------
\* NewBlockFilter, NewPendingTransactionFilter and NewFilter take the lock until the
\* subscription is made, and refuse one filter too many.
NewFilter(s) ==
    /\ caller[s] = "idle" /\ IsFilter(s)
    /\ Unlocked
    /\ Cardinality(filters) < FilterCap
    /\ filtersMu' = s
    /\ caller' = [caller EXCEPT ![s] = "topics"]
    /\ UNCHANGED <<kind, late, busVars, loopVars, feedVars, goroutine, received, signalVars,
                   filters, content, polled, panics>>

\* NewHeads, NewPendingTransactions and Logs subscribe without a lock.
NewPush(s) ==
    /\ caller[s] = "idle" /\ IsPush(s)
    /\ caller' = [caller EXCEPT ![s] = "topics"]
    /\ UNCHANGED <<kind, late, busVars, loopVars, feedVars, goroutine, received, signalVars,
                   apiVars, panics>>

\* readLoop of a websocket connection gets eth_subscribe; it reads on when the call is done.
NewWs(s) ==
    /\ caller[s] = "idle" /\ IsWs(s)
    /\ caller' = [caller EXCEPT ![s] = "topics"]
    /\ UNCHANGED <<kind, late, busVars, loopVars, feedVars, goroutine, received, signalVars,
                   apiVars, panics>>

CallFails(s) ==
    /\ caller' = [caller EXCEPT ![s] = "failed"]
    /\ filtersMu' = IF filtersMu = s THEN "free" ELSE filtersMu

\* subscribe: with the topic on the bus the subscription is not installed; otherwise the
\* node is subscribed to, which may fail, and the event loop is asked to install it.
SeeTopics(s) ==
    /\ caller[s] = "topics"
    /\ \/ /\ topicKnown
          /\ caller' = [caller EXCEPT ![s] = "check"]
          /\ UNCHANGED <<nodeFeeds, filtersMu>>
       \/ /\ ~topicKnown
          /\ nodeFeeds' = TRUE
          /\ caller' = [caller EXCEPT ![s] = "install"]
          /\ UNCHANGED filtersMu
       \/ ~topicKnown /\ CallFails(s) /\ UNCHANGED nodeFeeds
    /\ UNCHANGED <<kind, late, busVars, index, topicChan, closedTopics, feedVars, goroutine, received, signalVars,
                   filters, content, polled, panics>>

\* memEventBus.Subscribe looks for the topic under one lock ...
BusCheck(s) ==
    /\ caller[s] = "check"
    /\ IF topicKnown
       THEN caller' = [caller EXCEPT ![s] = "insert"] /\ UNCHANGED filtersMu
       ELSE CallFails(s)
    /\ UNCHANGED <<kind, late, busVars, loopVars, feedVars, goroutine, received, signalVars,
                   filters, content, polled, panics>>

\* ... and registers the channel under another.
BusInsert(s) ==
    /\ caller[s] = "insert"
    /\ subscribers' = subscribers \cup {s}
    /\ late' = IF topicChan = NoChan THEN late \cup {s} ELSE late
    /\ caller' = [caller EXCEPT ![s] = "launch"]
    /\ UNCHANGED <<kind, topicKnown, loopVars, feedVars, goroutine, received, signalVars,
                   apiVars, panics>>

\* The call ends: the filter is stored, the goroutine started, the lock released.
Launch(s) ==
    /\ caller[s] = "launch"
    /\ filters' = IF IsFilter(s) THEN filters \cup {s} ELSE filters
    /\ filtersMu' = IF filtersMu = s THEN "free" ELSE filtersMu
    /\ goroutine' = [goroutine EXCEPT ![s] = "select"]
    /\ caller' = [caller EXCEPT ![s] = "returned"]
    /\ UNCHANGED <<kind, late, busVars, loopVars, feedVars, received, signalVars, content,
                   polled, panics>>

-----------------------------------------------------------------------------
\* Mutant: Installed is not closed when the topic exists already.
InstallMut(s) ==
    /\ caller[s] = "install"
    /\ index' = index \cup {s}
    /\ IF topicKnown
       THEN UNCHANGED <<topicKnown, topicChan, publisher, caller>>
       ELSE /\ topicKnown' = TRUE
            /\ topicChan' = s
            /\ publisher' = [publisher EXCEPT ![s] = "recv"]
            /\ caller' = [caller EXCEPT ![s] = "check"]
    /\ UNCHANGED <<kind, late, subscribers, nodeFeeds, closedTopics, held, consumer, nextEvent,
                   goroutine, received, signalVars, apiVars, panics>>

\* The event loop installs a subscription.  AddTopic starts a publisher for a new
\* channel, or refuses because another call has added the topic meanwhile.
Install(s) ==
    /\ caller[s] = "install"
    /\ index' = index \cup {s}
    /\ IF topicKnown
       THEN UNCHANGED <<topicKnown, topicChan, publisher>>
       ELSE /\ topicKnown' = TRUE
            /\ topicChan' = s
            /\ publisher' = [publisher EXCEPT ![s] = "recv"]
    /\ caller' = [caller EXCEPT ![s] = "check"]
    /\ UNCHANGED <<kind, late, subscribers, nodeFeeds, closedTopics, held, consumer, nextEvent, goroutine,
                   received, signalVars, apiVars, panics>>

\* The event loop uninstalls a subscription; with the last installed one it unsubscribes
\* from the node (an error is only logged), removes the topic and closes its channel.  ErrCh is closed; closing it again would panic.
Uninstall(s) ==
    /\ uninstalls[s] > 0
    /\ uninstalls' = [uninstalls EXCEPT ![s] = @ - 1]
    /\ index' = index \ {s}
    /\ nodeFeeds' \in IF index' = {} THEN {nodeFeeds, FALSE} ELSE {nodeFeeds}
    /\ IF index' = {} /\ topicChan # NoChan
       THEN /\ topicKnown' = FALSE
            /\ closedTopics' = closedTopics \cup {topicChan}
            /\ topicChan' = NoChan
       ELSE UNCHANGED <<topicKnown, closedTopics, topicChan>>
    /\ closedErr' = closedErr \cup {s}
    /\ panics' = IF s \in closedErr THEN panics \cup {"close of closed ErrCh"} ELSE panics
    /\ UNCHANGED <<kind, late, subscribers, feedVars, subVars, closedSubs, disconnected, apiVars>>

\* consumeEvents takes an event from the node and looks the channel up under the lock.
Consume ==
    /\ consumer.chan = NoChan
    /\ nextEvent < MaxEvents
    /\ nodeFeeds
    /\ topicChan # NoChan
    /\ nextEvent' = nextEvent + 1
    /\ \E shape \in Shapes :
          consumer' = [chan |-> topicChan, event |-> [id |-> nextEvent + 1, shape |-> shape]]
    /\ UNCHANGED <<kind, late, busVars, loopVars, publisher, held, subVars, signalVars, apiVars,
                   panics>>

\* It sends on the channel without the lock: the publisher takes the event, or the timer
\* of a second drops it, or the channel was closed meanwhile.
SendToTopic ==
    /\ consumer.chan # NoChan
    /\ LET c == consumer.chan
       IN  \/ /\ c \in closedTopics
              /\ panics' = panics \cup {"send on closed topic channel"}
              /\ UNCHANGED <<publisher, held>>
           \/ /\ c \notin closedTopics
              /\ publisher[c] = "recv"
              /\ publisher' = [publisher EXCEPT ![c] = "publish"]
              /\ held' = [held EXCEPT ![c] = consumer.event]
              /\ UNCHANGED panics
           \/ /\ c \notin closedTopics
              /\ UNCHANGED <<publisher, held, panics>>
    /\ consumer' = [chan |-> NoChan, event |-> NoEvent]
    /\ UNCHANGED <<kind, late, busVars, loopVars, nextEvent, subVars, signalVars, apiVars>>

-----------------------------------------------------------------------------
\* Mutant: the event is kept and published again.
PublishMut(c) ==
    /\ publisher[c] = "publish"
    /\ LET ready == {s \in subscribers : goroutine[s] = "select"}
       IN  /\ goroutine' = [s \in Subs |-> IF s \in ready THEN "event" ELSE goroutine[s]]
           /\ received' = [s \in Subs |-> IF s \in ready THEN held[c] ELSE received[s]]
           /\ publisher' = [publisher EXCEPT ![c] = IF ready = subscribers THEN "recv" ELSE "publish"]
    /\ UNCHANGED <<kind, late, busVars, loopVars, held, consumer, nextEvent, caller, signalVars,
                   apiVars, panics>>

\* publishAllSubscribers hands the event to every subscriber that waits for one now.
Publish(c) ==
    /\ publisher[c] = "publish"
    /\ LET ready == {s \in subscribers : goroutine[s] = "select"}
       IN  /\ goroutine' = [s \in Subs |-> IF s \in ready THEN "event" ELSE goroutine[s]]
           /\ received' = [s \in Subs |-> IF s \in ready THEN held[c] ELSE received[s]]
    /\ publisher' = [publisher EXCEPT ![c] = "recv"]
    /\ held' = [held EXCEPT ![c] = NoEvent]
    /\ UNCHANGED <<kind, late, busVars, loopVars, consumer, nextEvent, caller, signalVars,
                   apiVars, panics>>

\* Mutant: the subscribers are dropped and their channels left open.
CloseAllSubscribersMut(c) ==
    /\ publisher[c] = "recv" /\ c \in closedTopics
    /\ subscribers' = {}
    /\ publisher' = [publisher EXCEPT ![c] = "forget"]
    /\ UNCHANGED <<kind, late, topicKnown, loopVars, held, consumer, nextEvent, subVars, signalVars,
                   apiVars, panics>>

\* When its channel is closed, publishTopic closes all channels registered under the name
\* of the topic ...
CloseAllSubscribers(c) ==
    /\ publisher[c] = "recv" /\ c \in closedTopics
    /\ panics' = IF subscribers \cap closedSubs # {} THEN panics \cup {"close of closed EventCh"}
                 ELSE panics
    /\ closedSubs' = closedSubs \cup subscribers
    /\ subscribers' = {}
    /\ publisher' = [publisher EXCEPT ![c] = "forget"]
    /\ UNCHANGED <<kind, late, topicKnown, loopVars, held, consumer, nextEvent, subVars, closedErr,
                   uninstalls, disconnected, apiVars>>

\* ... and removes the name, even if it was added again meanwhile.
ForgetTopic(c) ==
    /\ publisher[c] = "forget"
    /\ topicKnown' = FALSE
    /\ publisher' = [publisher EXCEPT ![c] = "done"]
    /\ UNCHANGED <<kind, late, subscribers, loopVars, held, consumer, nextEvent, subVars,
                   signalVars, apiVars, panics>>
-----------------------------------------------------------------------------
Ends(s) ==
    /\ goroutine' = [goroutine EXCEPT ![s] = "done"]
    /\ received' = [received EXCEPT ![s] = NoEvent]
    /\ subscribers' = subscribers \ {s}

Waits(s) ==
    /\ goroutine' = [goroutine EXCEPT ![s] = "select"]
    /\ received' = [received EXCEPT ![s] = NoEvent]
    /\ UNCHANGED subscribers

Gives(s) == content' = [content EXCEPT ![s] = @ \cup {received[s].id}]

\* What a handler may do with an event that it could read: nothing in it need match.
GivesAny(s) == Gives(s) \/ UNCHANGED content

\* The goroutine of a filter keeps what it received for the next poll, under the lock.  It skips
\* data of another type and a transaction that does not decode without taking the lock.  A log
\* filter ends at a response that does not decode, and leaves its entry in the map.
HandleFilterEvent(s) ==
    /\ goroutine[s] = "event" /\ IsFilter(s)
    /\ LET shape == received[s].shape
       IN  \/ /\ shape = "good" \/ (shape = "broken" /\ kind[s] = "blockFilter")
              /\ Unlocked
              /\ IF s \in filters THEN GivesAny(s) ELSE UNCHANGED content
              /\ Waits(s)
           \/ /\ shape = "mistyped" \/ (shape = "broken" /\ kind[s] = "pendingFilter")
              /\ UNCHANGED content
              /\ Waits(s)
           \/ /\ shape = "broken" /\ kind[s] = "logFilter"
              /\ UNCHANGED content
              /\ Ends(s)
    /\ UNCHANGED <<kind, late, topicKnown, loopVars, feedVars, caller, signalVars, filters,
                   filtersMu, polled, panics>>

\* The goroutine of a push subscription notifies its client and skips data of another type.
\* NewHeads and Logs end at what does not decode, Logs also at an event of no Ethereum
\* transaction (which it looks for first), NewPendingTransactions skips it.
HandlePushEvent(s) ==
    /\ goroutine[s] = "event" /\ IsPush(s)
    /\ LET shape == received[s].shape
       IN  \/ shape = "good" /\ GivesAny(s) /\ Waits(s)
           \/ /\ shape = "mistyped" \/ (shape = "broken" /\ kind[s] = "newPending")
              /\ UNCHANGED content
              /\ Waits(s)
           \/ /\ (shape = "broken" /\ kind[s] # "newPending") \/ kind[s] = "logs"
              /\ UNCHANGED content
              /\ Ends(s)
    /\ UNCHANGED <<kind, late, topicKnown, loopVars, feedVars, caller, signalVars, filters,
                   filtersMu, polled, panics>>

\* The goroutine of a websocket subscription writes to the connection, which fails when the
\* connection is closed, and skips what is not of its kind; newHeads reads no bloom.  That of
\* logs ends at a response that does not decode, and leaves the subscription on the bus.
HandleWsEvent(s) ==
    /\ goroutine[s] = "event" /\ IsWs(s)
    /\ LET shape == received[s].shape
       IN  \/ /\ shape = "good" \/ (shape = "broken" /\ kind[s] = "wsHeads")
              /\ GivesAny(s)
              /\ Waits(s)
           \/ /\ shape = "mistyped" \/ (shape = "broken" /\ kind[s] = "wsPending")
              /\ UNCHANGED content
              /\ Waits(s)
           \/ /\ shape = "broken" /\ kind[s] = "wsLogs"
              /\ goroutine' = [goroutine EXCEPT ![s] = "done"]
              /\ received' = [received EXCEPT ![s] = NoEvent]
              /\ UNCHANGED <<subscribers, content>>
    /\ UNCHANGED <<kind, late, topicKnown, loopVars, feedVars, caller, signalVars, filters,
                   filtersMu, polled, panics>>

\* EventCh was closed.  Filters and NewPendingTransactions delete the entry of the filters
\* map, the others ask the event loop to uninstall them.  (Websocket subscriptions are
\* never uninstalled, so that their channels stay open.)
ChannelClosed(s) ==
    /\ goroutine[s] = "select" /\ s \in closedSubs /\ ~IsWs(s)
    /\ IF kind[s] \in FilterKinds \cup {"newPending"}
       THEN /\ Unlocked
            /\ filters' = filters \ {s}
            /\ UNCHANGED uninstalls
       ELSE /\ uninstalls' = [uninstalls EXCEPT ![s] = @ + 1]
            /\ UNCHANGED filters
    /\ Ends(s)
    /\ UNCHANGED <<kind, late, topicKnown, loopVars, feedVars, caller, closedSubs,
                   closedErr, disconnected, filtersMu, content, polled, panics>>

\* Mutant: the goroutine of a filter goes on after ErrCh is closed.
ErrorClosedMut(s) ==
    /\ goroutine[s] = "select" /\ IsFilter(s) /\ s \in closedErr
    /\ Unlocked
    /\ filters' = filters \ {s}
    /\ Waits(s)
    /\ UNCHANGED <<kind, late, topicKnown, loopVars, feedVars, caller, signalVars,
                   filtersMu, content, polled, panics>>

\* ErrCh was closed by the event loop.  A pending transaction filter goes on waiting.
ErrorClosed(s) ==
    /\ goroutine[s] = "select" /\ IsFilter(s) /\ s \in closedErr
    /\ Unlocked
    /\ filters' = filters \ {s}
    /\ IF kind[s] = "pendingFilter" THEN Waits(s) ELSE Ends(s)
    /\ UNCHANGED <<kind, late, topicKnown, loopVars, feedVars, caller, signalVars,
                   filtersMu, content, polled, panics>>

\* The client of a push subscription unsubscribed or its connection ended.
ClientGone(s) ==
    /\ goroutine[s] = "select" /\ s \in disconnected /\ IsPush(s)
    /\ uninstalls' = [uninstalls EXCEPT ![s] = @ + 1]
    /\ Ends(s)
    /\ UNCHANGED <<kind, late, topicKnown, loopVars, feedVars, caller, closedSubs,
                   closedErr, disconnected, apiVars, panics>>

-----------------------------------------------------------------------------
\* Mutant: the entry stays in the map.
RemoveFilterMut(s) ==
    /\ Unlocked
    /\ s \in filters
    /\ uninstalls[s] < 2
    /\ uninstalls' = [uninstalls EXCEPT ![s] = @ + 1]
    /\ UNCHANGED <<kind, late, busVars, loopVars, feedVars, subVars, closedSubs, closedErr,
                   disconnected, apiVars, panics>>

\* UninstallFilter, and timeoutLoop for a filter whose deadline has passed.
RemoveFilter(s) ==
    /\ Unlocked
    /\ s \in filters
    /\ filters' = filters \ {s}
    /\ uninstalls' = [uninstalls EXCEPT ![s] = @ + 1]
    /\ UNCHANGED <<kind, late, busVars, loopVars, feedVars, subVars, closedSubs, closedErr,
                   disconnected, filtersMu, content, polled, panics>>

\* GetFilterChanges hands out what was collected since the last poll.
GetFilterChanges(s) ==
    /\ Unlocked
    /\ s \in filters
    /\ content[s] # {}
    /\ polled' = [polled EXCEPT ![s] = @ \cup content[s]]
    /\ content' = [content EXCEPT ![s] = {}]
    /\ UNCHANGED <<kind, late, busVars, loopVars, feedVars, subVars, signalVars, filters, filtersMu,
                   panics>>

\* A client of a push subscription goes away (rpcSub.Err).
Disconnect(s) ==
    /\ IsPush(s) /\ caller[s] = "returned" /\ s \notin disconnected
    /\ disconnected' = disconnected \cup {s}
    /\ UNCHANGED <<kind, late, busVars, loopVars, feedVars, subVars, closedSubs, closedErr,
                   uninstalls, apiVars, panics>>

\* readLoop gets eth_unsubscribe, or ends with its connection: it takes the subscription off
\* the bus.  Neither the event loop nor the goroutine of the subscription is told.
WsUnsubscribe(s) ==
    /\ IsWs(s) /\ caller[s] = "returned" /\ s \notin disconnected
    /\ disconnected' = disconnected \cup {s}
    /\ subscribers' = subscribers \ {s}
    /\ UNCHANGED <<kind, late, topicKnown, loopVars, feedVars, subVars, closedSubs, closedErr,
                   uninstalls, apiVars, panics>>

-----------------------------------------------------------------------------
Init ==
    /\ \E K \in KindsOfTopic : kind \in [Subs -> K]
    /\ topicKnown = FALSE
    /\ subscribers = {}
    /\ index = {}
    /\ nodeFeeds = FALSE
    /\ topicChan = NoChan
    /\ closedTopics = {}
    /\ publisher = [c \in Chans |-> "none"]
    /\ held = [c \in Chans |-> NoEvent]
    /\ consumer = [chan |-> NoChan, event |-> NoEvent]
    /\ nextEvent = 0
    /\ caller = [s \in Subs |-> "idle"]
    /\ goroutine = [s \in Subs |-> "none"]
    /\ received = [s \in Subs |-> NoEvent]
    /\ closedSubs = {}
    /\ closedErr = {}
    /\ uninstalls = [s \in Subs |-> 0]
    /\ disconnected = {}
    /\ filters = {}
    /\ filtersMu = "free"
    /\ content = [s \in Subs |-> {}]
    /\ polled = [s \in Subs |-> {}]
    /\ panics = {}
    /\ late = {}

\* The steps of a call, of the goroutine it starts, and of a publisher.
CallStep(s) == SeeTopics(s) \/ BusCheck(s) \/ BusInsert(s) \/ Launch(s) \/ Install(s)
GoroutineStep(s) ==
    \/ HandleFilterEvent(s) \/ HandlePushEvent(s) \/ HandleWsEvent(s)
    \/ ChannelClosed(s) \/ ErrorClosed(s) \/ ClientGone(s)
PublisherStep(c) == Publish(c) \/ CloseAllSubscribers(c) \/ ForgetTopic(c)

Next ==
    /\ Running
    /\ \/ \E s \in Subs :
            \/ NewFilter(s) \/ NewPush(s) \/ NewWs(s) \/ CallStep(s) \/ GoroutineStep(s)
            \/ Uninstall(s) \/ RemoveFilter(s) \/ GetFilterChanges(s)
            \/ Disconnect(s) \/ WsUnsubscribe(s)
       \/ Consume \/ SendToTopic
       \/ \E c \in Chans : PublisherStep(c)

\* Goroutines run: a call that has begun, the event loop, the goroutine of a subscription,
\* a publisher and the consumer take a step that stays possible.
Fairness ==
    /\ \A s \in Subs :
          /\ WF_vars(Running /\ CallStep(s))
          /\ WF_vars(Running /\ GoroutineStep(s))
          /\ WF_vars(Running /\ Uninstall(s))
    /\ \A c \in Chans : WF_vars(Running /\ PublisherStep(c))
    /\ WF_vars(Running /\ SendToTopic)

Spec == Init /\ [][Next]_vars /\ Fairness

-----------------------------------------------------------------------------
\* No channel is closed twice, which would end the process: ErrCh although a filter can be
\* uninstalled by its client and expire at the same time, EventCh although publishers of
\* old channels of a topic close whatever is registered under its name.
NothingClosedTwice ==
    panics \cap {"close of closed ErrCh", "close of closed EventCh"} = {}

\* An event that reaches a goroutine is new to its client: it was neither pushed, nor polled,
\* nor is it waiting for a poll, although the topic may have been removed and created again
\* and publishers of old channels still run.
EventsAtMostOnce ==
    \A s \in Subs :
        goroutine[s] = "event" => received[s].id \notin content[s] \cup polled[s]

\* A registered subscription has somebody to hear from: the channel of the topic, whose publisher
\* hands events to all that are registered under the name, or the publisher of a channel that was
\* closed, which is about to close theirs.
Hears(s) ==
    /\ s \in subscribers
    /\ topicChan # NoChan \/ \E c \in closedTopics : publisher[c] \in {"recv", "publish"}

\* A filter in the map hears of its topic, or its goroutine has been told to delete it, or it is a
\* log filter that has ended at a response it could not decode; it is deaf only if the topic
\* was removed between the two locks of its Subscribe.  A websocket subscription hears of its
\* topic until its connection takes it off the bus, whatever becomes of others.
FilterIsListening ==
    /\ \A s \in filters :
          \/ Hears(s)
          \/ s \in closedSubs
          \/ s \in subscribers \cap late
          \/ kind[s] = "logFilter" /\ goroutine[s] = "done"
    /\ \A s \in Subs :
          IsWs(s) /\ caller[s] \in {"launch", "returned"} => Hears(s) \/ s \in disconnected

\* Every call that has begun to subscribe returns: no call waits for ever for the event loop
\* while it holds the lock that goroutines of other filters need.
CallsReturn ==
    \A s \in Subs :
        caller[s] \in {"topics", "install", "check", "insert", "launch"}
            ~> caller[s] \in {"returned", "failed"} \/ ~Running

\* The goroutine of a subscription ends when its channel is closed, its client is gone or its
\* uninstallation is asked for (which the goroutine of a pending filter does not notice).  Not so
\* a websocket subscription: nothing ends its goroutine once it is off the bus.
GoroutinesEnd ==
    \A s \in Subs :
        (\/ s \in closedSubs
         \/ s \in disconnected /\ IsPush(s)
         \/ uninstalls[s] > 0 /\ kind[s] # "pendingFilter")
            ~> goroutine[s] = "done" \/ ~Running
=============================================================================
