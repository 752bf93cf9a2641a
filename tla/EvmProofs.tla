----------------------------- MODULE EvmProofs ------------------------------
(***************************************************************************)
(* Proofs about the EVM side of the chain.  FunToken, for any users, coins, *)
(* contracts, amounts and transfer fees: mappings are unique, what is       *)
(* issued is backed, conversions are exact.  EventSubscriber, for any       *)
(* number of subscriptions and events: no channel is closed twice, a filter *)
(* in the map hears of its topic or is told to go (or was registered with   *)
(* the topic gone), a websocket subscription hears until it disconnects,    *)
(* and no client gets an event twice.                                       *)
(***************************************************************************)
EXTENDS FunToken, EventSubscriber, TLAPS

\* Leaves are first-order set reasoning unless they cite SMT for arithmetic.
USE Zenon

(* EventSubscriber *)

Domains ==
    /\ kind \in [Subs -> FilterKinds \cup PushKinds \cup WsKinds]
    /\ DOMAIN caller = Subs /\ DOMAIN goroutine = Subs /\ DOMAIN uninstalls = Subs
    /\ DOMAIN received = Subs /\ DOMAIN content = Subs /\ DOMAIN polled = Subs
    /\ DOMAIN publisher = Chans /\ DOMAIN held = Chans
    /\ filters \subseteq Subs /\ subscribers \subseteq Subs

\* One subscription: it is registered once, by its caller, before its goroutine starts; it is
\* uninstalled once, when the filter leaves the map or the goroutine ends.
SubscribedOnce(s) ==
    /\ goroutine[s] = "none" <=> caller[s] # "returned"
    /\ s \in filters => IsFilter(s) /\ caller[s] = "returned"
    /\ s \in disconnected => ~IsFilter(s)
    /\ s \in subscribers \cup closedSubs => caller[s] \in {"launch", "returned"}
    /\ ~(s \in subscribers /\ s \in closedSubs)
    /\ caller[s] = "launch" => s \in subscribers \cup closedSubs
    /\ uninstalls[s] \in {0, 1}
    /\ uninstalls[s] = 1 => s \notin closedErr
    /\ uninstalls[s] = 1 \/ s \in closedErr =>
          /\ caller[s] = "returned"
          /\ IF IsFilter(s) THEN s \notin filters ELSE goroutine[s] = "done"

\* Websocket subscriptions have an EventSubscriber to themselves, in which nothing is ever
\* uninstalled and so no topic removed.
WsApart ==
    \A s \in Subs :
        IsWs(s) => uninstalls[s] = 0 /\ closedTopics = {} /\ \A x \in Subs : IsWs(x)

\* A filter in the map is registered, or its goroutine has been told or has ended; a websocket
\* subscription is registered until its connection takes it off.
Registered ==
    /\ \A s \in filters :
          s \in subscribers \/ s \in closedSubs \/ (kind[s] = "logFilter" /\ goroutine[s] = "done")
    /\ \A s \in Subs :
          IsWs(s) /\ caller[s] \in {"launch", "returned"} => s \in subscribers \cup disconnected

ChannelInv ==
    /\ Domains
    /\ \A s \in Subs : SubscribedOnce(s)
    /\ WsApart
    /\ Registered
    /\ NothingClosedTwice

\* Publishers that hold an event, and the events a subscription has seen.
Holding == {c \in Chans : publisher[c] = "publish"}
Seen(s) == content[s] \cup polled[s] \cup {n \in {received[s].id} : goroutine[s] = "event"}

\* An event is at one place until it is published: with the consumer, which has the latest
\* one, or with one publisher.  No subscription has seen it before.
Old(n) == n \in Nat /\ n <= nextEvent /\ (consumer.chan # NoChan => n # nextEvent)
InOnePlace ==
    /\ nextEvent \in Nat
    /\ consumer.chan # NoChan => consumer.event.id = nextEvent
    /\ \A c \in Holding : Old(held[c].id)
    /\ \A c, d \in Holding : held[c].id = held[d].id => c = d
    /\ \A s \in Subs : \A n \in Seen(s) : Old(n) /\ \A c \in Holding : held[c].id # n

EventInv == Domains /\ InOnePlace /\ EventsAtMostOnce

-----------------------------------------------------------------------------
LEMMA InitInv == Init => ChannelInv /\ EventInv
<1> SUFFICES ASSUME Init PROVE ChannelInv /\ EventInv
  OBVIOUS
<1>1. Domains
  BY DEF Init, Domains, KindsOfTopic, FilterKinds, PushKinds, WsKinds
<1>2. \A s \in Subs : SubscribedOnce(s)
  BY SMT DEF Init, SubscribedOnce
<1>3. Registered /\ NothingClosedTwice /\ WsApart
  BY DEF Init, Registered, NothingClosedTwice, WsApart, IsWs, KindsOfTopic, FilterKinds,
         PushKinds, WsKinds
<1>4. Holding = {} /\ \A s \in Subs : Seen(s) = {} /\ goroutine[s] # "event"
  BY DEF Init, Holding, Seen
<1>5. InOnePlace /\ EventsAtMostOnce
  BY <1>4 DEF Init, InOnePlace, EventsAtMostOnce
<1>6. QED
  BY <1>1, <1>2, <1>3, <1>5 DEF ChannelInv, EventInv

\* Every step keeps the domains.
LEMMA DomainsStep == Domains /\ [Next]_vars => Domains'
<1> SUFFICES ASSUME Domains, [Next]_vars PROVE Domains'
  OBVIOUS
<1> USE DEF Domains, busVars, loopVars, feedVars, subVars, signalVars, apiVars
<1>1. ASSUME NEW s \in Subs,
             NewFilter(s) \/ NewPush(s) \/ NewWs(s) \/ SeeTopics(s) \/ BusCheck(s) \/ BusInsert(s) \/ Launch(s)
      PROVE  Domains'
  BY <1>1 DEF NewFilter, NewPush, NewWs, SeeTopics, BusCheck, BusInsert, Launch, CallFails
<1>2. ASSUME NEW s \in Subs, Install(s) PROVE Domains'
  BY <1>2 DEF Install
<1>3. ASSUME NEW s \in Subs, HandleFilterEvent(s) \/ HandlePushEvent(s) \/ HandleWsEvent(s) PROVE Domains'
  BY <1>3 DEF HandleFilterEvent, HandlePushEvent, HandleWsEvent, Ends, Waits, Gives, GivesAny
<1>4. ASSUME NEW s \in Subs, ChannelClosed(s) \/ ErrorClosed(s) \/ ClientGone(s) PROVE Domains'
  BY <1>4 DEF ChannelClosed, ErrorClosed, ClientGone, Ends, Waits
<1>5. ASSUME NEW s \in Subs,
             \/ Uninstall(s) \/ RemoveFilter(s) \/ GetFilterChanges(s)
             \/ Disconnect(s) \/ WsUnsubscribe(s)
      PROVE  Domains'
  BY <1>5 DEF Uninstall, RemoveFilter, GetFilterChanges, Disconnect, WsUnsubscribe
<1>6. CASE Consume \/ SendToTopic
  BY <1>6 DEF Consume, SendToTopic
<1>7. ASSUME NEW c \in Chans, PublisherStep(c) PROVE Domains'
  BY <1>7 DEF PublisherStep, Publish, CloseAllSubscribers, ForgetTopic
<1>8. CASE UNCHANGED vars
  BY <1>8 DEF vars
<1>9. QED
  BY <1>1, <1>2, <1>3, <1>4, <1>5, <1>6, <1>7, <1>8 DEF Next, CallStep, GoroutineStep

\* What ChannelInv says of the channels.
Channels ==
    (\A s \in Subs : SubscribedOnce(s)) /\ WsApart /\ Registered /\ NothingClosedTwice

\* A call begins or moves on, before it registers its channel or when it fails.
CallMoves(s, p) ==
    /\ caller[s] \in {"idle", "topics", "check"}
    /\ p \in {"topics", "check", "install", "insert", "failed"}
    /\ caller' = [caller EXCEPT ![s] = p]
    /\ UNCHANGED <<kind, subscribers, closedTopics, filters, goroutine, signalVars, panics>>

LEMMA CallMovesKeeps ==
    ASSUME ChannelInv, NEW s \in Subs, NEW p, CallMoves(s, p)
    PROVE  Channels'
  BY ZenonT(30) DEF ChannelInv, Channels, Domains, SubscribedOnce, Registered, NothingClosedTwice,
         WsApart, IsFilter, IsWs, CallMoves, signalVars

\* The goroutine of a subscription waits again or ends.  It leaves the bus only when it
\* ends, and asks to be uninstalled only when it ends and is not the one of a filter; that of
\* a websocket subscription does neither.
GoroutineMoves(s, g) ==
    /\ goroutine[s] \in {"select", "event"} /\ g \in {"select", "done"}
    /\ goroutine' = [goroutine EXCEPT ![s] = g]
    /\ UNCHANGED <<kind, caller, closedTopics, closedSubs, closedErr, disconnected, panics>>
    /\ IsWs(s) => UNCHANGED <<subscribers, uninstalls>>
    /\ filters' \subseteq filters /\ filters \ {s} \subseteq filters'
    /\ subscribers' \subseteq subscribers /\ subscribers \ {s} \subseteq subscribers'
    /\ s \in filters' => s \in closedSubs \/ (kind[s] = "logFilter" /\ g = "done") \/ subscribers' = subscribers
    /\ \/ UNCHANGED uninstalls
       \/ /\ uninstalls' = [uninstalls EXCEPT ![s] = @ + 1]
          /\ ~IsFilter(s) /\ g = "done"

LEMMA GoroutineMovesKeeps ==
    ASSUME ChannelInv, NEW s \in Subs, NEW g, GoroutineMoves(s, g)
    PROVE  Channels'
<1> USE DEF GoroutineMoves
<1>0. Domains /\ (\A x \in Subs : SubscribedOnce(x)) /\ WsApart /\ Registered /\ NothingClosedTwice
  BY DEF ChannelInv
<1>1. /\ goroutine'[s] = g /\ \A x \in Subs \ {s} : goroutine'[x] = goroutine[x]
      /\ \A x \in Subs \ {s} : uninstalls'[x] = uninstalls[x]
  BY <1>0 DEF Domains
<1>2. ASSUME NEW x \in Subs \ {s} PROVE SubscribedOnce(x)'
  BY <1>0, <1>1, SMT DEF SubscribedOnce, IsFilter
<1>3. SubscribedOnce(s)'
  <2>1. CASE UNCHANGED uninstalls
    BY <1>0, <1>1, <2>1 DEF SubscribedOnce, IsFilter
  <2>2. CASE /\ uninstalls' = [uninstalls EXCEPT ![s] = @ + 1]
             /\ ~IsFilter(s) /\ g = "done"
    <3>1. uninstalls[s] = 0 /\ s \notin closedErr
      BY <1>0, <2>2 DEF SubscribedOnce
    <3>2. uninstalls'[s] = 1
      BY <1>0, <2>2, <3>1, SMT DEF Domains
    <3>3. QED
      BY <1>0, <1>1, <2>2, <3>1, <3>2 DEF SubscribedOnce, IsFilter
  <2>3. QED
    BY <2>1, <2>2
<1>4. Registered'
  BY <1>0, <1>1, SMT DEF Registered, Domains, IsWs
<1>5. NothingClosedTwice' /\ WsApart'
  BY <1>0, <1>1 DEF NothingClosedTwice, WsApart, IsWs
<1>6. QED
  BY <1>2, <1>3, <1>4, <1>5 DEF Channels

\* The event loop closes ErrCh once: the filter is no longer in the map, the goroutine of
\* any other subscription has ended.
LEMMA UninstallKeeps ==
    ASSUME ChannelInv, NEW s \in Subs, Uninstall(s)
    PROVE  Channels'
<1>0. Domains /\ (\A x \in Subs : SubscribedOnce(x)) /\ WsApart /\ Registered /\ NothingClosedTwice
  BY DEF ChannelInv
<1>1. /\ uninstalls' = [uninstalls EXCEPT ![s] = @ - 1] /\ closedErr' = closedErr \cup {s}
      /\ UNCHANGED <<kind, subscribers, caller, goroutine, closedSubs, disconnected, filters>>
  BY DEF Uninstall, subVars, apiVars
<1>2. uninstalls[s] = 1 /\ s \notin closedErr
  <2>1. uninstalls[s] \in {0, 1} /\ uninstalls[s] > 0
    BY <1>0 DEF SubscribedOnce, Uninstall
  <2>2. uninstalls[s] = 1
    BY <2>1, SMT
  <2>3. QED
    BY <1>0, <2>2 DEF SubscribedOnce
<1>3. uninstalls'[s] = 0 /\ \A x \in Subs \ {s} : uninstalls'[x] = uninstalls[x]
  BY <1>0, <1>1, <1>2, SMT DEF Domains
<1>4. ASSUME NEW x \in Subs PROVE SubscribedOnce(x)'
  BY <1>0, <1>1, <1>2, <1>3, SMT DEF SubscribedOnce, IsFilter
<1>5. Registered' /\ WsApart'
  <2>1. \A x \in Subs : ~IsWs(x)
    BY <1>0, <1>2, SMT DEF WsApart
  <2>2. QED
    BY <1>0, <1>1, <2>1 DEF Registered, WsApart, IsWs
<1>6. NothingClosedTwice'
  BY <1>0, <1>2 DEF NothingClosedTwice, Uninstall
<1>7. QED
  BY <1>4, <1>5, <1>6 DEF Channels

\* A filter leaves the map once, although its client and its deadline may both want it to.
LEMMA RemoveFilterKeeps ==
    ASSUME ChannelInv, NEW s \in Subs, RemoveFilter(s)
    PROVE  Channels'
<1>0. Domains /\ (\A x \in Subs : SubscribedOnce(x)) /\ WsApart /\ Registered /\ NothingClosedTwice
  BY DEF ChannelInv
<1>1. /\ uninstalls' = [uninstalls EXCEPT ![s] = @ + 1] /\ s \in filters /\ filters' = filters \ {s}
      /\ UNCHANGED <<kind, subscribers, closedTopics, caller, goroutine, closedSubs, closedErr,
                     disconnected, panics>>
  BY DEF RemoveFilter, subVars, busVars, loopVars
<1>2. uninstalls[s] = 0 /\ s \notin closedErr /\ IsFilter(s) /\ caller[s] = "returned"
  BY <1>0, <1>1 DEF SubscribedOnce
<1>3. uninstalls'[s] = 1 /\ \A x \in Subs \ {s} : uninstalls'[x] = uninstalls[x]
  BY <1>0, <1>1, <1>2, SMT DEF Domains
<1>4. ASSUME NEW x \in Subs PROVE SubscribedOnce(x)'
  BY <1>0, <1>1, <1>2, <1>3 DEF SubscribedOnce, IsFilter
<1>5. Registered' /\ NothingClosedTwice' /\ WsApart'
  <2>1. ~IsWs(s)
    BY <1>2 DEF IsFilter, IsWs, FilterKinds, WsKinds
  <2>2. QED
    BY <1>0, <1>1, <1>3, <2>1 DEF Registered, NothingClosedTwice, WsApart, IsWs
<1>6. QED
  BY <1>4, <1>5 DEF Channels

\* A publisher whose channel was closed closes the channels of the topic, none of them for
\* the second time and none of a websocket subscription.
LEMMA CloseKeeps ==
    ASSUME ChannelInv, NEW c \in Chans, CloseAllSubscribers(c)
    PROVE  Channels'
<1>0. Domains /\ (\A x \in Subs : SubscribedOnce(x)) /\ WsApart /\ Registered /\ NothingClosedTwice
  BY DEF ChannelInv
<1>1. /\ closedSubs' = closedSubs \cup subscribers /\ subscribers' = {} /\ c \in closedTopics
      /\ UNCHANGED <<kind, caller, goroutine, closedTopics, closedErr, uninstalls, disconnected, filters>>
  BY DEF CloseAllSubscribers, subVars, apiVars, loopVars
<1>2. \A x \in Subs : ~IsWs(x)
  BY <1>0, <1>1 DEF WsApart
<1>3. subscribers \cap closedSubs = {}
  BY <1>0 DEF Domains, SubscribedOnce
<1>4. ASSUME NEW x \in Subs PROVE SubscribedOnce(x)'
  BY <1>0, <1>1 DEF SubscribedOnce, IsFilter
<1>5. Registered' /\ WsApart'
  BY <1>0, <1>1, <1>2 DEF Registered, WsApart, IsWs
<1>6. NothingClosedTwice'
  BY <1>0, <1>3 DEF NothingClosedTwice, CloseAllSubscribers
<1>7. QED
  BY <1>4, <1>5, <1>6 DEF Channels

\* Every step keeps what ChannelInv says of each subscription.
LEMMA ChannelStep == ChannelInv /\ [Next]_vars => ChannelInv'
<1> SUFFICES ASSUME ChannelInv, [Next]_vars PROVE ChannelInv'
  OBVIOUS
<1>0. /\ Domains /\ Domains' /\ (\A x \in Subs : SubscribedOnce(x)) /\ WsApart
      /\ Registered /\ NothingClosedTwice
  BY DomainsStep DEF ChannelInv
<1> USE <1>0 DEF Domains, Channels, SubscribedOnce, Registered, NothingClosedTwice, IsFilter,
                 WsApart, IsWs, IsPush, busVars, loopVars, feedVars, subVars, signalVars, apiVars
<1>1. ASSUME NEW s \in Subs, NewFilter(s) PROVE Channels'
  BY <1>1 DEF NewFilter
<1>2. ASSUME NEW s \in Subs, NewPush(s) \/ NewWs(s) PROVE Channels'
  <2>1. CallMoves(s, "topics")
    BY <1>2 DEF NewPush, NewWs, CallMoves
  <2>2. QED
    BY <2>1, CallMovesKeeps
<1>3. ASSUME NEW s \in Subs, SeeTopics(s) PROVE Channels'
  <2>1. CallMoves(s, "check") \/ CallMoves(s, "install") \/ CallMoves(s, "failed")
    BY <1>3 DEF SeeTopics, CallMoves, CallFails
  <2>2. QED
    BY <2>1, CallMovesKeeps
<1>4. ASSUME NEW s \in Subs, BusCheck(s) PROVE Channels'
  <2>1. CallMoves(s, "insert") \/ CallMoves(s, "failed")
    BY <1>4 DEF BusCheck, CallMoves, CallFails
  <2>2. QED
    BY <2>1, CallMovesKeeps
<1>5. ASSUME NEW s \in Subs, BusInsert(s) PROVE Channels'
  BY <1>5 DEF BusInsert
<1>6. ASSUME NEW s \in Subs, Launch(s) PROVE Channels'
  BY <1>6 DEF Launch
<1>7. ASSUME NEW s \in Subs, Install(s) PROVE Channels'
  BY <1>7 DEF Install
<1>8. ASSUME NEW s \in Subs, HandleFilterEvent(s) PROVE Channels'
  <2>1. \E g : GoroutineMoves(s, g)
    BY <1>8 DEF HandleFilterEvent, GoroutineMoves, Ends, Waits, FilterKinds, WsKinds
  <2>2. QED
    BY <2>1, GoroutineMovesKeeps
<1>9. ASSUME NEW s \in Subs, HandlePushEvent(s) PROVE Channels'
  <2>1. \E g : GoroutineMoves(s, g)
    BY <1>9 DEF HandlePushEvent, GoroutineMoves, Ends, Waits, FilterKinds, PushKinds, WsKinds
  <2>2. QED
    BY <2>1, GoroutineMovesKeeps
<1>10. ASSUME NEW s \in Subs, HandleWsEvent(s) PROVE Channels'
  <2>1. \E g : GoroutineMoves(s, g)
    BY <1>10 DEF HandleWsEvent, GoroutineMoves, Waits
  <2>2. QED
    BY <2>1, GoroutineMovesKeeps
<1>11. ASSUME NEW s \in Subs, ChannelClosed(s) PROVE Channels'
  <2>1. \E g : GoroutineMoves(s, g)
    BY <1>11 DEF ChannelClosed, GoroutineMoves, Ends
  <2>2. QED
    BY <2>1, GoroutineMovesKeeps
<1>12. ASSUME NEW s \in Subs, ErrorClosed(s) PROVE Channels'
  <2>1. \E g : GoroutineMoves(s, g)
    BY <1>12 DEF ErrorClosed, GoroutineMoves, Ends, Waits, FilterKinds, WsKinds
  <2>2. QED
    BY <2>1, GoroutineMovesKeeps
<1>13. ASSUME NEW s \in Subs, ClientGone(s) PROVE Channels'
  <2>1. \E g : GoroutineMoves(s, g)
    BY <1>13 DEF ClientGone, GoroutineMoves, Ends, FilterKinds, PushKinds, WsKinds
  <2>2. QED
    BY <2>1, GoroutineMovesKeeps
<1>14. ASSUME NEW s \in Subs, Uninstall(s) PROVE Channels'
  BY <1>14, UninstallKeeps
<1>15. ASSUME NEW s \in Subs, RemoveFilter(s) PROVE Channels'
  BY <1>15, RemoveFilterKeeps
<1>16. ASSUME NEW s \in Subs, GetFilterChanges(s) PROVE Channels'
  BY <1>16 DEF GetFilterChanges
<1>17. ASSUME NEW s \in Subs, Disconnect(s) PROVE Channels'
  BY <1>17 DEF Disconnect, FilterKinds, PushKinds
<1>18. ASSUME NEW s \in Subs, WsUnsubscribe(s) PROVE Channels'
  BY <1>18 DEF WsUnsubscribe, FilterKinds, WsKinds
<1>19. ASSUME Consume PROVE Channels'
  BY <1>19 DEF Consume
<1>20. ASSUME SendToTopic PROVE Channels'
  BY <1>20 DEF SendToTopic
<1>21. ASSUME NEW c \in Chans, Publish(c) PROVE Channels'
  BY <1>21 DEF Publish
<1>22. ASSUME NEW c \in Chans, CloseAllSubscribers(c) PROVE Channels'
  BY <1>22, CloseKeeps
<1>23. ASSUME NEW c \in Chans, ForgetTopic(c) PROVE Channels'
  BY <1>23 DEF ForgetTopic
<1>24. ASSUME UNCHANGED vars PROVE Channels'
  BY <1>24 DEF vars
<1>25. QED
  <2>1. Channels'
    BY <1>1, <1>2, <1>3, <1>4, <1>5, <1>6, <1>7, <1>8, <1>9, <1>10, <1>11, <1>12, <1>13,
       <1>14, <1>15, <1>16, <1>17, <1>18, <1>19, <1>20, <1>21, <1>22, <1>23, <1>24
       DEF Next, CallStep, GoroutineStep, PublisherStep
  <2>2. QED
    BY <1>0, <2>1 DEF ChannelInv, Channels

-----------------------------------------------------------------------------
\* No new event is in transit and no subscription has seen more.
NothingNew ==
    /\ UNCHANGED <<consumer, nextEvent>>
    /\ Holding' \subseteq Holding /\ \A c \in Holding' : held'[c] = held[c]
    /\ \A s \in Subs : Seen(s)' \subseteq Seen(s)

LEMMA NothingNewKeeps ==
    ASSUME InOnePlace, NothingNew
    PROVE  InOnePlace'
<1>1. \A n : Old(n) => Old(n)'
  BY DEF Old, NothingNew
<1>2. QED
  BY <1>1 DEF InOnePlace, NothingNew

\* Steps that touch no publisher and no event of a subscription.
LEMMA ElsewhereKeeps ==
    ASSUME EventInv, UNCHANGED <<publisher, held, consumer, nextEvent, goroutine, received, content, polled>>
    PROVE  InOnePlace' /\ EventsAtMostOnce'
<1>1. NothingNew
  BY DEF NothingNew, Holding, Seen
<1>2. QED
  BY <1>1, NothingNewKeeps DEF EventInv, EventsAtMostOnce

\* The goroutine of s puts its event into content[s] or drops it, and no longer holds it.
LEMMA HandledKeeps ==
    ASSUME EventInv, NEW s \in Subs, NEW g \in {"select", "done"},
           UNCHANGED <<publisher, held, consumer, nextEvent, polled>>,
           goroutine' = [goroutine EXCEPT ![s] = g],
           \A x \in Subs \ {s} : received'[x] = received[x] /\ content'[x] = content[x],
           content'[s] \subseteq Seen(s)
    PROVE  InOnePlace' /\ EventsAtMostOnce'
<1>1. /\ goroutine'[s] # "event"
      /\ \A x \in Subs \ {s} : goroutine'[x] = goroutine[x]
  BY DEF EventInv, Domains
<1>2. ASSUME NEW x \in Subs PROVE Seen(x)' \subseteq Seen(x)
  <2>1. CASE x = s
    BY <1>1, <2>1 DEF Seen
  <2>2. CASE x # s
    BY <1>1, <2>2 DEF Seen
  <2>3. QED
    BY <2>1, <2>2
<1>3. NothingNew
  BY <1>2 DEF NothingNew, Holding
<1>4. EventsAtMostOnce'
  BY <1>1 DEF EventInv, EventsAtMostOnce
<1>5. QED
  BY <1>3, <1>4, NothingNewKeeps DEF EventInv

\* consumeEvents takes the next event, which nobody has.
LEMMA ConsumeKeeps ==
    ASSUME EventInv, Consume
    PROVE  InOnePlace' /\ EventsAtMostOnce'
<1>0. InOnePlace /\ EventsAtMostOnce /\ nextEvent \in Nat
  BY DEF EventInv, InOnePlace
<1>1. /\ nextEvent' = nextEvent + 1 /\ consumer'.event.id = nextEvent + 1
      /\ UNCHANGED <<publisher, held, goroutine, received, content, polled>>
  BY SMT DEF Consume, subVars, apiVars
<1>2. \A n : Old(n) => Old(n)'
  BY <1>0, <1>1, SMT DEF Old
<1>3. Holding' = Holding /\ \A s \in Subs : Seen(s)' = Seen(s)
  BY <1>1 DEF Holding, Seen
<1>4. InOnePlace'
  <2>1. nextEvent' \in Nat /\ (consumer'.chan # NoChan => consumer'.event.id = nextEvent')
    BY <1>0, <1>1, SMT
  <2>2. /\ \A c \in Holding' : Old(held[c].id)'
        /\ \A c, d \in Holding' : held'[c].id = held'[d].id => c = d
    BY <1>0, <1>1, <1>2, <1>3 DEF InOnePlace
  <2>3. ASSUME NEW s \in Subs, NEW n \in Seen(s)'
        PROVE  Old(n)' /\ \A c \in Holding' : held'[c].id # n
    BY <1>0, <1>1, <1>2, <1>3, <2>3 DEF InOnePlace
  <2>4. QED
    BY <2>1, <2>2, <2>3 DEF InOnePlace
<1>5. QED
  BY <1>0, <1>1, <1>4 DEF EventsAtMostOnce

\* The event goes to one publisher or is dropped.
LEMMA SendKeeps ==
    ASSUME EventInv, SendToTopic
    PROVE  InOnePlace' /\ EventsAtMostOnce'
<1> DEFINE c == consumer.chan
<1>0. InOnePlace /\ EventsAtMostOnce /\ Domains
  BY DEF EventInv
<1>1. /\ c # NoChan /\ consumer'.chan = NoChan
      /\ UNCHANGED <<nextEvent, goroutine, received, content, polled>>
  BY DEF SendToTopic, subVars, apiVars
<1>2. \A n : Old(n) => Old(n)' /\ n # nextEvent
  BY <1>1 DEF Old
<1>3. \A s \in Subs : Seen(s)' = Seen(s)
  BY <1>1 DEF Seen
<1>4. CASE UNCHANGED <<publisher, held>>
  <2>1. Holding' = Holding
    BY <1>4 DEF Holding
  <2>2. QED
    BY <1>0, <1>1, <1>2, <1>3, <1>4, <2>1, SMT DEF InOnePlace, EventsAtMostOnce
<1>5. CASE /\ publisher' = [publisher EXCEPT ![c] = "publish"]
           /\ held' = [held EXCEPT ![c] = consumer.event]
  <2>1. Holding' \subseteq Holding \cup {c} /\ \A d \in Holding' \ {c} : d \in Holding /\ held'[d] = held[d]
    BY <1>0, <1>5 DEF Holding, Domains
  <2>2. c \in Holding' => held'[c].id = nextEvent
    BY <1>0, <1>1, <1>5 DEF Holding, Domains, InOnePlace
  <2>3. Old(nextEvent)'
    BY <1>0, <1>1, SMT DEF Old, InOnePlace
  <2>4. InOnePlace'
    <3>1. nextEvent' \in Nat /\ consumer'.chan = NoChan
      BY <1>0, <1>1 DEF InOnePlace
    <3>2. \A d \in Holding' : Old(held[d].id)'
      BY <1>0, <1>1, <1>2, <2>1, <2>2, <2>3 DEF InOnePlace
    <3>3. \A d, e \in Holding' : held'[d].id = held'[e].id => d = e
      BY <1>0, <1>2, <2>1, <2>2, SMT DEF InOnePlace
    <3>4. ASSUME NEW s \in Subs, NEW n \in Seen(s)'
          PROVE  Old(n)' /\ \A d \in Holding' : held'[d].id # n
      BY <1>0, <1>2, <1>3, <2>1, <2>2, <3>4, SMT DEF InOnePlace
    <3>5. QED
      BY <3>1, <3>2, <3>3, <3>4 DEF InOnePlace
  <2>5. QED
    BY <1>0, <1>1, <2>4 DEF EventsAtMostOnce
<1>6. QED
  BY <1>4, <1>5 DEF SendToTopic

\* What a publisher hands out was seen by no subscriber, and is nowhere else.
LEMMA PublishKeeps ==
    ASSUME EventInv, NEW c \in Chans, Publish(c)
    PROVE  InOnePlace' /\ EventsAtMostOnce'
<1>0. InOnePlace /\ EventsAtMostOnce /\ Domains
  BY DEF EventInv
<1>1. /\ c \in Holding /\ UNCHANGED <<consumer, nextEvent, content, polled>>
      /\ publisher' = [publisher EXCEPT ![c] = "recv"] /\ held' = [held EXCEPT ![c] = NoEvent]
  BY DEF Publish, Holding, apiVars
<1>2. Holding' = Holding \ {c} /\ \A d \in Holding' : held'[d] = held[d]
  BY <1>0, <1>1 DEF Holding, Domains
<1>3. ASSUME NEW s \in Subs
      PROVE  \/ goroutine'[s] = goroutine[s] /\ received'[s] = received[s]
             \/ goroutine'[s] = "event" /\ received'[s] = held[c]
  BY DEF Publish
<1>4. \A s \in Subs : Seen(s)' \subseteq Seen(s) \cup {held[c].id}
  BY <1>1, <1>3 DEF Seen
<1>5. \A n : Old(n) => Old(n)'
  BY <1>1 DEF Old
<1>6. InOnePlace'
  <2>1. \A d \in Holding' : held'[d].id # held[c].id
    BY <1>0, <1>1, <1>2 DEF InOnePlace
  <2>2. /\ nextEvent' \in Nat /\ (consumer'.chan # NoChan => consumer'.event.id = nextEvent')
        /\ \A d \in Holding' : Old(held[d].id)'
        /\ \A d, e \in Holding' : held'[d].id = held'[e].id => d = e
    BY <1>0, <1>1, <1>2, <1>5, SMT DEF InOnePlace
  <2>3. ASSUME NEW s \in Subs, NEW n \in Seen(s)'
        PROVE  Old(n)' /\ \A d \in Holding' : held'[d].id # n
    <3>1. CASE n \in Seen(s)
      BY <1>0, <1>2, <1>5, <3>1 DEF InOnePlace
    <3>2. CASE n = held[c].id
      BY <1>0, <1>1, <1>5, <2>1, <3>2 DEF InOnePlace
    <3>3. QED
      BY <1>4, <2>3, <3>1, <3>2
  <2>4. QED
    BY <2>2, <2>3 DEF InOnePlace
<1>7. EventsAtMostOnce'
  <2>1. \A s \in Subs : held[c].id \notin content[s] \cup polled[s]
    BY <1>0, <1>1 DEF InOnePlace, Seen
  <2>2. QED
    BY <1>0, <1>1, <1>3, <2>1 DEF EventsAtMostOnce
<1>8. QED
  BY <1>6, <1>7

LEMMA EventStep == EventInv /\ [Next]_vars => EventInv'
<1> SUFFICES ASSUME EventInv, [Next]_vars PROVE InOnePlace' /\ EventsAtMostOnce'
  BY DomainsStep DEF EventInv
<1>0. InOnePlace /\ EventsAtMostOnce /\ Domains
  BY DEF EventInv
<1> USE DEF busVars, loopVars, feedVars, subVars, signalVars, apiVars
<1> DEFINE Goal == InOnePlace' /\ EventsAtMostOnce'
<1>1. ASSUME NEW s \in Subs,
             NewFilter(s) \/ NewPush(s) \/ NewWs(s) \/ SeeTopics(s) \/ BusCheck(s) \/ BusInsert(s)
      PROVE  Goal
  BY <1>1, ElsewhereKeeps DEF NewFilter, NewPush, NewWs, SeeTopics, BusCheck, BusInsert
<1>2. ASSUME NEW s \in Subs, Uninstall(s) \/ RemoveFilter(s) \/ Disconnect(s) \/ WsUnsubscribe(s)
      PROVE  Goal
  BY <1>2, ElsewhereKeeps DEF Uninstall, RemoveFilter, Disconnect, WsUnsubscribe
<1>3. ASSUME NEW s \in Subs, Launch(s) PROVE Goal
  BY <1>3, HandledKeeps DEF Launch, Seen
<1>4. ASSUME NEW s \in Subs, Install(s) PROVE Goal
  <2>1. UNCHANGED <<held, consumer, nextEvent, goroutine, received, content, polled>>
    BY <1>4 DEF Install
  <2>2. Holding' \subseteq Holding
    BY <1>0, <1>4 DEF Install, Holding, Domains
  <2>3. NothingNew
    BY <2>1, <2>2 DEF NothingNew, Seen
  <2>4. QED
    BY <1>0, <2>1, <2>3, NothingNewKeeps DEF EventsAtMostOnce
<1>5. ASSUME NEW s \in Subs, HandleFilterEvent(s) \/ HandlePushEvent(s) \/ HandleWsEvent(s) PROVE Goal
  <2>1. /\ UNCHANGED <<publisher, held, consumer, nextEvent, polled>>
        /\ \E g \in {"select", "done"} : goroutine' = [goroutine EXCEPT ![s] = g]
        /\ received' = [received EXCEPT ![s] = NoEvent]
        /\ UNCHANGED content \/ (goroutine[s] = "event" /\ Gives(s))
    BY <1>5 DEF HandleFilterEvent, HandlePushEvent, HandleWsEvent, GivesAny, Ends, Waits
  <2>2. DOMAIN received = Subs /\ DOMAIN content = Subs
    BY <1>0 DEF Domains
  <2>3. \A x \in Subs \ {s} : received'[x] = received[x]
    BY <2>1, <2>2
  <2>4. /\ \A x \in Subs \ {s} : content'[x] = content[x]
        /\ content'[s] \subseteq Seen(s)
    <3>1. CASE UNCHANGED content
      BY <3>1 DEF Seen
    <3>2. CASE goroutine[s] = "event" /\ Gives(s)
      BY <2>2, <3>2 DEF Gives, Seen
    <3>3. QED
      BY <2>1, <3>1, <3>2
  <2>5. QED
    BY <2>1, <2>3, <2>4, HandledKeeps
<1>6. ASSUME NEW s \in Subs, ChannelClosed(s) \/ ErrorClosed(s) \/ ClientGone(s) PROVE Goal
  <2>1. /\ UNCHANGED <<publisher, held, consumer, nextEvent, polled, content>>
        /\ \E g \in {"select", "done"} : goroutine' = [goroutine EXCEPT ![s] = g]
        /\ received' = [received EXCEPT ![s] = NoEvent]
    BY <1>6 DEF ChannelClosed, ErrorClosed, ClientGone, Ends, Waits
  <2>2. /\ \A x \in Subs \ {s} : received'[x] = received[x] /\ content'[x] = content[x]
        /\ content'[s] \subseteq Seen(s)
    BY <1>0, <2>1 DEF Domains, Seen
  <2>3. QED
    BY <2>1, <2>2, HandledKeeps
<1>7. ASSUME NEW s \in Subs, GetFilterChanges(s) PROVE Goal
  <2>1. /\ UNCHANGED <<publisher, held, consumer, nextEvent, goroutine, received>>
        /\ \A x \in Subs : content'[x] \cup polled'[x] = content[x] \cup polled[x]
    BY <1>0, <1>7 DEF GetFilterChanges, Domains
  <2>2. NothingNew
    BY <2>1 DEF NothingNew, Holding, Seen
  <2>3. QED
    BY <1>0, <2>1, <2>2, NothingNewKeeps DEF EventsAtMostOnce
<1>8. ASSUME NEW c \in Chans, CloseAllSubscribers(c) \/ ForgetTopic(c) PROVE Goal
  <2>1. UNCHANGED <<held, consumer, nextEvent, goroutine, received, content, polled>>
    BY <1>8 DEF CloseAllSubscribers, ForgetTopic
  <2>2. Holding' \subseteq Holding
    BY <1>0, <1>8 DEF CloseAllSubscribers, ForgetTopic, Holding, Domains
  <2>3. NothingNew
    BY <2>1, <2>2 DEF NothingNew, Seen
  <2>4. QED
    BY <1>0, <2>1, <2>3, NothingNewKeeps DEF EventsAtMostOnce
<1>9. CASE UNCHANGED vars
  BY <1>9, ElsewhereKeeps DEF vars
<1>10. QED
  BY <1>1, <1>2, <1>3, <1>4, <1>5, <1>6, <1>7, <1>8, <1>9, ConsumeKeeps, SendKeeps, PublishKeeps
     DEF Next, CallStep, GoroutineStep, PublisherStep

-----------------------------------------------------------------------------
\* However many filters and subscriptions share a topic that is removed and created again,
\* no ErrCh and no EventCh is closed twice: the event loop, the publishers, the clients and
\* the deadlines of filters never do the same work again.
THEOREM CloseSafety == Spec => []NothingClosedTwice
<1>1. ChannelInv => NothingClosedTwice
  BY DEF ChannelInv
<1>2. QED
  BY <1>1, InitInv, ChannelStep, PTL DEF Spec

\* Who feeds the registered subscriptions: the channel of the topic has a publisher that runs; it
\* was made by the installation of its subscription; and what was registered while there was a
\* channel has that channel, or a publisher that will close it.
Runs(c) == publisher[c] \in {"recv", "publish"}
Closing == \E c \in closedTopics : Runs(c)
FeedInv ==
    /\ topicKnown => topicChan # NoChan
    /\ topicChan # NoChan => topicChan \in Chans \ closedTopics /\ Runs(topicChan)
    /\ closedTopics \subseteq Chans /\ \A c \in closedTopics : publisher[c] # "none"
    /\ \A s \in Subs : caller[s] \in {"idle", "topics", "install"} => publisher[s] = "none"
    /\ subscribers \subseteq late \/ topicChan # NoChan \/ Closing
    /\ \A s \in Subs : IsWs(s) /\ caller[s] \in {"insert", "launch", "returned"} => topicChan # NoChan

\* A call moves on; the topic and its publishers stay as they are.
LEMMA CallFeeds ==
    ASSUME FeedInv, Domains, NEW s \in Subs, NEW p, caller' = [caller EXCEPT ![s] = p],
           p \in {"idle", "topics", "install"} => caller[s] \in {"idle", "topics", "install"},
           p \in {"insert", "launch", "returned"} =>
               topicKnown \/ caller[s] \in {"insert", "launch", "returned"},
           UNCHANGED <<kind, topicKnown, topicChan, closedTopics, publisher>>,
           \/ UNCHANGED <<subscribers, late>>
           \/ subscribers' = subscribers \cup {s} /\ (s \in late' \/ topicChan # NoChan)
              /\ late \subseteq late'
    PROVE  FeedInv'
<1>1. caller'[s] = p /\ \A x \in Subs \ {s} : caller'[x] = caller[x]
  BY DEF Domains
<1>2. /\ topicKnown => topicChan # NoChan
      /\ topicChan # NoChan => topicChan \in Chans \ closedTopics /\ Runs(topicChan)
      /\ closedTopics \subseteq Chans /\ \A c \in closedTopics : publisher[c] # "none"
  BY DEF FeedInv
<1>3. \A x \in Subs : caller'[x] \in {"idle", "topics", "install"} => publisher[x] = "none"
  BY <1>1 DEF FeedInv
<1>4. subscribers' \subseteq late' \/ topicChan # NoChan \/ Closing
  BY DEF FeedInv
<1>5. \A x \in Subs : IsWs(x) /\ caller'[x] \in {"insert", "launch", "returned"} => topicChan # NoChan
  BY <1>1, <1>2 DEF FeedInv
<1>6. QED
  BY <1>2, <1>3, <1>4, <1>5 DEF FeedInv, Runs, Closing, IsWs

\* Subscriptions leave the bus, or nothing of this happens.
LEMMA FewerFeeds ==
    ASSUME FeedInv, subscribers' \subseteq subscribers,
           UNCHANGED <<kind, late, caller, topicKnown, topicChan, closedTopics, publisher>>
    PROVE  FeedInv'
  BY DEF FeedInv, Runs, Closing, IsWs

\* A publisher that runs takes an event or gives it out.
LEMMA PublisherFeeds ==
    ASSUME FeedInv, Domains, NEW c, NEW p \in {"recv", "publish"}, Runs(c),
           publisher' = [publisher EXCEPT ![c] = p],
           UNCHANGED <<kind, late, caller, topicKnown, topicChan, closedTopics, subscribers>>
    PROVE  FeedInv'
<1>1. \A x \in Chans : Runs(x)' <=> Runs(x)
  BY DEF Runs, Domains
<1>2. \A x \in Chans : publisher'[x] = "none" <=> publisher[x] = "none"
  BY DEF Runs, Domains
<1>3. QED
  BY <1>1, <1>2 DEF FeedInv, Closing, Chans, IsWs

LEMMA InstallFeeds ==
    ASSUME FeedInv, Domains, NEW s \in Subs, Install(s)
    PROVE  FeedInv'
<1>1. CASE topicKnown
  <2>1. /\ caller' = [caller EXCEPT ![s] = "check"]
        /\ UNCHANGED <<kind, late, topicKnown, topicChan, closedTopics, publisher, subscribers>>
    BY <1>1 DEF Install
  <2>2. QED
    BY <2>1, CallFeeds
<1>2. CASE ~topicKnown
  <2>1. /\ topicChan' = s /\ publisher' = [publisher EXCEPT ![s] = "recv"]
        /\ caller' = [caller EXCEPT ![s] = "check"]
        /\ UNCHANGED <<kind, late, closedTopics, subscribers>>
        /\ publisher[s] = "none"
    BY <1>2 DEF Install, FeedInv
  <2>2. /\ publisher'[s] = "recv" /\ \A c \in Chans \ {s} : publisher'[c] = publisher[c]
        /\ caller'[s] = "check" /\ \A x \in Subs \ {s} : caller'[x] = caller[x]
    BY <2>1 DEF Domains, Chans
  <2>3. s \notin closedTopics /\ topicChan' # NoChan /\ topicChan' \in Chans
    BY <2>1, EventsAssumption DEF FeedInv, Chans
  <2>4. \A c \in closedTopics : publisher'[c] # "none"
    BY <2>2, <2>3 DEF FeedInv
  <2>5. \A x \in Subs : caller'[x] \in {"idle", "topics", "install"} => publisher'[x] = "none"
    BY <2>2 DEF FeedInv, Chans
  <2>6. QED
    BY <2>1, <2>2, <2>3, <2>4, <2>5 DEF FeedInv, Runs
<1>3. QED
  BY <1>1, <1>2

\* The topic goes only with its channel closed, which its publisher will see.
LEMMA UninstallFeeds ==
    ASSUME FeedInv, ChannelInv, NEW s \in Subs, Uninstall(s)
    PROVE  FeedInv'
<1>1. UNCHANGED <<kind, late, caller, subscribers, publisher>>
  BY DEF Uninstall, subVars, feedVars
<1>2. CASE UNCHANGED <<topicKnown, closedTopics, topicChan>>
  BY <1>1, <1>2, FewerFeeds
<1>3. CASE /\ topicChan # NoChan /\ topicKnown' = FALSE
           /\ closedTopics' = closedTopics \cup {topicChan} /\ topicChan' = NoChan
  <2>1. \A x \in Subs : ~IsWs(x)
    <3>1. uninstalls[s] # 0
      <4>1. uninstalls[s] > 0 /\ uninstalls[s] \in {0, 1}
        BY DEF Uninstall, ChannelInv, SubscribedOnce
      <4>2. QED
        BY <4>1, SMT
    <3>2. QED
      BY <3>1 DEF ChannelInv, WsApart
  <2>2. Runs(topicChan)
    BY <1>3 DEF FeedInv
  <2>3. Closing' /\ publisher[topicChan] # "none"
    BY <1>1, <1>3, <2>2 DEF Closing, Runs
  <2>4. QED
    BY <1>1, <1>3, <2>1, <2>3 DEF FeedInv, IsWs
<1>4. QED
  BY <1>2, <1>3 DEF Uninstall

\* A publisher of a closed channel closes what is registered, and forgets the name.
LEMMA CloseFeeds ==
    ASSUME FeedInv, Domains, NEW c \in Chans, CloseAllSubscribers(c) \/ ForgetTopic(c)
    PROVE  FeedInv'
<1>1. /\ c # topicChan \/ topicChan = NoChan
      /\ \E p \in {"forget", "done"} : publisher' = [publisher EXCEPT ![c] = p]
      /\ UNCHANGED <<kind, late, caller, topicChan, closedTopics>>
      /\ publisher[c] # "none"
  BY DEF CloseAllSubscribers, ForgetTopic, FeedInv, Runs, loopVars, subVars
<1>0. topicKnown' => topicKnown
  BY DEF CloseAllSubscribers, ForgetTopic
<1>2. publisher'[c] \in {"forget", "done"} /\ \A d \in Chans \ {c} : publisher'[d] = publisher[d]
  BY <1>1 DEF Domains
<1>3. subscribers' = {} \/ (subscribers' = subscribers /\ publisher[c] = "forget")
  BY DEF CloseAllSubscribers, ForgetTopic
<1>4. subscribers' \subseteq late' \/ topicChan' # NoChan \/ Closing'
  BY <1>1, <1>2, <1>3 DEF FeedInv, Closing, Runs
<1>5. topicChan' # NoChan => topicChan' \in Chans \ closedTopics' /\ Runs(topicChan)'
  BY <1>1, <1>2 DEF FeedInv, Runs
<1>6. \A d \in closedTopics' : publisher'[d] # "none"
  BY <1>1, <1>2 DEF FeedInv
<1>7. \A x \in Subs : caller'[x] \in {"idle", "topics", "install"} => publisher'[x] = "none"
  BY <1>1, <1>2 DEF FeedInv, Chans
<1>8. QED
  BY <1>1, <1>0, <1>4, <1>5, <1>6, <1>7 DEF FeedInv, IsWs

LEMMA FeedStep == FeedInv /\ ChannelInv /\ [Next]_vars => FeedInv'
<1> SUFFICES ASSUME FeedInv, ChannelInv, [Next]_vars PROVE FeedInv'
  OBVIOUS
<1>0. Domains
  BY DEF ChannelInv
<1> USE DEF busVars, loopVars, feedVars, subVars, signalVars, apiVars
<1>1. ASSUME NEW s \in Subs, NewFilter(s) \/ NewPush(s) \/ NewWs(s) \/ SeeTopics(s) \/ BusCheck(s)
      PROVE  FeedInv'
  <2>1. /\ UNCHANGED <<kind, late, topicKnown, topicChan, closedTopics, publisher, subscribers>>
        /\ \E p \in {"topics", "check", "install", "insert", "failed"} :
              /\ caller' = [caller EXCEPT ![s] = p]
              /\ p \in {"topics", "install"} => caller[s] \in {"idle", "topics"}
              /\ p = "insert" => topicKnown
    BY <1>1 DEF NewFilter, NewPush, NewWs, SeeTopics, BusCheck, CallFails
  <2>2. QED
    BY <1>0, <2>1, CallFeeds
<1>2. ASSUME NEW s \in Subs, BusInsert(s) PROVE FeedInv'
  <2>1. /\ caller[s] = "insert" /\ caller' = [caller EXCEPT ![s] = "launch"]
        /\ UNCHANGED <<kind, topicKnown, topicChan, closedTopics, publisher>>
        /\ subscribers' = subscribers \cup {s}
        /\ s \in late' \/ topicChan # NoChan
        /\ late \subseteq late'
    BY <1>2 DEF BusInsert
  <2>2. QED
    BY <1>0, <2>1, CallFeeds
<1>3. ASSUME NEW s \in Subs, Launch(s) PROVE FeedInv'
  <2>1. /\ caller[s] = "launch" /\ caller' = [caller EXCEPT ![s] = "returned"]
        /\ UNCHANGED <<kind, late, topicKnown, topicChan, closedTopics, publisher, subscribers>>
    BY <1>3 DEF Launch
  <2>2. QED
    BY <1>0, <2>1, CallFeeds
<1>4. ASSUME NEW s \in Subs, HandleFilterEvent(s) \/ HandlePushEvent(s) \/ HandleWsEvent(s) PROVE FeedInv'
  BY <1>4, FewerFeeds DEF HandleFilterEvent, HandlePushEvent, HandleWsEvent, Ends, Waits
<1>5. ASSUME NEW s \in Subs, ChannelClosed(s) \/ ErrorClosed(s) \/ ClientGone(s) PROVE FeedInv'
  BY <1>5, FewerFeeds DEF ChannelClosed, ErrorClosed, ClientGone, Ends, Waits
<1>6. ASSUME NEW s \in Subs, RemoveFilter(s) \/ GetFilterChanges(s) \/ Disconnect(s) \/ WsUnsubscribe(s)
      PROVE  FeedInv'
  BY <1>6, FewerFeeds DEF RemoveFilter, GetFilterChanges, Disconnect, WsUnsubscribe
<1>7. CASE Consume
  BY <1>7, FewerFeeds DEF Consume
<1>8. CASE SendToTopic
  <2>1. CASE UNCHANGED publisher
    BY <1>8, <2>1, FewerFeeds DEF SendToTopic
  <2>2. CASE publisher[consumer.chan] = "recv" /\ publisher' = [publisher EXCEPT ![consumer.chan] = "publish"]
    <3>1. UNCHANGED <<kind, late, caller, topicKnown, topicChan, closedTopics, subscribers>>
      BY <1>8 DEF SendToTopic
    <3>2. QED
      BY <1>0, <2>2, <3>1, PublisherFeeds DEF Runs
  <2>3. QED
    BY <1>8, <2>1, <2>2 DEF SendToTopic
<1>9. ASSUME NEW c \in Chans, Publish(c) PROVE FeedInv'
  <2>1. /\ publisher[c] = "publish" /\ publisher' = [publisher EXCEPT ![c] = "recv"]
        /\ UNCHANGED <<kind, late, caller, topicKnown, topicChan, closedTopics, subscribers>>
    BY <1>9 DEF Publish
  <2>2. QED
    BY <1>0, <2>1, PublisherFeeds DEF Runs
<1>10. CASE UNCHANGED vars
  BY <1>10, FewerFeeds DEF vars
<1>11. QED
  BY <1>0, <1>1, <1>2, <1>3, <1>4, <1>5, <1>6, <1>7, <1>8, <1>9, <1>10, InstallFeeds, UninstallFeeds,
     CloseFeeds DEF Next, CallStep, GoroutineStep, PublisherStep

\* Every filter in the map of FiltersAPI hears of its topic, or its goroutine will see its channel
\* closed, or it is a log filter that has ended at an undecodable response, or the topic was
\* removed while it subscribed.  Every websocket subscription hears of its topic until its
\* connection takes it off the bus.
THEOREM ListeningSafety == Spec => []FilterIsListening
<1>1. Init => FeedInv
  BY DEF Init, FeedInv, Chans
<1>2. FeedInv /\ ChannelInv => FilterIsListening
  <2> SUFFICES ASSUME FeedInv, ChannelInv PROVE FilterIsListening
    OBVIOUS
  <2>1. \A s \in subscribers : Hears(s) \/ s \in late
    BY DEF FeedInv, Closing, Runs, Hears
  <2>2. \A s \in Subs : IsWs(s) /\ caller[s] \in {"launch", "returned"} => Hears(s) \/ s \in disconnected
    BY DEF FeedInv, ChannelInv, Registered, Hears
  <2>3. QED
    BY <2>1, <2>2 DEF ChannelInv, Registered, FilterIsListening
<1>3. QED
  BY <1>1, <1>2, InitInv, ChannelStep, FeedStep, PTL DEF Spec

\* No client is given an event it already had, for any number of events, publishers and
\* topics created again: an event is with the consumer or one publisher until it is out.
THEOREM DeliverySafety == Spec => []EventsAtMostOnce
<1>1. EventInv => EventsAtMostOnce
  BY DEF EventInv
<1>2. QED
  BY <1>1, InitInv, EventStep, PTL DEF Spec

-----------------------------------------------------------------------------
(* x/evm: FunToken *)

\* A contract the module has not deployed yet has no tokens.
UndeployedEmpty ==
    \A k \in Nonces : k >= nonce =>
        /\ erc20Supply[CreateAddress[k]] = 0
        /\ \A a \in Accounts : erc20[CreateAddress[k]][a] = 0

\* The coin of an ERC20 exists only under a mapping made from an ERC20.
CoinsOfERC20 ==
    \A d \in Denoms \ Coins :
        (\A f \in ByDenom(d) : f.isMadeFromCoin) => bankSupply[d] = 0

\* A mapping made from a coin has a contract of the module, a mapping made from an ERC20
\* the contract of a user and the denomination named after it.
MappingShape ==
    \A f \in funtokens :
        /\ f.isMadeFromCoin => \E k \in Nonces : k < nonce /\ f.erc20 = CreateAddress[k]
        /\ ~f.isMadeFromCoin => f.erc20 \in Tokens /\ f.denom = ERC20Denom[f.erc20]

\* The inductive invariant: backing of a new mapping follows from the emptiness of its new
\* half, and uniqueness from the nonce that only grows.
FTIInv ==
    /\ FTTypeOK
    /\ MappingsUnique
    /\ EscrowBacked
    /\ UndeployedEmpty
    /\ CoinsOfERC20
    /\ MappingShape

-----------------------------------------------------------------------------
\* A transfer keeps back no more than its amount.
LEMMA FeeBound == ASSUME NEW c, NEW n \in Amounts PROVE TransferFee(c, n) \in 0..n /\ n \in Nat
<1>1. n \in Nat
  BY FunTokenAssumption
<1>2. ASSUME NEW p \in 0..100 PROVE (n * p) \div 100 \in 0..n
  <2> DEFINE q == n * p
  <2>1. n * p + n * (100 - p) = 100 * n
    BY <1>1, SMT
  <2>2. n * p \in Nat /\ n * (100 - p) >= 0
    BY <1>1, SMT
  <2>3. q \in Nat /\ q <= 100 * n
    BY <1>1, <2>1, <2>2, SMT
  <2> HIDE DEF q
  <2>4. q \div 100 \in 0..n
    BY <1>1, <2>3, SMT
  <2>5. QED
    BY <2>4 DEF q
<1>3. 0 \in 0..n
  BY <1>1, SMT
<1>4. c \in Tokens => FeePercentage[c] \in 0..100
  BY FunTokenAssumption
<1>5. QED
  BY <1>1, <1>2, <1>3, <1>4 DEF TransferFee

\* Balances after a transfer, whoever sends and receives.
LEMMA TransferredType ==
    ASSUME FTTypeOK, NEW c \in Contracts, NEW from \in Users \cup {Module},
           NEW to \in Recipients, NEW n \in Amounts, erc20[c][from] >= n
    PROVE  /\ Transferred(c, from, to, n) \in [Accounts -> Nat]
           /\ TransferFee(c, n) \in 0..n
           /\ from # Module /\ to # Module =>
                 Transferred(c, from, to, n)[Module] = erc20[c][Module]
           /\ from # Module /\ to = Module =>
                 Transferred(c, from, to, n)[Module] = erc20[c][Module] + (n - TransferFee(c, n))
           /\ from = Module /\ to # Module =>
                 Transferred(c, from, to, n)[Module] = erc20[c][Module] - n
<1>1. TransferFee(c, n) \in 0..n /\ n \in Nat
  BY FeeBound
<1>2. erc20[c] \in [Accounts -> Nat]
  BY DEF FTTypeOK
<1>3. /\ from \in Accounts /\ to \in Accounts /\ Pot \in Accounts /\ Module \in Accounts
      /\ Pot # from /\ Pot # to /\ Pot # Module
  BY FunTokenAssumption DEF Accounts, Recipients
<1>4. QED
  BY <1>1, <1>2, <1>3, SMT DEF Transferred

\* What ERC20().Transfer returns when sender and recipient differ.
LEMMA IncreaseIsNet ==
    ASSUME FTTypeOK, NEW c \in Contracts, NEW from \in Users \cup {Module},
           NEW to \in Recipients, NEW n \in Amounts, erc20[c][from] >= n, from # to
    PROVE  BalanceIncrease(c, from, to, n) = n - TransferFee(c, n)
<1>1. TransferFee(c, n) \in 0..n /\ n \in Nat
  BY FeeBound
<1>2. erc20[c] \in [Accounts -> Nat]
  BY DEF FTTypeOK
<1>3. /\ from \in Accounts /\ to \in Accounts /\ Pot \in Accounts
      /\ Pot # from /\ Pot # to
  BY FunTokenAssumption DEF Accounts, Recipients
<1>4. QED
  BY <1>1, <1>2, <1>3, SMT DEF Transferred, BalanceIncrease

\* A transfer to oneself increases nothing, so the module cannot be its own recipient.
LEMMA NoSelfTransfer ==
    ASSUME FTTypeOK, NEW c \in Contracts, NEW n \in Amounts, NEW to \in Recipients,
           CanTransfer(c, Module, to, n)
    PROVE  to # Module
<1>1. TransferFee(c, n) \in 0..n /\ n \in Nat
  BY FeeBound
<1>2. erc20[c] \in [Accounts -> Nat] /\ Pot # Module /\ Pot \in Accounts /\ Module \in Accounts
  BY FunTokenAssumption DEF FTTypeOK, Accounts
<1>3. SUFFICES ASSUME to = Module PROVE FALSE
  OBVIOUS
<1>4. Transferred(c, Module, Module, n)[Module] = erc20[c][Module] - n + (n - TransferFee(c, n))
  BY <1>1, <1>2, SMT DEF Transferred
<1>5. QED
  BY <1>1, <1>2, <1>3, <1>4, SMT DEF CanTransfer, BalanceIncrease

-----------------------------------------------------------------------------
\* What a conversion under mapping f does: it touches one denomination and one contract,
\* mints or burns coins only when they are made from an ERC20, and is exact.
ConversionEffect(f) ==
    /\ UNCHANGED <<funtokens, metadata>>
    /\ nonce' \in Nonces /\ nonce' >= nonce
    /\ bank' \in [Denoms -> [Accounts -> Nat]] /\ bankSupply' \in [Denoms -> Int]
    /\ erc20' \in [Contracts -> [Accounts -> Nat]] /\ erc20Supply' \in [Contracts -> Int]
    /\ \A d \in Denoms \ {f.denom} : bank'[d] = bank[d] /\ bankSupply'[d] = bankSupply[d]
    /\ \A c \in Contracts \ {f.erc20} : erc20'[c] = erc20[c] /\ erc20Supply'[c] = erc20Supply[c]
    /\ f.isMadeFromCoin => bankSupply' = bankSupply
    /\ Excess(f)' = Excess(f)

\* Types of what is stored for a mapping, and of the module's nonce after a call.
LEMMA MappingTypes ==
    ASSUME FTIInv, NEW f \in funtokens
    PROVE  /\ f.erc20 \in Contracts /\ f.denom \in Denoms /\ f.isMadeFromCoin \in BOOLEAN
           /\ bank[f.denom] \in [Accounts -> Nat] /\ bankSupply[f.denom] \in Int
           /\ erc20[f.erc20] \in [Accounts -> Nat] /\ erc20Supply[f.erc20] \in Int
           /\ f.isMadeFromCoin => f.erc20 \notin Tokens
<1>1. f.erc20 \in Contracts /\ f.denom \in Denoms /\ f.isMadeFromCoin \in BOOLEAN
  BY DEF FTIInv, FTTypeOK, FunTokens
<1>2. /\ bank[f.denom] \in [Accounts -> Nat] /\ bankSupply[f.denom] \in Int
      /\ erc20[f.erc20] \in [Accounts -> Nat] /\ erc20Supply[f.erc20] \in Int
  BY <1>1 DEF FTIInv, FTTypeOK
<1>3. f.isMadeFromCoin => f.erc20 \notin Tokens
  BY FunTokenAssumption DEF FTIInv, MappingShape
<1>4. QED
  BY <1>1, <1>2, <1>3

LEMMA ModuleCallNonce ==
    ASSUME FTTypeOK, ModuleCall
    PROVE  nonce' \in Nonces /\ nonce' >= nonce /\ nonce' = nonce + 1
  BY FunTokenAssumption, SMT DEF FTTypeOK, ModuleCall, Nonces

\* Bank balances after a send.
LEMMA SentType ==
    ASSUME FTTypeOK, NEW d \in Denoms, NEW from \in Accounts, NEW to \in Accounts,
           NEW n \in Nat, bank[d][from] >= n
    PROVE  /\ Sent(d, from, to, n) \in [Denoms -> [Accounts -> Nat]]
           /\ \A e \in Denoms \ {d} : Sent(d, from, to, n)[e] = bank[e]
           /\ \A a \in Accounts : Sent(d, from, to, n)[d][a] =
                 bank[d][a] - (IF a = from THEN n ELSE 0) + (IF a = to THEN n ELSE 0)
<1>1. bank \in [Denoms -> [Accounts -> Nat]]
  BY DEF FTTypeOK
<1> DEFINE new == [a \in Accounts |-> bank[d][a]
                     - (IF a = from THEN n ELSE 0) + (IF a = to THEN n ELSE 0)]
<1>2. new \in [Accounts -> Nat]
  BY <1>1, SMT
<1>3. Sent(d, from, to, n) = [bank EXCEPT ![d] = new]
  BY DEF Sent
<1>4. QED
  BY <1>1, <1>2, <1>3

LEMMA UserAccounts ==
    ASSUME NEW u \in Users, NEW to \in Recipients
    PROVE  /\ u \in Accounts /\ to \in Accounts /\ Module \in Accounts /\ Pot \in Accounts
           /\ u # Module /\ u # Pot /\ to # Pot /\ Module # Pot
  BY FunTokenAssumption DEF Accounts, Recipients

\* Escrowing coins and minting ERC20 tokens for them.
LEMMA EscrowAndMintEffect ==
    ASSUME FTIInv, NEW f \in funtokens, NEW u \in Users, NEW to \in Recipients,
           NEW n \in Amounts, CoinToEvm(f, u, to, n), f.isMadeFromCoin
    PROVE  ConversionEffect(f)
<1>1. n \in Nat /\ FTTypeOK
  BY FunTokenAssumption DEF FTIInv
<1>2. EscrowAndMint(f, u, to, n) /\ ModuleCall /\ bank[f.denom][u] >= n /\ UNCHANGED <<funtokens, metadata>>
  BY DEF CoinToEvm
<1>3. /\ bank' \in [Denoms -> [Accounts -> Nat]]
      /\ \A d \in Denoms \ {f.denom} : bank'[d] = bank[d]
      /\ bank'[f.denom][Module] = bank[f.denom][Module] + n
  BY <1>1, <1>2, SentType, UserAccounts, MappingTypes, SMT DEF EscrowAndMint
<1>4. /\ erc20' \in [Contracts -> [Accounts -> Nat]]
      /\ \A c \in Contracts \ {f.erc20} : erc20'[c] = erc20[c]
  <2>1. erc20' = [erc20 EXCEPT ![f.erc20] = [erc20[f.erc20] EXCEPT ![to] = erc20[f.erc20][to] + n]]
    BY <1>2 DEF EscrowAndMint
  <2>2. [erc20[f.erc20] EXCEPT ![to] = erc20[f.erc20][to] + n] \in [Accounts -> Nat]
    BY <1>1, MappingTypes, UserAccounts, SMT
  <2>3. QED
    BY <1>1, <2>1, <2>2, MappingTypes DEF FTTypeOK
<1>5. /\ erc20Supply' \in [Contracts -> Int]
      /\ \A c \in Contracts \ {f.erc20} : erc20Supply'[c] = erc20Supply[c]
      /\ erc20Supply'[f.erc20] = erc20Supply[f.erc20] + n
  BY <1>1, <1>2, MappingTypes, SMT DEF EscrowAndMint, FTTypeOK
<1>6. bankSupply' = bankSupply
  BY <1>2 DEF EscrowAndMint
<1>7. Excess(f)' = Excess(f)
  BY <1>1, <1>3, <1>5, MappingTypes, UserAccounts, SMT DEF Excess
<1>8. QED
  BY <1>1, <1>2, <1>3, <1>4, <1>5, <1>6, <1>7, ModuleCallNonce DEF ConversionEffect, FTTypeOK

\* Burning coins and sending the escrowed ERC20 tokens.
LEMMA BurnAndUnescrowEffect ==
    ASSUME FTIInv, NEW f \in funtokens, NEW u \in Users, NEW to \in Recipients,
           NEW n \in Amounts, CoinToEvm(f, u, to, n), ~f.isMadeFromCoin
    PROVE  ConversionEffect(f)
<1>1. n \in Nat /\ FTTypeOK
  BY FunTokenAssumption DEF FTIInv
<1>2. BurnAndUnescrow(f, u, to, n) /\ ModuleCall /\ bank[f.denom][u] >= n /\ UNCHANGED <<funtokens, metadata>>
  BY DEF CoinToEvm
<1>3. /\ bank' \in [Denoms -> [Accounts -> Nat]]
      /\ \A d \in Denoms \ {f.denom} : bank'[d] = bank[d]
  <2>1. bank' = [bank EXCEPT ![f.denom] = [bank[f.denom] EXCEPT ![u] = bank[f.denom][u] - n]]
    BY <1>2 DEF BurnAndUnescrow
  <2>2. [bank[f.denom] EXCEPT ![u] = bank[f.denom][u] - n] \in [Accounts -> Nat]
    BY <1>1, <1>2, MappingTypes, UserAccounts, SMT
  <2>3. QED
    BY <1>1, <2>1, <2>2, MappingTypes DEF FTTypeOK
<1>4. /\ bankSupply' \in [Denoms -> Int]
      /\ \A d \in Denoms \ {f.denom} : bankSupply'[d] = bankSupply[d]
      /\ bankSupply'[f.denom] = bankSupply[f.denom] - n
  BY <1>1, <1>2, MappingTypes, SMT DEF BurnAndUnescrow, FTTypeOK
<1>5. to # Module /\ erc20[f.erc20][Module] >= n
  BY <1>1, <1>2, NoSelfTransfer, MappingTypes DEF BurnAndUnescrow, CanTransfer
<1>6. /\ erc20' \in [Contracts -> [Accounts -> Nat]]
      /\ \A c \in Contracts \ {f.erc20} : erc20'[c] = erc20[c]
      /\ erc20'[f.erc20][Module] = erc20[f.erc20][Module] - n
  <2>1. erc20' = [erc20 EXCEPT ![f.erc20] = Transferred(f.erc20, Module, to, n)]
    BY <1>2 DEF BurnAndUnescrow
  <2>2. /\ Transferred(f.erc20, Module, to, n) \in [Accounts -> Nat]
        /\ Transferred(f.erc20, Module, to, n)[Module] = erc20[f.erc20][Module] - n
    BY <1>1, <1>5, TransferredType, MappingTypes, SMT
  <2>3. QED
    BY <1>1, <2>1, <2>2, MappingTypes DEF FTTypeOK
<1>7. erc20Supply' = erc20Supply
  BY <1>2 DEF BurnAndUnescrow
<1>8. Excess(f)' = Excess(f)
  <2>1. bankSupply[f.denom] \in Int /\ erc20[f.erc20][Module] \in Nat
    BY MappingTypes, UserAccounts
  <2>2. /\ Excess(f) = erc20[f.erc20][Module] - bankSupply[f.denom]
        /\ Excess(f)' = erc20'[f.erc20][Module] - bankSupply'[f.denom]
    BY DEF Excess
  <2>3. QED
    BY <1>1, <1>4, <1>6, <2>1, <2>2, SMT
<1>9. QED
  BY <1>1, <1>2, <1>3, <1>4, <1>6, <1>7, <1>8, ModuleCallNonce DEF ConversionEffect, FTTypeOK

\* Escrowed coins are released for tokens that were burnt.
LEMMA UnescrowBank ==
    ASSUME FTIInv, NEW f \in funtokens, NEW to \in Recipients, NEW n \in Nat, Unescrow(f, to, n)
    PROVE  /\ bank' \in [Denoms -> [Accounts -> Nat]]
           /\ \A d \in Denoms \ {f.denom} : bank'[d] = bank[d]
           /\ bank'[f.denom][Module] = bank[f.denom][Module] - n
           /\ bankSupply' = bankSupply
<1>1. to \in Accounts /\ Module \in Accounts /\ to # Module /\ FTTypeOK
  BY DEF Unescrow, Accounts, Recipients, FTIInv
<1>2. QED
  BY <1>1, SentType, MappingTypes, SMT DEF Unescrow

\* Mint and burn of tokens n of the contract of f, at one account.
LEMMA BurnedTokens ==
    ASSUME FTIInv, NEW f \in funtokens, NEW n \in Nat, NEW new \in [Accounts -> Nat],
           erc20' = [erc20 EXCEPT ![f.erc20] = new],
           erc20Supply' = [erc20Supply EXCEPT ![f.erc20] = @ - n]
    PROVE  /\ erc20' \in [Contracts -> [Accounts -> Nat]] /\ erc20Supply' \in [Contracts -> Int]
           /\ \A c \in Contracts \ {f.erc20} : erc20'[c] = erc20[c] /\ erc20Supply'[c] = erc20Supply[c]
           /\ erc20Supply'[f.erc20] = erc20Supply[f.erc20] - n
  BY MappingTypes, SMT DEF FTIInv, FTTypeOK

\* Both ways of turning tokens of the module's contract into coins: burnFromAuthority, or
\* a transfer to the module that burns what it got.
LEMMA ReleaseEffect ==
    ASSUME FTIInv, NEW f \in funtokens, NEW u \in Users, NEW to \in Recipients,
           NEW n \in Amounts, f.isMadeFromCoin, ModuleCall, UNCHANGED <<funtokens, metadata>>,
           BurnAndRelease(f, u, to, n) \/ CollectAndRelease(f, u, to, n)
    PROVE  ConversionEffect(f)
<1>1. n \in Nat /\ FTTypeOK /\ f.erc20 \notin Tokens /\ f.erc20 \in Contracts
  BY FunTokenAssumption, MappingTypes DEF FTIInv
<1> DEFINE Released ==
       /\ Unescrow(f, to, n)
       /\ \E new \in [Accounts -> Nat] :
             /\ erc20' = [erc20 EXCEPT ![f.erc20] = new]
             /\ erc20Supply' = [erc20Supply EXCEPT ![f.erc20] = @ - n]
<1>2. ASSUME BurnAndRelease(f, u, to, n) PROVE Released
  <2>1. [erc20[f.erc20] EXCEPT ![u] = erc20[f.erc20][u] - n] \in [Accounts -> Nat]
    BY <1>1, <1>2, MappingTypes, UserAccounts, SMT DEF BurnAndRelease
  <2>2. erc20' = [erc20 EXCEPT ![f.erc20] = [erc20[f.erc20] EXCEPT ![u] = erc20[f.erc20][u] - n]]
    BY <1>2 DEF BurnAndRelease
  <2>3. QED
    BY <1>2, <2>1, <2>2 DEF BurnAndRelease
<1>3. ASSUME CollectAndRelease(f, u, to, n) PROVE Released
  <2>1. /\ CanTransfer(f.erc20, u, Module, n) /\ erc20[f.erc20][u] >= n
        /\ Module \in Recipients /\ u # Module /\ Module \in Accounts
    BY <1>3, UserAccounts DEF CollectAndRelease, CanTransfer, Recipients
  <2>2. BalanceIncrease(f.erc20, u, Module, n) = n /\ TransferFee(f.erc20, n) = 0
    <3>1. TransferFee(f.erc20, n) = 0
      BY <1>1 DEF TransferFee
    <3>2. BalanceIncrease(f.erc20, u, Module, n) = n - TransferFee(f.erc20, n)
      BY <1>1, <2>1, IncreaseIsNet
    <3>3. QED
      BY <1>1, <3>1, <3>2, SMT
  <2>3. /\ Transferred(f.erc20, u, Module, n) \in [Accounts -> Nat]
        /\ Transferred(f.erc20, u, Module, n)[Module] = erc20[f.erc20][Module] + n
    BY <1>1, <2>1, <2>2, TransferredType, MappingTypes, SMT
  <2>4. [Transferred(f.erc20, u, Module, n) EXCEPT ![Module] = @ - n] \in [Accounts -> Nat]
    BY <1>1, <2>1, <2>3, MappingTypes, SMT
  <2>5. QED
    BY <1>3, <2>2, <2>4 DEF CollectAndRelease
<1>4. Released
  BY <1>2, <1>3
<1>5. PICK new \in [Accounts -> Nat] :
         /\ erc20' = [erc20 EXCEPT ![f.erc20] = new]
         /\ erc20Supply' = [erc20Supply EXCEPT ![f.erc20] = @ - n]
  BY <1>4
<1>6. /\ erc20' \in [Contracts -> [Accounts -> Nat]] /\ erc20Supply' \in [Contracts -> Int]
      /\ \A c \in Contracts \ {f.erc20} : erc20'[c] = erc20[c] /\ erc20Supply'[c] = erc20Supply[c]
      /\ erc20Supply'[f.erc20] = erc20Supply[f.erc20] - n
  BY <1>1, <1>5, BurnedTokens
<1>7. /\ bank' \in [Denoms -> [Accounts -> Nat]]
      /\ \A d \in Denoms \ {f.denom} : bank'[d] = bank[d]
      /\ bank'[f.denom][Module] = bank[f.denom][Module] - n
      /\ bankSupply' = bankSupply
  BY <1>1, <1>4, UnescrowBank
<1>8. Excess(f)' = Excess(f)
  <2>1. bank[f.denom][Module] \in Nat
    BY MappingTypes, UserAccounts
  <2>2. QED
    BY <1>1, <1>6, <1>7, <2>1, MappingTypes, SMT DEF Excess
<1>9. QED
  BY <1>1, <1>6, <1>7, <1>8, ModuleCallNonce DEF ConversionEffect, FTTypeOK

\* Escrowing ERC20 tokens and minting coins for what the module got.
LEMMA EscrowAndMintCoinEffect ==
    ASSUME FTIInv, NEW f \in funtokens, NEW u \in Users, NEW to \in Recipients,
           NEW n \in Amounts, ~f.isMadeFromCoin, ModuleCall, UNCHANGED <<funtokens, metadata>>,
           EscrowAndMintCoin(f, u, to, n)
    PROVE  ConversionEffect(f)
<1> DEFINE got == BalanceIncrease(f.erc20, u, Module, n)
<1>1. n \in Nat /\ FTTypeOK /\ f.erc20 \in Contracts
  BY FunTokenAssumption, MappingTypes DEF FTIInv
<1>2. /\ erc20[f.erc20][u] >= n /\ Module \in Recipients /\ u # Module /\ Module \in Accounts
      /\ to \in Accounts /\ to # Module
  BY UserAccounts DEF EscrowAndMintCoin, CanTransfer, Recipients
<1>3. got = n - TransferFee(f.erc20, n) /\ got \in Nat
  <2>1. TransferFee(f.erc20, n) \in 0..n
    BY <1>1, <1>2, TransferredType
  <2>2. got = n - TransferFee(f.erc20, n)
    BY <1>1, <1>2, IncreaseIsNet
  <2>3. QED
    BY <1>1, <2>1, <2>2, SMT
<1>4. /\ Transferred(f.erc20, u, Module, n) \in [Accounts -> Nat]
      /\ Transferred(f.erc20, u, Module, n)[Module] = erc20[f.erc20][Module] + got
  BY <1>1, <1>2, <1>3, TransferredType, SMT
<1>5. /\ erc20' \in [Contracts -> [Accounts -> Nat]]
      /\ \A c \in Contracts \ {f.erc20} : erc20'[c] = erc20[c]
      /\ erc20'[f.erc20][Module] = erc20[f.erc20][Module] + got
      /\ erc20Supply' = erc20Supply
  BY <1>1, <1>4 DEF EscrowAndMintCoin, FTTypeOK
<1>6. /\ bank' \in [Denoms -> [Accounts -> Nat]]
      /\ \A d \in Denoms \ {f.denom} : bank'[d] = bank[d]
  <2>1. bank' = [bank EXCEPT ![f.denom] = [bank[f.denom] EXCEPT ![to] = bank[f.denom][to] + got]]
    BY DEF EscrowAndMintCoin
  <2>2. [bank[f.denom] EXCEPT ![to] = bank[f.denom][to] + got] \in [Accounts -> Nat]
    BY <1>2, <1>3, MappingTypes, SMT
  <2>3. QED
    BY <1>1, <2>1, <2>2, MappingTypes DEF FTTypeOK
<1>7. /\ bankSupply' \in [Denoms -> Int]
      /\ \A d \in Denoms \ {f.denom} : bankSupply'[d] = bankSupply[d]
      /\ bankSupply'[f.denom] = bankSupply[f.denom] + got
  <2>1. bankSupply' = [bankSupply EXCEPT ![f.denom] = bankSupply[f.denom] + got]
    BY DEF EscrowAndMintCoin
  <2>2. QED
    BY <1>1, <1>3, <2>1, MappingTypes, SMT DEF FTTypeOK
<1>8. Excess(f)' = Excess(f)
  <2>1. erc20[f.erc20][Module] \in Nat
    BY <1>2, MappingTypes
  <2>2. QED
    BY <1>3, <1>5, <1>7, <2>1, MappingTypes, SMT DEF Excess
<1>9. QED
  BY <1>1, <1>5, <1>6, <1>7, <1>8, ModuleCallNonce DEF ConversionEffect, FTTypeOK

-----------------------------------------------------------------------------
\* A conversion leaves the excess of every mapping as it was, because no two mappings share
\* a denomination or a contract.
LEMMA ConversionIsExact ==
    ASSUME FTIInv, NEW f \in funtokens, ConversionEffect(f), NEW g \in funtokens
    PROVE  Excess(g)' = Excess(g)
<1>1. CASE g = f
  BY <1>1 DEF ConversionEffect
<1>2. CASE g # f
  <2>1. g.denom # f.denom /\ g.erc20 # f.erc20
    BY <1>2 DEF FTIInv, MappingsUnique
  <2>2. /\ bank'[g.denom] = bank[g.denom] /\ bankSupply'[g.denom] = bankSupply[g.denom]
        /\ erc20'[g.erc20] = erc20[g.erc20] /\ erc20Supply'[g.erc20] = erc20Supply[g.erc20]
    BY <2>1, MappingTypes DEF ConversionEffect
  <2>3. QED
    BY <2>2 DEF Excess
<1>3. QED
  BY <1>1, <1>2

LEMMA ConversionPreserves ==
    ASSUME FTIInv, NEW f \in funtokens, ConversionEffect(f)
    PROVE  FTIInv'
<1>1. funtokens' = funtokens /\ metadata' = metadata /\ nonce' \in Nonces /\ nonce \in Nonces /\ nonce' >= nonce
  BY DEF ConversionEffect, FTIInv, FTTypeOK
<1>2. FTTypeOK'
  BY <1>1 DEF ConversionEffect, FTIInv, FTTypeOK
<1>3. MappingsUnique'
  BY <1>1 DEF FTIInv, MappingsUnique
<1>4. EscrowBacked'
  BY <1>1, ConversionIsExact DEF FTIInv, EscrowBacked
<1>5. UndeployedEmpty'
  <2> SUFFICES ASSUME NEW k \in Nonces, k >= nonce'
               PROVE  /\ erc20Supply'[CreateAddress[k]] = 0
                      /\ \A a \in Accounts : erc20'[CreateAddress[k]][a] = 0
    BY DEF UndeployedEmpty
  <2>1. k >= nonce
    BY <1>1, SMT DEF Nonces
  <2>2. CreateAddress[k] # f.erc20
    <3>1. CASE f.isMadeFromCoin
      <4>1. PICK l \in Nonces : l < nonce /\ f.erc20 = CreateAddress[l]
        BY <3>1 DEF FTIInv, MappingShape
      <4>2. k # l
        BY <1>1, <2>1, <4>1, SMT DEF Nonces
      <4>3. QED
        BY <4>1, <4>2, FunTokenAssumption
    <3>2. CASE ~f.isMadeFromCoin
      BY <3>2, FunTokenAssumption DEF FTIInv, MappingShape
    <3>3. QED
      BY <3>1, <3>2
  <2>3. CreateAddress[k] \in Contracts
    BY DEF Contracts
  <2>4. QED
    BY <2>1, <2>2, <2>3, SMT DEF FTIInv, UndeployedEmpty, ConversionEffect
<1>6. CoinsOfERC20'
  <2> SUFFICES ASSUME NEW d \in Denoms \ Coins, \A g \in ByDenom(d) : g.isMadeFromCoin
               PROVE  bankSupply'[d] = 0
    BY <1>1 DEF CoinsOfERC20, ByDenom
  <2>1. bankSupply[d] = 0
    BY DEF FTIInv, CoinsOfERC20
  <2>2. CASE f.denom = d
    BY <2>1, <2>2 DEF ByDenom, ConversionEffect
  <2>3. CASE f.denom # d
    BY <2>1, <2>3 DEF ConversionEffect
  <2>4. QED
    BY <2>2, <2>3
<1>7. MappingShape'
  <2> SUFFICES ASSUME NEW g \in funtokens
               PROVE  /\ g.isMadeFromCoin => \E k \in Nonces : k < nonce' /\ g.erc20 = CreateAddress[k]
                      /\ ~g.isMadeFromCoin => g.erc20 \in Tokens /\ g.denom = ERC20Denom[g.erc20]
    BY <1>1 DEF MappingShape
  <2>1. \A k \in Nonces : k < nonce => k < nonce'
    BY <1>1, SMT DEF Nonces
  <2>2. QED
    BY <2>1 DEF FTIInv, MappingShape
<1>8. QED
  BY <1>2, <1>3, <1>4, <1>5, <1>6, <1>7 DEF FTIInv

-----------------------------------------------------------------------------
\* The registration fee leaves every escrow alone: it is collected before it is burnt, and
\* a mapping made from an ERC20 does not have the denomination of the fee.
LEMMA DeductFeeEffect ==
    ASSUME FTIInv, NEW u \in Users, DeductFee(u)
    PROVE  /\ bank' \in [Denoms -> [Accounts -> Nat]] /\ bankSupply' \in [Denoms -> Int]
           /\ \A d \in Denoms : bank'[d][Module] = bank[d][Module]
           /\ \A d \in Denoms \ Coins : bankSupply'[d] = bankSupply[d]
<1>1. /\ NativeDenom \in Denoms /\ NativeDenom \in Coins /\ CreateFuntokenFee \in Nat
      /\ u \in Accounts /\ u # Module /\ Module \in Accounts
  BY FunTokenAssumption DEF Denoms, Accounts
<1>2. bank \in [Denoms -> [Accounts -> Nat]] /\ bankSupply \in [Denoms -> Int]
  BY DEF FTIInv, FTTypeOK
<1> DEFINE paid == [bank[NativeDenom] EXCEPT ![u] = bank[NativeDenom][u] - CreateFuntokenFee]
<1>3. paid \in [Accounts -> Nat] /\ paid[Module] = bank[NativeDenom][Module]
  BY <1>1, <1>2, SMT DEF DeductFee
<1>4. bank' = [bank EXCEPT ![NativeDenom] = paid]
  BY DEF DeductFee
<1>5. bankSupply' = [bankSupply EXCEPT ![NativeDenom] = bankSupply[NativeDenom] - CreateFuntokenFee]
  BY DEF DeductFee
<1>6. bank' \in [Denoms -> [Accounts -> Nat]] /\ \A d \in Denoms : bank'[d][Module] = bank[d][Module]
  BY <1>1, <1>2, <1>3, <1>4
<1>7. bankSupply' \in [Denoms -> Int] /\ \A d \in Denoms \ Coins : bankSupply'[d] = bankSupply[d]
  BY <1>1, <1>2, <1>5, SMT
<1>8. QED
  BY <1>6, <1>7

\* What both registrations have in common: they insert mapping f, whose halves are new.
RegistrationEffect(f) ==
    /\ f \in FunTokens
    /\ funtokens' = funtokens \cup {f}
    /\ metadata' \subseteq Denoms
    /\ UNCHANGED <<erc20, erc20Supply>>
    /\ nonce' \in Nonces /\ nonce' = nonce + 1
    /\ ByDenom(f.denom) = {} /\ ByERC20(f.erc20) = {}
    /\ f.isMadeFromCoin => f.erc20 = CreateAddress[nonce]
    /\ ~f.isMadeFromCoin => f.erc20 \in Tokens /\ f.denom = ERC20Denom[f.erc20]

\* A registration leaves the excess of the existing mappings as it was.
LEMMA RegistrationIsExact ==
    ASSUME FTIInv, NEW u \in Users, DeductFee(u), NEW f, RegistrationEffect(f), NEW g \in funtokens
    PROVE  Excess(g)' = Excess(g)
<1>1. ~g.isMadeFromCoin => g.denom \in Denoms \ Coins
  BY FunTokenAssumption, MappingTypes DEF FTIInv, MappingShape
<1>2. QED
  BY <1>1, DeductFeeEffect, MappingTypes DEF RegistrationEffect, Excess

LEMMA RegistrationPreserves ==
    ASSUME FTIInv, NEW u \in Users, DeductFee(u), NEW f, RegistrationEffect(f)
    PROVE  FTIInv'
<1>1. nonce \in Nonces /\ nonce' \in Nonces /\ nonce' = nonce + 1 /\ MaxNonce \in Nat
  BY FunTokenAssumption DEF RegistrationEffect, FTIInv, FTTypeOK
<1>2. FTTypeOK'
  BY DeductFeeEffect DEF RegistrationEffect, FTIInv, FTTypeOK
<1>3. MappingsUnique'
  BY DEF RegistrationEffect, FTIInv, MappingsUnique, ByDenom, ByERC20
<1>4. Excess(f)' >= 0
  <2>1. f.denom \in Denoms /\ f.erc20 \in Contracts /\ Module \in Accounts
    BY DEF RegistrationEffect, FunTokens, Accounts
  <2>2. CASE f.isMadeFromCoin
    <3>1. erc20Supply[f.erc20] = 0
      BY <1>1, <2>2, SMT DEF RegistrationEffect, FTIInv, UndeployedEmpty, Nonces
    <3>2. bank'[f.denom][Module] \in Nat
      BY <2>1, DeductFeeEffect
    <3>3. Excess(f)' = bank'[f.denom][Module] - erc20Supply[f.erc20]
      BY <2>2 DEF RegistrationEffect, Excess
    <3>4. QED
      BY <3>1, <3>2, <3>3, SMT
  <2>3. CASE ~f.isMadeFromCoin
    <3>1. f.denom \in Denoms \ Coins
      BY <2>1, <2>3, FunTokenAssumption DEF RegistrationEffect
    <3>2. bankSupply[f.denom] = 0
      BY <3>1 DEF RegistrationEffect, FTIInv, CoinsOfERC20
    <3>3. bankSupply'[f.denom] = 0
      BY <3>1, <3>2, DeductFeeEffect
    <3>4. erc20[f.erc20][Module] \in Nat
      BY <2>1 DEF FTIInv, FTTypeOK
    <3>5. QED
      BY <2>3, <3>3, <3>4, SMT DEF RegistrationEffect, Excess
  <2>4. QED
    BY <2>2, <2>3
<1>5. EscrowBacked'
  <2>1. ASSUME NEW g \in funtokens PROVE Excess(g)' >= 0
    BY RegistrationIsExact DEF FTIInv, EscrowBacked
  <2>2. QED
    BY <1>4, <2>1 DEF EscrowBacked, RegistrationEffect
<1>6. UndeployedEmpty'
  BY <1>1, SMT DEF RegistrationEffect, FTIInv, UndeployedEmpty, Nonces
<1>7. CoinsOfERC20'
  <2> SUFFICES ASSUME NEW d \in Denoms \ Coins, \A g \in ByDenom(d)' : g.isMadeFromCoin
               PROVE  bankSupply'[d] = 0
    BY DEF CoinsOfERC20
  <2>1. ByDenom(d) \subseteq ByDenom(d)'
    BY DEF ByDenom, RegistrationEffect
  <2>2. bankSupply[d] = 0
    BY <2>1 DEF FTIInv, CoinsOfERC20
  <2>3. QED
    BY <2>2, DeductFeeEffect
<1>8. MappingShape'
  <2>1. \A k \in Nonces : k < nonce => k < nonce'
    BY <1>1, SMT DEF Nonces
  <2>2. nonce < nonce'
    BY <1>1, SMT DEF Nonces
  <2>3. QED
    BY <1>1, <2>1, <2>2 DEF FTIInv, MappingShape, RegistrationEffect
<1>9. QED
  BY <1>2, <1>3, <1>5, <1>6, <1>7, <1>8 DEF FTIInv

LEMMA FromCoinEffect ==
    ASSUME FTIInv, NEW u \in Users, NEW d \in Denoms, CreateFunTokenFromCoin(u, d)
    PROVE  RegistrationEffect([erc20 |-> CreateAddress[nonce], denom |-> d, isMadeFromCoin |-> TRUE])
<1>1. FTTypeOK /\ ModuleCall
  BY DEF FTIInv, CreateFunTokenFromCoin
<1>2. nonce' \in Nonces /\ nonce' = nonce + 1 /\ nonce \in Nonces
  BY <1>1, ModuleCallNonce DEF FTTypeOK
<1>3. CreateAddress[nonce] \in Contracts
  BY <1>2 DEF Contracts
<1>4. QED
  BY <1>1, <1>2, <1>3 DEF RegistrationEffect, CreateFunTokenFromCoin, Insert, FunTokens, FTTypeOK

LEMMA FromERC20Effect ==
    ASSUME FTIInv, NEW u \in Users, NEW t \in Tokens, CreateFunTokenFromERC20(u, t)
    PROVE  RegistrationEffect([erc20 |-> t, denom |-> ERC20Denom[t], isMadeFromCoin |-> FALSE])
<1>1. FTTypeOK /\ ModuleCall
  BY DEF FTIInv, CreateFunTokenFromERC20
<1>2. nonce' \in Nonces /\ nonce' = nonce + 1
  BY <1>1, ModuleCallNonce
<1>3. t \in Contracts /\ ERC20Denom[t] \in Denoms
  BY DEF Contracts, Denoms
<1>4. QED
  BY <1>1, <1>2, <1>3 DEF RegistrationEffect, CreateFunTokenFromERC20, Insert, FunTokens, FTTypeOK

-----------------------------------------------------------------------------
\* What users do on their own: they never call the module, and they may leave tokens with
\* the module account or burn them, which adds to the excess.
OwnEffect ==
    /\ UNCHANGED <<funtokens, bankSupply, nonce>>
    /\ metadata' \subseteq Denoms
    /\ bank' \in [Denoms -> [Accounts -> Nat]]
    /\ erc20' \in [Contracts -> [Accounts -> Nat]] /\ erc20Supply' \in [Contracts -> Int]
    /\ \A d \in Denoms : bank'[d][Module] = bank[d][Module]
    /\ \A c \in Contracts : /\ erc20'[c][Module] >= erc20[c][Module]
                            /\ erc20Supply'[c] <= erc20Supply[c]
    /\ \A c \in Contracts : (\A a \in Accounts : erc20[c][a] = 0) =>
          erc20'[c] = erc20[c] /\ erc20Supply'[c] = erc20Supply[c]

LEMMA OwnPreserves ==
    ASSUME FTIInv, OwnEffect
    PROVE  FTIInv'
<1>1. FTTypeOK' /\ MappingsUnique' /\ CoinsOfERC20' /\ MappingShape'
  BY DEF OwnEffect, FTIInv, FTTypeOK, MappingsUnique, CoinsOfERC20, MappingShape, ByDenom
<1>2. UndeployedEmpty'
  <2> SUFFICES ASSUME NEW k \in Nonces, k >= nonce
               PROVE  /\ erc20Supply'[CreateAddress[k]] = 0
                      /\ \A a \in Accounts : erc20'[CreateAddress[k]][a] = 0
    BY DEF UndeployedEmpty, OwnEffect
  <2>1. CreateAddress[k] \in Contracts
    BY DEF Contracts
  <2>2. /\ erc20Supply[CreateAddress[k]] = 0
        /\ \A a \in Accounts : erc20[CreateAddress[k]][a] = 0
    BY DEF FTIInv, UndeployedEmpty
  <2>3. QED
    BY <2>1, <2>2 DEF OwnEffect
<1>3. EscrowBacked'
  <2> SUFFICES ASSUME NEW f \in funtokens PROVE Excess(f)' >= 0
    BY DEF EscrowBacked, OwnEffect
  <2>1. Excess(f) >= 0 /\ Module \in Accounts
    BY DEF FTIInv, EscrowBacked, Accounts
  <2>2. /\ f.denom \in Denoms /\ f.erc20 \in Contracts
        /\ bank[f.denom][Module] \in Int /\ bankSupply[f.denom] \in Int
        /\ erc20[f.erc20][Module] \in Int /\ erc20Supply[f.erc20] \in Int
        /\ erc20'[f.erc20][Module] \in Int /\ erc20Supply'[f.erc20] \in Int
    BY <2>1, MappingTypes, SMT DEF OwnEffect
  <2>3. /\ bank'[f.denom][Module] = bank[f.denom][Module] /\ bankSupply' = bankSupply
        /\ erc20'[f.erc20][Module] >= erc20[f.erc20][Module]
        /\ erc20Supply'[f.erc20] <= erc20Supply[f.erc20]
    BY <2>2 DEF OwnEffect
  <2>4. CASE f.isMadeFromCoin
    <3>1. /\ Excess(f) = bank[f.denom][Module] - erc20Supply[f.erc20]
          /\ Excess(f)' = bank'[f.denom][Module] - erc20Supply'[f.erc20]
      BY <2>4 DEF Excess
    <3>2. QED
      BY <2>1, <2>2, <2>3, <3>1, SMT
  <2>5. CASE ~f.isMadeFromCoin
    <3>1. /\ Excess(f) = erc20[f.erc20][Module] - bankSupply[f.denom]
          /\ Excess(f)' = erc20'[f.erc20][Module] - bankSupply'[f.denom]
      BY <2>5 DEF Excess
    <3>2. QED
      BY <2>1, <2>2, <2>3, <3>1, SMT
  <2>6. QED
    BY <2>4, <2>5
<1>4. QED
  BY <1>1, <1>2, <1>3 DEF FTIInv

LEMMA BankMsgSendEffect ==
    ASSUME FTIInv, NEW u \in Users, NEW to \in Recipients, NEW d \in Denoms, NEW n \in Amounts,
           BankMsgSend(u, to, d, n)
    PROVE  OwnEffect
<1>1. FTTypeOK /\ n \in Nat
  BY FunTokenAssumption DEF FTIInv
<1>0. bank' = Sent(d, u, to, n) /\ bank[d][u] >= n /\ to # Module
  BY DEF BankMsgSend
<1>2. /\ bank' \in [Denoms -> [Accounts -> Nat]]
      /\ \A e \in Denoms \ {d} : bank'[e] = bank[e]
      /\ bank'[d][Module] = bank[d][Module] - 0 + 0
  <2>1. u \in Accounts /\ to \in Accounts /\ Module \in Accounts /\ u # Module
    BY UserAccounts
  <2>2. /\ bank' \in [Denoms -> [Accounts -> Nat]]
        /\ \A e \in Denoms \ {d} : bank'[e] = bank[e]
        /\ \A a \in Accounts : bank'[d][a] =
              bank[d][a] - (IF a = u THEN n ELSE 0) + (IF a = to THEN n ELSE 0)
    <3> DEFINE sent == Sent(d, u, to, n)
    <3>1. /\ sent \in [Denoms -> [Accounts -> Nat]]
          /\ \A e \in Denoms \ {d} : sent[e] = bank[e]
          /\ \A a \in Accounts : sent[d][a] =
                bank[d][a] - (IF a = u THEN n ELSE 0) + (IF a = to THEN n ELSE 0)
      BY <1>1, <1>0, <2>1, SentType, SMT
    <3>2. bank' = sent
      BY <1>0
    <3> HIDE DEF sent
    <3>3. QED
      BY <3>1, <3>2
  <2>3. /\ bank'[d][Module] = bank[d][Module] - (IF Module = u THEN n ELSE 0)
                                            + (IF Module = to THEN n ELSE 0)
        /\ (IF Module = u THEN n ELSE 0) = 0 /\ (IF Module = to THEN n ELSE 0) = 0
    BY <1>0, <2>1, <2>2
  <2>4. QED
    BY <2>2, <2>3
<1>3. \A e \in Denoms : bank'[e][Module] = bank[e][Module]
  BY <1>1, <1>2, UserAccounts, SMT DEF FTTypeOK
<1>4. \A c \in Contracts : erc20[c][Module] \in Int /\ erc20Supply[c] \in Int
  BY <1>1, UserAccounts, SMT DEF FTTypeOK
<1>5. QED
  BY <1>1, <1>2, <1>3, <1>4, SMT DEF OwnEffect, BankMsgSend, FTTypeOK

LEMMA UserTransferEffect ==
    ASSUME FTIInv, NEW u \in Users, NEW to \in Recipients, NEW c \in Contracts, NEW n \in Amounts,
           UserTransfer(u, to, c, n)
    PROVE  OwnEffect
<1>0. FTTypeOK /\ n \in Nat \ {0} /\ erc20[c][u] >= n
  BY FunTokenAssumption DEF FTIInv, UserTransfer
<1>1. FTTypeOK /\ n \in Nat /\ n > 0 /\ erc20[c][u] >= n
  BY <1>0, SMT
<1>2. u \in Accounts /\ u # Module /\ Module \in Accounts
  BY UserAccounts
<1>3. /\ Transferred(c, u, to, n) \in [Accounts -> Nat]
      /\ TransferFee(c, n) \in 0..n
      /\ to # Module => Transferred(c, u, to, n)[Module] = erc20[c][Module]
      /\ to = Module => Transferred(c, u, to, n)[Module] = erc20[c][Module] + (n - TransferFee(c, n))
  BY <1>1, <1>2, TransferredType
<1>4. erc20' = [erc20 EXCEPT ![c] = Transferred(c, u, to, n)]
  BY DEF UserTransfer
<1>5. \A e \in Contracts : erc20[e][Module] \in Nat /\ erc20Supply[e] \in Int
  BY <1>1, <1>2 DEF FTTypeOK
<1>6. Transferred(c, u, to, n)[Module] >= erc20[c][Module]
  BY <1>1, <1>3, <1>5, SMT
<1>7. /\ erc20' \in [Contracts -> [Accounts -> Nat]]
      /\ \A e \in Contracts : erc20'[e][Module] >= erc20[e][Module]
  BY <1>1, <1>3, <1>4, <1>5, <1>6, SMT DEF FTTypeOK
<1>8. ASSUME NEW e \in Contracts, \A a \in Accounts : erc20[e][a] = 0
      PROVE  erc20'[e] = erc20[e]
  <2>1. e # c
    BY <1>1, <1>2, <1>8, SMT
  <2>2. QED
    BY <1>1, <1>4, <2>1 DEF FTTypeOK
<1>9. QED
  BY <1>1, <1>5, <1>7, <1>8, SMT DEF OwnEffect, UserTransfer, FTTypeOK

LEMMA UserBurnEffect ==
    ASSUME FTIInv, NEW u \in Users, NEW c \in Contracts, NEW n \in Amounts, UserBurn(u, c, n)
    PROVE  OwnEffect
<1>1. FTTypeOK /\ n \in Nat /\ n > 0 /\ erc20[c][u] >= n
  BY FunTokenAssumption, SMT DEF FTIInv, UserBurn
<1>2. u \in Accounts /\ u # Module /\ Module \in Accounts
  BY FunTokenAssumption DEF Accounts
<1> DEFINE left == [erc20[c] EXCEPT ![u] = erc20[c][u] - n]
<1>3. left \in [Accounts -> Nat] /\ left[Module] = erc20[c][Module]
  BY <1>1, <1>2, SMT DEF FTTypeOK
<1>4. erc20' = [erc20 EXCEPT ![c] = left]
  BY DEF UserBurn
<1>5. \A e \in Contracts : erc20[e][Module] \in Nat /\ erc20Supply[e] \in Int
  BY <1>1, <1>2 DEF FTTypeOK
<1>6. /\ erc20' \in [Contracts -> [Accounts -> Nat]]
      /\ \A e \in Contracts : erc20'[e][Module] >= erc20[e][Module]
  BY <1>1, <1>3, <1>4, <1>5, SMT DEF FTTypeOK
<1>7. erc20Supply' = [erc20Supply EXCEPT ![c] = erc20Supply[c] - n]
  BY DEF UserBurn
<1>8. /\ erc20Supply' \in [Contracts -> Int]
      /\ \A e \in Contracts : erc20Supply'[e] <= erc20Supply[e]
  BY <1>1, <1>5, <1>7, SMT DEF FTTypeOK
<1>9. ASSUME NEW e \in Contracts, \A a \in Accounts : erc20[e][a] = 0
      PROVE  erc20'[e] = erc20[e] /\ erc20Supply'[e] = erc20Supply[e]
  <2>1. e # c
    BY <1>1, <1>2, <1>9, SMT
  <2>2. QED
    BY <1>1, <1>4, <1>7, <2>1 DEF FTTypeOK
<1>10. QED
  BY <1>1, <1>6, <1>8, <1>9 DEF OwnEffect, UserBurn, FTTypeOK

LEMMA SudoSetDenomMetadataEffect ==
    ASSUME FTIInv, NEW d \in Denoms, SudoSetDenomMetadata(d)
    PROVE  OwnEffect
<1>1. \A c \in Contracts : erc20[c][Module] \in Nat /\ erc20Supply[c] \in Int
  BY DEF FTIInv, FTTypeOK, Accounts
<1>2. QED
  BY <1>1, SMT DEF OwnEffect, SudoSetDenomMetadata, FTIInv, FTTypeOK

-----------------------------------------------------------------------------
\* Every step keeps the invariant; one that uses the module's nonce is exact.
LEMMA StepPreserves ==
    ASSUME FTIInv, FTNext
    PROVE  FTIInv' /\ \A g \in funtokens : nonce' # nonce => Excess(g)' = Excess(g)
<1> DEFINE Good == FTIInv' /\ \A g \in funtokens : nonce' # nonce => Excess(g)' = Excess(g)
<1>0. ASSUME NEW f \in funtokens, ConversionEffect(f) PROVE Good
  BY <1>0, ConversionPreserves, ConversionIsExact
<1>b. ASSUME OwnEffect PROVE Good
  <2>1. nonce' = nonce
    BY <1>b DEF OwnEffect
  <2>2. QED
    BY <1>b, <2>1, OwnPreserves
<1>c. ASSUME NEW u \in Users, DeductFee(u), NEW f, RegistrationEffect(f) PROVE Good
  BY <1>c, RegistrationPreserves, RegistrationIsExact
<1>1. ASSUME NEW u \in Users, NEW d \in Denoms, CreateFunTokenFromCoin(u, d) PROVE Good
  BY <1>1, <1>c, FromCoinEffect DEF CreateFunTokenFromCoin
<1>2. ASSUME NEW u \in Users, NEW t \in Tokens, CreateFunTokenFromERC20(u, t) PROVE Good
  BY <1>2, <1>c, FromERC20Effect DEF CreateFunTokenFromERC20
<1>3. ASSUME NEW u \in Users, NEW to \in Recipients, NEW d \in Denoms, NEW n \in Amounts,
             ConvertCoinToEvm(u, to, d, n) \/ SendToEvm(u, to, d, n)
      PROVE  Good
  <2>1. PICK f \in ByDenom(d) : CoinToEvm(f, u, to, n)
    BY <1>3 DEF ConvertCoinToEvm, SendToEvm
  <2>2. f \in funtokens
    BY <2>1 DEF ByDenom
  <2>3. ConversionEffect(f)
    BY <2>1, <2>2, EscrowAndMintEffect, BurnAndUnescrowEffect
  <2>4. QED
    BY <1>0, <2>2, <2>3
<1>4. ASSUME NEW u \in Users, NEW to \in Recipients, NEW c \in Contracts, NEW n \in Amounts,
             ConvertEvmToCoin(u, to, c, n)
      PROVE  Good
  <2>1. PICK f \in ByERC20(c) : \/ f.isMadeFromCoin /\ BurnAndRelease(f, u, to, n)
                                \/ ~f.isMadeFromCoin /\ EscrowAndMintCoin(f, u, to, n)
    BY <1>4 DEF ConvertEvmToCoin
  <2>2. f \in funtokens /\ ModuleCall /\ UNCHANGED <<funtokens, metadata>>
    BY <1>4, <2>1 DEF ByERC20, ConvertEvmToCoin
  <2>3. ConversionEffect(f)
    BY <2>1, <2>2, ReleaseEffect, EscrowAndMintCoinEffect
  <2>4. QED
    BY <1>0, <2>2, <2>3
<1>5. ASSUME NEW u \in Users, NEW to \in Recipients, NEW c \in Contracts, NEW n \in Amounts,
             SendToBank(u, to, c, n)
      PROVE  Good
  <2>1. PICK f \in ByERC20(c) : \/ f.isMadeFromCoin /\ CollectAndRelease(f, u, to, n)
                                \/ ~f.isMadeFromCoin /\ EscrowAndMintCoin(f, u, to, n)
    BY <1>5 DEF SendToBank
  <2>2. f \in funtokens /\ ModuleCall /\ UNCHANGED <<funtokens, metadata>>
    BY <1>5, <2>1 DEF ByERC20, SendToBank
  <2>3. ConversionEffect(f)
    BY <2>1, <2>2, ReleaseEffect, EscrowAndMintCoinEffect
  <2>4. QED
    BY <1>0, <2>2, <2>3
<1>6. ASSUME NEW u \in Users, NEW to \in Recipients, NEW d \in Denoms, NEW n \in Amounts,
             BankMsgSend(u, to, d, n)
      PROVE  Good
  BY <1>6, <1>b, BankMsgSendEffect
<1>7. ASSUME NEW u \in Users, NEW to \in Recipients, NEW c \in Contracts, NEW n \in Amounts,
             UserTransfer(u, to, c, n)
      PROVE  Good
  BY <1>7, <1>b, UserTransferEffect
<1>8. ASSUME NEW u \in Users, NEW c \in Contracts, NEW n \in Amounts, UserBurn(u, c, n) PROVE Good
  BY <1>8, <1>b, UserBurnEffect
<1>9. ASSUME NEW d \in Denoms, SudoSetDenomMetadata(d) PROVE Good
  BY <1>9, <1>b, SudoSetDenomMetadataEffect
<1>10. QED
  BY <1>1, <1>2, <1>3, <1>4, <1>5, <1>6, <1>7, <1>8, <1>9 DEF FTNext

\* The invariant holds at genesis, where no mapping exists.
LEMMA InitEstablishes ==
    ASSUME FTInit
    PROVE  FTIInv
<1>1. FTTypeOK
  <2>1. funtokens \subseteq FunTokens /\ metadata \subseteq Denoms /\ nonce \in Nonces
    BY FunTokenAssumption, SMT DEF FTInit, Nonces
  <2>2. bank \in [Denoms -> [Accounts -> Nat]] /\ bankSupply \in [Denoms -> Int]
    BY FunTokenAssumption, SMT DEF FTInit
  <2>3. erc20 \in [Contracts -> [Accounts -> Nat]] /\ erc20Supply \in [Contracts -> Int]
    BY FunTokenAssumption, SMT DEF FTInit
  <2>4. QED
    BY <2>1, <2>2, <2>3 DEF FTTypeOK
<1>2. UndeployedEmpty
  <2>1. \A k \in Nonces : CreateAddress[k] \in Contracts /\ CreateAddress[k] \notin Tokens
    BY FunTokenAssumption DEF Contracts
  <2>2. QED
    BY <2>1 DEF FTInit, UndeployedEmpty
<1>3. MappingsUnique /\ EscrowBacked /\ CoinsOfERC20 /\ MappingShape
  BY DEF FTInit, MappingsUnique, EscrowBacked, CoinsOfERC20, MappingShape
<1>4. QED
  BY <1>1, <1>2, <1>3 DEF FTIInv

LEMMA FTInvariant == FTSpec => []FTIInv
<1>1. FTInit => FTIInv
  BY InitEstablishes
<1>2. FTIInv /\ [FTNext]_ftVars => FTIInv'
  <2>1. ASSUME FTIInv, UNCHANGED ftVars PROVE FTIInv'
    BY <2>1 DEF ftVars, FTIInv, FTTypeOK, MappingsUnique, EscrowBacked, Excess, UndeployedEmpty,
                CoinsOfERC20, ByDenom, MappingShape
  <2>2. QED
    BY <2>1, StepPreserves
<1>3. QED
  BY <1>1, <1>2, PTL DEF FTSpec

\* No account ever has a negative balance of coins or tokens, and what is stored keeps its type.
THEOREM FunTokenTypeCorrect == FTSpec => []FTTypeOK
<1>1. FTIInv => FTTypeOK
  BY DEF FTIInv
<1>2. QED
  BY <1>1, FTInvariant, PTL

\* CreateFunToken never registers a denomination or a contract twice, although contracts of
\* the module are found by its nonce and sudoers may set metadata of any denomination.
THEOREM MappingsAreUnique == FTSpec => []MappingsUnique
<1>1. FTIInv => MappingsUnique
  BY DEF FTIInv
<1>2. QED
  BY <1>1, FTInvariant, PTL

\* The module account always holds enough to take back everything issued under a mapping,
\* whatever fee the ERC20 contract takes.
THEOREM EscrowIsSufficient == FTSpec => []EscrowBacked
<1>1. FTIInv => EscrowBacked
  BY DEF FTIInv
<1>2. QED
  BY <1>1, FTInvariant, PTL

\* Messages and precompile calls take from an escrow what they take out of circulation.
THEOREM ConversionsAreExact == FTSpec => ConversionsExact
<1>1. FTIInv /\ [FTNext]_ftVars =>
         [\A f \in funtokens : nonce' # nonce => Excess(f)' = Excess(f)]_ftVars
  BY StepPreserves
<1>2. QED
  BY <1>1, FTInvariant, PTL DEF FTSpec, ConversionsExact
=============================================================================
