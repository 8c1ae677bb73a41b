------------------------- MODULE HttpSessionsProofs -------------------------
(***************************************************************************)
(* Proofs about HttpSessions, for every value of its constants: its types, *)
(* the requests and the event queue, the pool of session IDs.              *)
(*                                                                         *)
(* RequestStaysValid is not inductive: that handling one page does not     *)
(* forget the request of another rests on every request ID being at one    *)
(* place, waiting in one service's inbox or answered by one queued page.   *)
(***************************************************************************)
EXTENDS HttpSessions, SequenceTheorems, TLAPS

USE WebSessionsAssumption, HttpSessionsAssumption

\* What appending web events does to the three variables of the queues.
LEMMA PostEventsType ==
    ASSUME TypeOK, NEW evs \in Seq(Events), PostEvents(evs)
    PROVE  eventQueue' \subseteq Events /\ tail' \in Nat /\ posted' \in Seq(PostedEvents)
<1>1. Len(evs) \in Nat /\ DOMAIN evs = 1 .. Len(evs) /\ \A i \in 1 .. Len(evs) : evs[i] \in Events
  BY LenProperties
<1>2. \A i \in 1 .. Len(evs) : [evs[i] EXCEPT !.at = tail + i] \in Events
  <2> TAKE i \in 1 .. Len(evs)
  <2>1. tail + i \in Nat
    BY <1>1 DEF TypeOK
  <2>2. CASE evs[i] \in PageEvents
    BY <2>1, <2>2 DEF Events, PageEvents
  <2>3. CASE evs[i] \in CookieEvents
    BY <2>1, <2>3 DEF Events, CookieEvents
  <2> QED BY <1>1, <2>2, <2>3 DEF Events
<1>3. [i \in DOMAIN evs |-> ProcessEventsCall] \in Seq(PostedEvents)
  BY <1>1, IsASeq DEF PostedEvents
<1> QED
  BY <1>1, <1>2, <1>3, ConcatProperties DEF PostEvents, TypeOK

LEMMA SingleEvents ==
    /\ \A sid \in Ids \cup {0}, rid \in Rids : Page(sid, rid) \in Events
    /\ \A sid \in Ids, k \in Keys : StoreCookie(sid, k) \in Events
  BY DEF Page, StoreCookie, Events, PageEvents, CookieEvents

\* createService() with getNextID() keeps the types of the session tables and
\* hands out an ID.
LEMMA CreateServiceType ==
    ASSUME TypeOK, NEW s \in Services \cup {NoService}, CreateService(s)
    PROVE  /\ NextID \in Ids
           /\ sessions' \in [Ids -> Services \cup {NoService, Absent}]
           /\ freeList' \in Seq(Ids)
           /\ maxID' \in 1 .. MaxID + 1
           /\ object' \in [Services -> {"unborn", "alive", "doomed", "dead"}]
           /\ bound' \in [Services -> Seq(Ids)]
<1>1. NextID \in Ids /\ freeList' \in Seq(Ids) /\ maxID' \in 1 .. MaxID + 1
  <2>1. CASE freeList = <<>>
    BY <2>1 DEF CreateService, GetNextID, CanAllocate, NextID, TypeOK, Ids
  <2>2. CASE freeList # <<>>
    <3>1. Head(freeList) \in Ids /\ Tail(freeList) \in Seq(Ids)
      BY <2>2, HeadTailProperties DEF TypeOK
    <3> QED BY <2>2, <3>1 DEF CreateService, GetNextID, NextID, TypeOK
  <2> QED BY <2>1, <2>2
<1>2. sessions' \in [Ids -> Services \cup {NoService, Absent}]
  BY <1>1 DEF CreateService, TypeOK
<1>3. object' \in [Services -> {"unborn", "alive", "doomed", "dead"}]
  BY DEF CreateService, TypeOK
<1>4. bound' \in [Services -> Seq(Ids)]
  <2>1. CASE s = NoService
    BY <2>1 DEF CreateService, TypeOK
  <2>2. CASE s \in Services
    <3>1. bound[s] \in Seq(Ids)
      BY <2>2 DEF TypeOK
    <3>2. Append(bound[s], NextID) \in Seq(Ids)
      BY <1>1, <3>1, AppendProperties
    <3>3. bound' = [bound EXCEPT ![s] = Append(bound[s], NextID)]
      BY <2>2 DEF CreateService
    <3> QED BY <2>2, <3>2, <3>3 DEF TypeOK
  <2> QED BY <2>1, <2>2
<1> QED BY <1>1, <1>2, <1>3, <1>4

LEMMA DeleteLaterType ==
    ASSUME TypeOK, NEW s \in Services, DeleteLater(s)
    PROVE  /\ object' \in [Services -> {"unborn", "alive", "doomed", "dead"}]
           /\ posted' \in Seq(PostedEvents)
<1>1. DeferredDelete(s) \in PostedEvents
  BY DEF PostedEvents
<1>2. Append(posted, DeferredDelete(s)) \in Seq(PostedEvents)
  BY <1>1, AppendProperties DEF TypeOK
<1> QED BY <1>2 DEF DeleteLater, TypeOK

\* The end of incomingRequest().
LEMMA DispatchType ==
    ASSUME TypeOK, NEW d \in Devices, NEW sid \in Ids \cup {0},
           NEW service \in Services \cup {NoService, Absent},
           NEW cookies \in Seq(Events), Dispatch(d, sid, service, cookies)
    PROVE  /\ eventQueue' \subseteq Events /\ tail' \in Nat /\ posted' \in Seq(PostedEvents)
           /\ up' \in BOOLEAN
           /\ pendingRequests' \subseteq (Ids \cup {0}) \X Rids
           /\ requests' \in Seq(Devices \cup {NoService}) /\ Len(requests') <= MaxRequests
           /\ device' = device /\ sent' = sent
           /\ inbox' \subseteq Assignments
<1> DEFINE rid == NextRequestID
           target == IF service \in Services THEN service ELSE Static
<1>1. rid \in Rids
  BY LenProperties DEF Dispatch, NextRequestID, Rids, TypeOK
<1>2. requests' \in Seq(Devices \cup {NoService}) /\ Len(requests') <= MaxRequests
  BY AppendProperties DEF Dispatch, NextRequestID, TypeOK
<1>3. pendingRequests' \subseteq (Ids \cup {0}) \X Rids
  BY <1>1 DEF Dispatch, TypeOK
<1>4. device' = device /\ sent' = sent
  BY DEF Dispatch
<1>5. CASE target = NoService
  <2>1. Append(cookies, Page(0, rid)) \in Seq(Events)
    BY <1>1, SingleEvents, AppendProperties
  <2>2. PostEvents(Append(cookies, Page(0, rid))) /\ up' = FALSE /\ inbox' = inbox
    BY <1>5 DEF Dispatch
  <2> QED BY <1>2, <1>3, <1>4, <2>1, <2>2, PostEventsType DEF TypeOK
<1>6. CASE target # NoService
  <2>1. /\ PostEvents(cookies)
        /\ up' = (target \in Services => object'[target] # "dead")
        /\ inbox' = inbox \cup {[svc |-> target, sid |-> sid, rid |-> rid]}
    BY <1>6 DEF Dispatch
  <2>2. target \in Services \cup {Static}
    OBVIOUS
  <2>3. inbox' \subseteq Assignments
    BY <1>1, <2>1, <2>2 DEF Assignments, TypeOK
  <2>4. up' \in BOOLEAN
    BY <2>1
  <2> QED BY <1>2, <1>3, <1>4, <2>1, <2>3, <2>4, PostEventsType
<1> QED BY <1>5, <1>6

\* TypeOK is inductive.
LEMMA TypeOKStep == TypeOK /\ [Next]_vars => TypeOK'
<1> SUFFICES ASSUME TypeOK, [Next]_vars PROVE TypeOK'
  OBVIOUS
<1> USE DEF sessionVars, httpVars
<1>1. CASE RunDeferredDelete /\ UNCHANGED httpVars
  <2> DEFINE s == Head(posted).arg
             notices == [i \in DOMAIN bound[s] |-> DestroyedNotice(bound[s][i])]
  <2>1. posted # <<>> /\ Head(posted) \in PostedEvents /\ Tail(posted) \in Seq(PostedEvents)
    BY <1>1, HeadTailProperties DEF RunDeferredDelete, TypeOK
  <2>2. s \in Services
    BY <1>1, <2>1 DEF RunDeferredDelete, PostedEvents, DeferredDelete, DestroyedNotice, ProcessEventsCall
  <2>3. bound[s] \in Seq(Ids)
    BY <2>2 DEF TypeOK
  <2>4. DOMAIN bound[s] = 1 .. Len(bound[s]) /\ Len(bound[s]) \in Nat
        /\ \A i \in 1 .. Len(bound[s]) : bound[s][i] \in Ids
    BY <2>3, LenProperties
  <2>5. \A i \in DOMAIN bound[s] : DestroyedNotice(bound[s][i]) \in PostedEvents
    BY <2>4 DEF PostedEvents
  <2>6. notices \in Seq(PostedEvents)
    BY <2>4, <2>5, IsASeq
  <2>7. posted' \in Seq(PostedEvents)
    BY <1>1, <2>1, <2>6, ConcatProperties DEF RunDeferredDelete
  <2>8. object' \in [Services -> {"unborn", "alive", "doomed", "dead"}]
    BY <1>1, <2>2 DEF RunDeferredDelete, TypeOK
  <2> QED BY <1>1, <2>7, <2>8 DEF RunDeferredDelete, TypeOK
<1>2. CASE SessionDestroyed
  <2> DEFINE id == Head(posted).arg
  <2>1. posted # <<>> /\ Head(posted) \in PostedEvents /\ Tail(posted) \in Seq(PostedEvents)
    BY <1>2, HeadTailProperties DEF SessionDestroyed, DeliverDestroyed, TypeOK
  <2>2. id \in Ids
    BY <1>2, <2>1 DEF SessionDestroyed, DeliverDestroyed, PostedEvents, DeferredDelete,
                      DestroyedNotice, ProcessEventsCall
  <2>3. Append(freeList, id) \in Seq(Ids)
    BY <2>2, AppendProperties DEF TypeOK
  <2>4. freeList' \in Seq(Ids) /\ sessions' \in [Ids -> Services \cup {NoService, Absent}]
    BY <1>2, <2>2, <2>3 DEF SessionDestroyed, DeliverDestroyed, ReleaseID, TypeOK
  <2>5. sessionKeys' \in [Keys -> Ids \cup {0}]
    <3>1. CASE UNCHANGED sessionKeys
      BY <3>1 DEF TypeOK
    <3>2. ASSUME NEW k \in Keys, sessionKeys' = [sessionKeys EXCEPT ![k] = 0]
          PROVE sessionKeys' \in [Keys -> Ids \cup {0}]
      BY <3>2 DEF TypeOK
    <3> QED BY <1>2, <3>1, <3>2 DEF SessionDestroyed, RemoveKeyOf
  <2> QED BY <1>2, <2>1, <2>4, <2>5 DEF SessionDestroyed, DeliverDestroyed, TypeOK
<1>3. CASE ProcessEvents
  <2>1. posted # <<>> /\ Tail(posted) \in Seq(PostedEvents)
    BY <1>3, HeadTailProperties DEF ProcessEvents, TypeOK
  <2>2. CASE Pages = {}
    BY <1>3, <2>1, <2>2 DEF ProcessEvents, TypeOK
  <2>3. CASE Pages # {}
    <3>1. PICK page \in Pages : SendPage(page)
      BY <1>3, <2>3 DEF ProcessEvents
    <3>2. Append(Tail(posted), ProcessEventsCall) \in Seq(PostedEvents)
      BY <2>1, AppendProperties DEF PostedEvents
    <3>3. posted' \in Seq(PostedEvents)
      BY <2>1, <3>1, <3>2 DEF SendPage
    <3>4. eventQueue' \subseteq Events /\ pendingRequests' \subseteq (Ids \cup {0}) \X Rids
          /\ up' \in BOOLEAN
      BY <3>1 DEF SendPage, Handled, TypeOK
    <3>5. sent' \subseteq Keys \X Rids
      <4>2. page.rid \in Rids
        BY DEF Pages, TypeOK, Events, PageEvents, CookieEvents
      <4>3. \A e \in CookiesFor(page) : e.key \in Keys
        BY DEF CookiesFor, TypeOK, Events, PageEvents, CookieEvents
      <4> QED BY <3>1, <4>2, <4>3 DEF SendPage, Handled, TypeOK
    <3> QED BY <1>3, <3>3, <3>4, <3>5 DEF ProcessEvents, TypeOK
  <2> QED BY <2>2, <2>3
<1>4. ASSUME NEW d \in Devices, NEW k \in Keys, RequestWithKey(d, k)
      PROVE TypeOK'
  <2>1. sessionKeys[k] \in Ids /\ sessions[sessionKeys[k]] \in Services \cup {NoService, Absent}
    BY <1>4 DEF RequestWithKey, TypeOK
  <2>2. <<>> \in Seq(Events)
    BY EmptySeq
  <2> QED BY <1>4, <2>1, <2>2, DispatchType DEF RequestWithKey, TypeOK
<1>5. ASSUME NEW d \in Devices, NEW s \in Services \cup {NoService}, NEW k \in Keys,
             RequestCreatesSession(d, s, k)
      PROVE TypeOK'
  <2>1. CreateService(s)
    BY <1>5 DEF RequestCreatesSession, NewSession
  <2>2. NextID \in Ids
    BY <2>1, CreateServiceType
  <2>3. <<StoreCookie(NextID, k)>> \in Seq(Events)
    BY <2>2, SingleEvents
  <2>4. Dispatch(d, NextID, s, <<StoreCookie(NextID, k)>>)
    BY <1>5 DEF RequestCreatesSession
  <2>5. NextRequestID \in Rids
    BY <2>4, LenProperties DEF Dispatch, NextRequestID, Rids, TypeOK
  <2>6. sessionKeys' \in [Keys -> Ids \cup {0}] /\ creator' \in [Keys -> 0 .. NoRequest]
    BY <1>5, <2>2, <2>5 DEF RequestCreatesSession, NewSession, NoRequest, Rids, TypeOK
  <2> QED BY <2>1, <2>2, <2>3, <2>4, <2>6, CreateServiceType, DispatchType DEF TypeOK
<1>6. ASSUME NEW d \in Devices, RequestWithoutSession(d)
      PROVE TypeOK'
  <2>2. <<>> \in Seq(Events)
    BY EmptySeq
  <2> QED BY <1>6, <2>2, DispatchType DEF RequestWithoutSession, TypeOK
<1>7. ASSUME NEW d \in Devices, Disconnected(d)
      PROVE TypeOK'
  <2>1. device' \in [Devices -> {"open", "closing", "deleted"}]
    BY <1>7 DEF Disconnected, TypeOK
  <2>2. requests' \in Seq(Devices \cup {NoService}) /\ Len(requests') <= MaxRequests
    <3>1. CASE UNCHANGED requests
      BY <3>1 DEF TypeOK
    <3>2. ASSUME NEW r \in DOMAIN requests, requests' = [requests EXCEPT ![r] = NoService]
          PROVE  requests' \in Seq(Devices \cup {NoService}) /\ Len(requests') <= MaxRequests
      BY <3>2, ExceptSeq, LenProperties DEF TypeOK
    <3> QED BY <1>7, <3>1, <3>2 DEF Disconnected
  <2> QED BY <1>7, <2>1, <2>2 DEF Disconnected, TypeOK
<1>8. ASSUME NEW s \in Services \cup {NoService}, NEW k \in Keys, ApplicationNewSession(s, k)
      PROVE TypeOK'
  <2>1. CreateService(s)
    BY <1>8 DEF ApplicationNewSession, NewSession
  <2>2. NextID \in Ids
    BY <2>1, CreateServiceType
  <2>3. <<StoreCookie(NextID, k)>> \in Seq(Events) /\ PostEvents(<<StoreCookie(NextID, k)>>)
    BY <1>8, <2>2, SingleEvents DEF ApplicationNewSession
  <2>4. sessionKeys' \in [Keys -> Ids \cup {0}] /\ creator' \in [Keys -> 0 .. NoRequest]
    BY <1>8, <2>2 DEF ApplicationNewSession, NewSession, NoRequest, TypeOK
  <2> QED BY <1>8, <2>1, <2>3, <2>4, CreateServiceType, PostEventsType
          DEF ApplicationNewSession, TypeOK
<1>9. ASSUME NEW t \in inbox, Respond(t)
      PROVE TypeOK'
  <2>1. t.sid \in Ids \cup {0} /\ t.rid \in Rids
    BY DEF TypeOK, Assignments
  <2>2. <<Page(t.sid, t.rid)>> \in Seq(Events)
    BY <2>1, SingleEvents
  <2> QED BY <1>9, <2>2, PostEventsType DEF Respond, TypeOK
<1>10. ASSUME NEW id \in Ids, CloseSession(id), UNCHANGED httpVars
       PROVE TypeOK'
  <2>1. sessions' \in [Ids -> Services \cup {NoService, Absent}]
    BY <1>10 DEF CloseSession, TypeOK
  <2>2. CASE UNCHANGED <<object, posted>> /\ up' \in BOOLEAN
    BY <1>10, <2>1, <2>2 DEF CloseSession, TypeOK
  <2>3. CASE sessions[id] \in Services /\ DeleteLater(sessions[id]) /\ UNCHANGED up
    <3>1. sessions[id] \in Services
      BY <2>3
    <3> QED BY <1>10, <2>1, <2>3, <3>1, DeleteLaterType DEF CloseSession, TypeOK
  <2> QED BY <1>10, <2>2, <2>3 DEF CloseSession, TypeOK
<1>11. ASSUME NEW s \in Services, ServiceDeletesItself(s), UNCHANGED httpVars
       PROVE TypeOK'
  BY <1>11, DeleteLaterType DEF ServiceDeletesItself, TypeOK
<1>12. CASE UNCHANGED vars
  BY <1>12 DEF vars, TypeOK
<1>13. ASSUME NEW d \in Devices, DeleteDevice(d)
       PROVE TypeOK'
  BY <1>13 DEF DeleteDevice, TypeOK
<1> QED BY <1>1, <1>2, <1>3, <1>4, <1>5, <1>6, <1>7, <1>8, <1>9, <1>10, <1>11, <1>12, <1>13
        DEF Next, EventLoop, Browser, Application

LEMMA TypeCorrectInitially == Init => TypeOK
<1> SUFFICES ASSUME Init PROVE TypeOK
  OBVIOUS
<1>1. \A S : <<>> \in Seq(S)
  BY EmptySeq
<1> QED BY <1>1 DEF Init, SessionsInit, TypeOK, NoRequest, Events

\* Every variable keeps its type, for every number of IDs, requests, services,
\* keys and connections.
THEOREM TypeCorrect == Spec => []TypeOK
  BY TypeCorrectInitially, TypeOKStep, PTL DEF Spec

-----------------------------------------------------------------------------
RequestsAreKnown ==
    /\ \A t \in inbox : t.rid \in DOMAIN requests
    /\ \A e \in Pages : e.rid \in DOMAIN requests

OneAnswerPerRequest ==
    /\ \A t, u \in inbox : t.rid = u.rid => t = u
    /\ \A e, f \in Pages : e.rid = f.rid => e = f
    /\ \A t \in inbox, e \in Pages : t.rid # e.rid

RInv == TypeOK /\ RequestsAreKnown /\ OneAnswerPerRequest /\ RequestStaysValid

\* The pages after some web events were posted, of which one at most is a page.
LEMMA PostedPages ==
    ASSUME TypeOK, NEW evs \in Seq(Events), PostEvents(evs),
           NEW rid \in Rids,
           \A i, j \in DOMAIN evs : evs[i].type = "Page" /\ evs[j].type = "Page" => i = j,
           \A i \in DOMAIN evs : evs[i].type = "Page" => evs[i].rid = rid
    PROVE  /\ \A e \in Pages' : e \in Pages \/
                 (e.rid = rid /\ \E i \in DOMAIN evs : e = [evs[i] EXCEPT !.at = tail + i] /\ evs[i].type = "Page")
           /\ \A e, f \in Pages' : e \notin Pages /\ f \notin Pages => e = f
<1> DEFINE Put(i) == [evs[i] EXCEPT !.at = tail + i]
<1>1. \A i \in DOMAIN evs : evs[i] \in Events
  BY LenProperties
<1>2. \A i \in DOMAIN evs : Put(i).type = evs[i].type /\ Put(i).rid = evs[i].rid
  BY <1>1 DEF Events, PageEvents, CookieEvents
<1>3. \A e \in Pages' : e \in Pages \/ \E i \in DOMAIN evs : e = Put(i) /\ evs[i].type = "Page"
  <2> SUFFICES ASSUME NEW e \in eventQueue', e.type = "Page", e \notin Pages
               PROVE  \E i \in DOMAIN evs : e = Put(i) /\ evs[i].type = "Page"
    BY DEF Pages
  <2>1. e \notin eventQueue
    BY DEF Pages
  <2>2. PICK i \in DOMAIN evs : e = Put(i)
    BY <2>1 DEF PostEvents
  <2> QED BY <1>2, <2>2
<1> HIDE DEF Put
<1>4. \A e, f \in Pages' : e \notin Pages /\ f \notin Pages => e = f
  BY <1>3
<1>5. \A e \in Pages' : e \in Pages \/
          (e.rid = rid /\ \E i \in DOMAIN evs : e = Put(i) /\ evs[i].type = "Page")
  BY <1>2, <1>3
<1> QED BY <1>4, <1>5 DEF Put

\* The end of incomingRequest(): the new request is in one place.
LEMMA DispatchStep ==
    ASSUME RInv, TypeOK', up, NEW d \in Devices, NEW sid \in Ids \cup {0},
           NEW service \in Services \cup {NoService, Absent},
           NEW cookies \in Seq(CookieEvents), Dispatch(d, sid, service, cookies)
    PROVE  RInv'
<1> DEFINE rid == Len(requests) + 1
           target == IF service \in Services THEN service ELSE Static
<1>1. /\ rid \in Rids /\ rid \notin DOMAIN requests
      /\ DOMAIN requests' = DOMAIN requests \cup {rid}
  BY LenProperties, AppendProperties DEF RInv, TypeOK, Dispatch, NextRequestID, Rids
<1>2. pendingRequests' = pendingRequests \cup {<<sid, rid>>}
  BY DEF Dispatch, NextRequestID
<1>3. /\ Len(cookies) \in Nat /\ DOMAIN cookies = 1 .. Len(cookies)
      /\ \A i \in DOMAIN cookies : cookies[i] \in CookieEvents
  BY LenProperties
<1>4. \A i \in DOMAIN cookies : cookies[i].type # "Page"
  BY <1>3 DEF CookieEvents
<1>5. cookies \in Seq(Events)
  BY DEF Events
<1>6. RequestsAreKnown /\ OneAnswerPerRequest /\ RequestStaysValid
  BY DEF RInv
<1>7. CASE target = NoService
  <2> DEFINE evs == Append(cookies, Page(0, rid))
  <2>1. PostEvents(evs) /\ inbox' = inbox /\ up' = FALSE
    BY <1>7 DEF Dispatch, NextRequestID
  <2>2. /\ DOMAIN evs = 1 .. Len(cookies) + 1 /\ evs[Len(cookies) + 1] = Page(0, rid)
        /\ \A i \in DOMAIN cookies : evs[i] = cookies[i]
    BY <1>1, <1>3, <1>5, SingleEvents, AppendProperties
  <2>3. evs \in Seq(Events)
    BY <1>1, <1>5, SingleEvents, AppendProperties
  <2>4. \A i \in DOMAIN evs : evs[i].type = "Page" => i = Len(cookies) + 1 /\ evs[i].rid = rid
    BY <1>3, <1>4, <2>2 DEF Page
  <2>5. /\ \A e \in Pages' : e \in Pages \/ e.rid = rid
        /\ \A e, f \in Pages' : e \notin Pages /\ f \notin Pages => e = f
    <3> HIDE DEF evs, rid
    <3> QED BY <1>1, <2>1, <2>3, <2>4, PostedPages DEF RInv
  <2>6. RequestsAreKnown'
    BY <1>1, <1>6, <2>1, <2>5 DEF RequestsAreKnown
  <2>7. OneAnswerPerRequest'
    BY <1>1, <1>6, <2>1, <2>5 DEF OneAnswerPerRequest, RequestsAreKnown
  <2>8. RequestStaysValid'
    BY <2>1 DEF RequestStaysValid
  <2> QED BY <2>6, <2>7, <2>8 DEF RInv
<1>8. CASE target # NoService
  <2>1. PostEvents(cookies) /\ inbox' = inbox \cup {[svc |-> target, sid |-> sid, rid |-> rid]}
    BY <1>8 DEF Dispatch, NextRequestID
  <2>2. \A e \in Pages' : e \in Pages
    BY <1>1, <1>4, <1>5, <2>1, PostedPages DEF RInv
  <2>3. RequestsAreKnown'
    BY <1>1, <1>6, <2>1, <2>2 DEF RequestsAreKnown
  <2>4. OneAnswerPerRequest'
    BY <1>1, <1>6, <2>1, <2>2 DEF OneAnswerPerRequest, RequestsAreKnown
  <2>5. RequestStaysValid'
    BY <1>2, <1>6, <2>1, <2>2 DEF RequestStaysValid
  <2> QED BY <2>3, <2>4, <2>5 DEF RInv
<1> QED BY <1>7, <1>8

\* Steps that post no page and touch no request.
LEMMA NoAnswerStep ==
    ASSUME RInv, TypeOK', up' => up, DOMAIN requests' = DOMAIN requests,
           UNCHANGED <<pendingRequests, inbox>>, \A e \in Pages' : e \in Pages
    PROVE  RInv'
<1>1. RequestsAreKnown' /\ OneAnswerPerRequest'
  BY DEF RInv, RequestsAreKnown, OneAnswerPerRequest
<1>2. RequestStaysValid'
  BY DEF RInv, RequestStaysValid
<1> QED BY <1>1, <1>2 DEF RInv

LEMMA RInvStep == RInv /\ [Next]_vars => RInv'
<1> SUFFICES ASSUME RInv, [Next]_vars PROVE RInv'
  OBVIOUS
<1> USE DEF sessionVars, httpVars
<1>1. TypeOK /\ TypeOK'
  BY TypeOKStep DEF RInv
<1>2. CASE UNCHANGED <<eventQueue, requests, pendingRequests, inbox>> /\ (up' => up)
  BY <1>1, <1>2, NoAnswerStep DEF Pages
<1>3. CASE EventLoop /\ ~ProcessEvents
  BY <1>2, <1>3 DEF EventLoop, RunDeferredDelete, SessionDestroyed, DeliverDestroyed, DeleteDevice
<1>4. CASE ProcessEvents
  <2>1. up /\ UNCHANGED <<requests, inbox>>
    BY <1>4 DEF ProcessEvents
  <2>2. CASE Pages = {}
    BY <1>2, <1>4, <2>1, <2>2 DEF ProcessEvents
  <2>3. ASSUME NEW page \in Pages, SendPage(page)
        PROVE  RInv'
    <3>1. \A e \in Pages' : e \in Pages /\ e # page
      BY <2>3 DEF SendPage, Pages
    <3>2. RequestsAreKnown' /\ OneAnswerPerRequest'
      BY <2>1, <3>1 DEF RInv, RequestsAreKnown, OneAnswerPerRequest
    <3>3. RequestStaysValid'
      BY <2>1, <2>3, <3>1 DEF RequestStaysValid, SendPage, Handled, RInv, OneAnswerPerRequest
    <3> QED BY <1>1, <3>2, <3>3 DEF RInv
  <2> QED BY <1>4, <2>2, <2>3 DEF ProcessEvents
<1>5. ASSUME NEW d \in Devices, NEW k \in Keys, RequestWithKey(d, k)
      PROVE RInv'
  <2>1. sessionKeys[k] \in Ids /\ sessions[sessionKeys[k]] \in Services \cup {NoService, Absent}
    BY <1>1, <1>5 DEF RequestWithKey, TypeOK
  <2> QED BY <1>1, <1>5, <2>1, EmptySeq, DispatchStep DEF RequestWithKey
<1>6. ASSUME NEW d \in Devices, NEW s \in Services \cup {NoService}, NEW k \in Keys,
             RequestCreatesSession(d, s, k)
      PROVE RInv'
  <2>1. NextID \in Ids
    BY <1>1, <1>6, CreateServiceType DEF RequestCreatesSession, NewSession
  <2>2. <<StoreCookie(NextID, k)>> \in Seq(CookieEvents)
    BY <2>1 DEF StoreCookie, CookieEvents
  <2> QED BY <1>1, <1>6, <2>1, <2>2, DispatchStep DEF RequestCreatesSession
<1>7. ASSUME NEW d \in Devices, RequestWithoutSession(d)
      PROVE RInv'
  BY <1>1, <1>7, EmptySeq, DispatchStep DEF RequestWithoutSession
<1>8. ASSUME NEW d \in Devices, Disconnected(d)
      PROVE RInv'
  <2>1. DOMAIN requests' = DOMAIN requests
    BY <1>8, <1>1 DEF Disconnected, TypeOK
  <2> QED BY <1>1, <1>8, <2>1, NoAnswerStep DEF Disconnected, Pages
<1>9. ASSUME NEW s \in Services \cup {NoService}, NEW k \in Keys, ApplicationNewSession(s, k)
      PROVE RInv'
  <2> DEFINE evs == <<StoreCookie(NextID, k)>>
  <2>1. evs \in Seq(Events)
    BY <1>1, <1>9, CreateServiceType, SingleEvents DEF ApplicationNewSession, NewSession
  <2>2. PostEvents(evs)
    BY <1>9 DEF ApplicationNewSession
  <2>3. DOMAIN evs = {1} /\ evs[1].type # "Page"
    BY DEF StoreCookie
  <2>4. \A e \in Pages' : e \in Pages
    <3>1. eventQueue' = eventQueue \cup {[evs[i] EXCEPT !.at = tail + i] : i \in {1}}
      BY <2>2, <2>3 DEF PostEvents
    <3> QED BY <3>1 DEF StoreCookie, Pages
  <2> QED BY <1>1, <1>9, <2>4, NoAnswerStep DEF ApplicationNewSession
<1>10. ASSUME NEW t \in inbox, Respond(t)
       PROVE RInv'
  <2> DEFINE evs == <<Page(t.sid, t.rid)>>
  <2>1. t.sid \in Ids \cup {0} /\ t.rid \in Rids
    BY <1>1 DEF TypeOK, Assignments
  <2>2. PostEvents(evs) /\ inbox' = inbox \ {t} /\ up /\ UNCHANGED <<requests, pendingRequests>>
    BY <1>10 DEF Respond
  <2>3. eventQueue' = eventQueue \cup {[Page(t.sid, t.rid) EXCEPT !.at = tail + 1]}
    <3>1. DOMAIN evs = {1} /\ evs[1] = Page(t.sid, t.rid)
      OBVIOUS
    <3> QED BY <2>2, <3>1 DEF PostEvents
  <2>4. \A e \in Pages' : e \in Pages \/ e = [Page(t.sid, t.rid) EXCEPT !.at = tail + 1]
    BY <2>3 DEF Pages
  <2> DEFINE new == [Page(t.sid, t.rid) EXCEPT !.at = tail + 1]
  <2>5. new.sid = t.sid /\ new.rid = t.rid
    BY DEF Page
  <2> HIDE DEF new
  <2>6. \A e \in Pages' : e \in Pages \/ e = new
    BY <2>4 DEF new
  <2>7. RequestsAreKnown' /\ OneAnswerPerRequest'
    BY <2>2, <2>5, <2>6 DEF RInv, RequestsAreKnown, OneAnswerPerRequest
  <2>8. RequestStaysValid'
    BY <2>2, <2>5, <2>6 DEF RInv, RequestStaysValid
  <2> QED BY <1>1, <2>7, <2>8 DEF RInv
<1>11. ASSUME NEW id \in Ids, CloseSession(id), UNCHANGED httpVars
       PROVE RInv'
  BY <1>2, <1>11 DEF CloseSession
<1>12. ASSUME NEW s \in Services, ServiceDeletesItself(s), UNCHANGED httpVars
       PROVE RInv'
  BY <1>2, <1>12 DEF ServiceDeletesItself
<1>13. CASE UNCHANGED vars
  BY <1>2, <1>13 DEF vars
<1> QED BY <1>3, <1>4, <1>5, <1>6, <1>7, <1>8, <1>9, <1>10, <1>11, <1>12, <1>13
        DEF Next, Browser, Application

\* The HTTP request event handed to a service lives until its page has been
\* processed, however requests, answers and disconnections interleave.
THEOREM RequestsStayValid == Spec => []RequestStaysValid
<1>1. Init => RInv
  BY TypeCorrectInitially DEF Init, RInv, RequestsAreKnown, OneAnswerPerRequest, RequestStaysValid, Pages
<1>2. RInv => RequestStaysValid
  BY DEF RInv
<1> QED BY <1>1, <1>2, RInvStep, PTL DEF Spec

-----------------------------------------------------------------------------
(* No page is forgotten in the queue.                                      *)

CallQueued == \E n \in DOMAIN posted : posted[n] = ProcessEventsCall

LEMMA QueueKeepsCall ==
    ASSUME TypeOK, NEW q \in Seq(PostedEvents), posted' = posted \o q,
           CallQueued \/ \E n \in DOMAIN q : q[n] = ProcessEventsCall
    PROVE  CallQueued'
<1>1. /\ Len(posted) \in Nat /\ DOMAIN posted = 1 .. Len(posted)
      /\ Len(q) \in Nat /\ DOMAIN q = 1 .. Len(q)
      /\ DOMAIN posted' = 1 .. Len(posted) + Len(q)
      /\ \A i \in DOMAIN posted : posted'[i] = posted[i]
      /\ \A i \in DOMAIN q : posted'[Len(posted) + i] = q[i]
  BY LenProperties DEF TypeOK
<1>2. CASE CallQueued
  BY <1>1, <1>2 DEF CallQueued
<1>3. ASSUME NEW n \in DOMAIN q, q[n] = ProcessEventsCall
      PROVE  CallQueued'
  <2>1. Len(posted) + n \in DOMAIN posted'
    BY <1>1
  <2> QED BY <1>1, <1>3, <2>1 DEF CallQueued
<1> QED BY <1>2, <1>3

\* Posting events leaves a call queued if there is a page then.
LEMMA PostKeepsCall ==
    ASSUME TypeOK, PagesAreScheduled, NEW evs \in Seq(Events), PostEvents(evs)
    PROVE  PagesAreScheduled'
<1> DEFINE q == [i \in DOMAIN evs |-> ProcessEventsCall]
<1>1. DOMAIN evs = 1 .. Len(evs) /\ Len(evs) \in Nat
  BY LenProperties
<1>2. q \in Seq(PostedEvents) /\ DOMAIN q = DOMAIN evs
  BY <1>1, IsASeq DEF PostedEvents
<1>3. CASE evs = <<>>
  <2>1. eventQueue' = eventQueue /\ posted' = posted
    BY <1>1, <1>2, <1>3 DEF PostEvents, TypeOK
  <2> QED BY <2>1 DEF PagesAreScheduled, Pages
<1>4. CASE evs # <<>>
  <2>1. 1 \in DOMAIN q /\ q[1] = ProcessEventsCall
    BY <1>1, <1>2, <1>4, EmptySeq
  <2> QED BY <1>2, <2>1, QueueKeepsCall DEF PostEvents, PagesAreScheduled, CallQueued
<1> QED BY <1>3, <1>4

\* The event loop takes another event than a processEvents() call.
LEMMA TailKeepsCall ==
    ASSUME TypeOK, PagesAreScheduled, posted # <<>>, Head(posted) # ProcessEventsCall,
           NEW q \in Seq(PostedEvents), posted' = Tail(posted) \o q, UNCHANGED eventQueue
    PROVE  PagesAreScheduled'
<1>1. /\ Len(posted) \in Nat /\ DOMAIN posted = 1 .. Len(posted) /\ Len(posted) > 0
      /\ Head(posted) = posted[1]
      /\ Tail(posted) \in Seq(PostedEvents)
      /\ Len(Tail(posted)) = Len(posted) - 1
      /\ \A i \in 1 .. Len(posted) - 1 : Tail(posted)[i] = posted[i + 1]
  BY LenProperties, HeadTailProperties, EmptySeq DEF TypeOK
<1>2. /\ Len(q) \in Nat
      /\ DOMAIN posted' = 1 .. Len(posted) - 1 + Len(q)
      /\ \A i \in 1 .. Len(posted) - 1 : posted'[i] = posted[i + 1]
  BY <1>1, LenProperties
<1>3. CallQueued => CallQueued'
  <2> SUFFICES ASSUME NEW n \in DOMAIN posted, posted[n] = ProcessEventsCall PROVE CallQueued'
    BY DEF CallQueued
  <2>1. n # 1 /\ n - 1 \in 1 .. Len(posted) - 1 /\ n - 1 \in DOMAIN posted'
    BY <1>1, <1>2
  <2>2. posted'[n - 1] = posted[n - 1 + 1]
    BY <1>2, <2>1
  <2> QED BY <1>1, <2>1, <2>2 DEF CallQueued
<1> QED BY <1>3 DEF PagesAreScheduled, CallQueued, Pages

LEMMA PagesAreScheduledStep == TypeOK /\ PagesAreScheduled /\ [Next]_vars => PagesAreScheduled'
<1> SUFFICES ASSUME TypeOK, PagesAreScheduled, [Next]_vars PROVE PagesAreScheduled'
  OBVIOUS
<1> USE DEF sessionVars, httpVars
<1>0. TypeOK'
  BY TypeOKStep
<1>1. CASE UNCHANGED <<eventQueue, posted>>
  BY <1>1 DEF PagesAreScheduled, Pages
<1>2. CASE RunDeferredDelete /\ UNCHANGED httpVars
  <2> DEFINE s == Head(posted).arg
             notices == [i \in DOMAIN bound[s] |-> DestroyedNotice(bound[s][i])]
  <2>1. posted # <<>> /\ Head(posted) # ProcessEventsCall /\ Head(posted) \in PostedEvents
    BY <1>2, HeadTailProperties DEF RunDeferredDelete, ProcessEventsCall, TypeOK
  <2>2. s \in Services
    BY <1>2, <2>1 DEF RunDeferredDelete, PostedEvents, DeferredDelete, DestroyedNotice, ProcessEventsCall
  <2>3. DOMAIN bound[s] = 1 .. Len(bound[s]) /\ Len(bound[s]) \in Nat
        /\ \A i \in 1 .. Len(bound[s]) : bound[s][i] \in Ids
    BY <2>2, LenProperties DEF TypeOK
  <2>4. \A i \in DOMAIN bound[s] : DestroyedNotice(bound[s][i]) \in PostedEvents
    BY <2>3 DEF PostedEvents
  <2>5. notices \in Seq(PostedEvents)
    BY <2>3, <2>4, IsASeq
  <2> QED BY <1>2, <2>1, <2>5, TailKeepsCall DEF RunDeferredDelete
<1>3. CASE SessionDestroyed
  <2>1. posted # <<>> /\ Head(posted) # ProcessEventsCall /\ posted' = Tail(posted)
    BY <1>3 DEF SessionDestroyed, DeliverDestroyed, ProcessEventsCall
  <2>2. <<>> \in Seq(PostedEvents) /\ Tail(posted) \o <<>> = Tail(posted)
    BY <2>1, EmptySeq, HeadTailProperties, ConcatProperties DEF TypeOK
  <2> QED BY <1>3, <2>1, <2>2, TailKeepsCall DEF SessionDestroyed
<1>4. CASE ProcessEvents
  <2>1. posted # <<>> /\ Tail(posted) \in Seq(PostedEvents)
    BY <1>4, HeadTailProperties DEF ProcessEvents, TypeOK
  <2>2. CASE Pages = {}
    BY <1>4, <2>2 DEF ProcessEvents, PagesAreScheduled, Pages
  <2>3. ASSUME NEW page \in Pages, SendPage(page)
        PROVE  PagesAreScheduled'
    <3>1. CASE eventQueue' = {}
      BY <3>1 DEF PagesAreScheduled, Pages
    <3>2. CASE posted' = Append(Tail(posted), ProcessEventsCall)
      <4>1. /\ Len(Tail(posted)) + 1 \in DOMAIN posted'
            /\ posted'[Len(Tail(posted)) + 1] = ProcessEventsCall
        BY <2>1, <3>2, LenProperties, AppendProperties DEF PostedEvents
      <4> QED BY <4>1 DEF PagesAreScheduled
    <3> QED BY <2>3, <3>1, <3>2 DEF SendPage
  <2> QED BY <1>4, <2>2, <2>3 DEF ProcessEvents
<1>5. ASSUME NEW d \in Devices, NEW sid \in Ids \cup {0}, NEW service, NEW cookies \in Seq(Events),
             Dispatch(d, sid, service, cookies)
      PROVE  PagesAreScheduled'
  <2>1. NextRequestID \in Rids
    BY <1>5, LenProperties DEF Dispatch, NextRequestID, Rids, TypeOK
  <2>2. Append(cookies, Page(0, NextRequestID)) \in Seq(Events)
    BY <2>1, SingleEvents, AppendProperties
  <2>3. PostEvents(cookies) \/ PostEvents(Append(cookies, Page(0, NextRequestID)))
    BY <1>5 DEF Dispatch
  <2> QED BY <2>2, <2>3, PostKeepsCall
<1>6. CASE Browser
  <2>1. ASSUME NEW d \in Devices, NEW k \in Keys, RequestWithKey(d, k)
        PROVE  PagesAreScheduled'
    <3>1. sessionKeys[k] \in Ids
      BY <2>1 DEF RequestWithKey, TypeOK
    <3> QED BY <1>5, <2>1, <3>1, EmptySeq DEF RequestWithKey
  <2>2. ASSUME NEW d \in Devices, NEW s \in Services \cup {NoService}, NEW k \in Keys,
               RequestCreatesSession(d, s, k)
        PROVE  PagesAreScheduled'
    <3>1. NextID \in Ids /\ <<StoreCookie(NextID, k)>> \in Seq(Events)
      BY <2>2, CreateServiceType, SingleEvents DEF RequestCreatesSession, NewSession
    <3> QED BY <1>5, <2>2, <3>1 DEF RequestCreatesSession
  <2>3. ASSUME NEW d \in Devices, RequestWithoutSession(d)
        PROVE  PagesAreScheduled'
    BY <1>5, <2>3, EmptySeq DEF RequestWithoutSession
  <2>4. ASSUME NEW d \in Devices, Disconnected(d)
        PROVE  PagesAreScheduled'
    BY <1>1, <2>4 DEF Disconnected
  <2> QED BY <1>6, <2>1, <2>2, <2>3, <2>4 DEF Browser
<1>7. CASE Application
  <2>1. ASSUME NEW s \in Services \cup {NoService}, NEW k \in Keys, ApplicationNewSession(s, k)
        PROVE  PagesAreScheduled'
    <3>1. <<StoreCookie(NextID, k)>> \in Seq(Events)
      BY <2>1, CreateServiceType, SingleEvents DEF ApplicationNewSession, NewSession
    <3> QED BY <2>1, <3>1, PostKeepsCall DEF ApplicationNewSession
  <2>2. ASSUME NEW t \in inbox, Respond(t)
        PROVE  PagesAreScheduled'
    <3>1. t.sid \in Ids \cup {0} /\ t.rid \in Rids
      BY DEF TypeOK, Assignments
    <3>2. <<Page(t.sid, t.rid)>> \in Seq(Events)
      BY <3>1, SingleEvents
    <3> QED BY <2>2, <3>2, PostKeepsCall DEF Respond
  <2>3. ASSUME NEW s \in Services, DeleteLater(s), UNCHANGED httpVars
        PROVE  PagesAreScheduled'
    <3>1. CASE posted' = posted
      BY <1>1, <2>3, <3>1
    <3>2. CASE posted' = Append(posted, DeferredDelete(s))
      <4>1. /\ <<DeferredDelete(s)>> \in Seq(PostedEvents)
            /\ posted' = posted \o <<DeferredDelete(s)>>
        BY <3>2 DEF PostedEvents, TypeOK
      <4>2. CASE CallQueued
        <5>1. CallQueued'
          BY <4>1, <4>2, QueueKeepsCall
        <5> QED BY <5>1 DEF PagesAreScheduled, CallQueued
      <4>3. CASE Pages = {}
        BY <2>3, <4>3 DEF PagesAreScheduled, Pages
      <4> QED BY <4>2, <4>3 DEF PagesAreScheduled, CallQueued
    <3> QED BY <2>3, <3>1, <3>2 DEF DeleteLater
  <2>4. ASSUME NEW id \in Ids, CloseSession(id), UNCHANGED httpVars
        PROVE  PagesAreScheduled'
    BY <1>1, <2>3, <2>4 DEF CloseSession
  <2>5. ASSUME NEW s \in Services, ServiceDeletesItself(s), UNCHANGED httpVars
        PROVE  PagesAreScheduled'
    BY <2>3, <2>5 DEF ServiceDeletesItself
  <2> QED BY <1>7, <2>1, <2>2, <2>4, <2>5 DEF Application
<1>8. CASE UNCHANGED vars
  BY <1>1, <1>8 DEF vars
<1>9. ASSUME NEW d \in Devices, DeleteDevice(d)
      PROVE  PagesAreScheduled'
  BY <1>1, <1>9 DEF DeleteDevice
<1> QED BY <1>2, <1>3, <1>4, <1>6, <1>7, <1>8, <1>9 DEF Next, EventLoop

\* Whenever a page waits in the event queue, processEvents() is still to be
\* called: no interleaving of posts and handled events loses the last call.
THEOREM PagesStayScheduled == Spec => []PagesAreScheduled
<1>1. Init => TypeOK /\ PagesAreScheduled
  BY TypeCorrectInitially DEF Init, PagesAreScheduled, Pages
<1>2. TypeOK /\ PagesAreScheduled /\ [Next]_vars => TypeOK' /\ PagesAreScheduled'
  BY TypeOKStep, PagesAreScheduledStep
<1> QED BY <1>1, <1>2, PTL DEF Spec

-----------------------------------------------------------------------------
(***************************************************************************)
(* The pool of session IDs.                                                *)
(*                                                                         *)
(* FreeIdsAreUnused, NoticeHitsOwnSession and OneKeyPerSession are not     *)
(* inductive: that a freed ID cannot be freed again depends on who may     *)
(* still free it.  IInv says so: the right to free an ID is held once, by  *)
(* the destroyed() connection of one service that is not dead, or by one   *)
(* queued notice; an ID on the free list has neither.                      *)
(***************************************************************************)
Posted(e) == \E n \in DOMAIN posted : posted[n] = e
Noticed(id) == Posted(DestroyedNotice(id))
BoundAt(s, n, id) == object[s] # "dead" /\ n \in DOMAIN bound[s] /\ bound[s][n] = id

\* A live service's connection is to a session of its own, or to one that
\* closeSession() already removed; no notice for that ID is queued.
ConnectionsAreOwn ==
    \A s \in Services, id \in Ids : \A n \in DOMAIN bound[s] :
        BoundAt(s, n, id) => /\ id < maxID
                             /\ sessions[id] \in {s, Absent}
                             /\ ~Noticed(id)

\* An ID is connected to at most one live service, once.
ConnectionsAreUnique ==
    \A s, t \in Services, id \in Ids : \A m \in DOMAIN bound[s], n \in DOMAIN bound[t] :
        BoundAt(s, m, id) /\ BoundAt(t, n, id) => s = t /\ m = n

\* A deferred delete is queued for doomed services only.
DeletesAreDue ==
    \A s \in Services : Posted(DeferredDelete(s)) => object[s] = "doomed"

\* No deferred delete and no notice is queued twice.
EventsAreUnique ==
    \A m, n \in DOMAIN posted :
        posted[m] = posted[n] /\ posted[m] # ProcessEventsCall => m = n

\* A notice names an ID that was allocated; so does an entry of the table.
OnlyAllocatedIds ==
    \A id \in Ids : Noticed(id) \/ sessions[id] # Absent => id < maxID

\* The ID of a key in the table was allocated and is not free.
KeysAreNotFree ==
    \A k \in Keys : sessionKeys[k] # 0 =>
        /\ sessionKeys[k] < maxID
        /\ \A i \in DOMAIN freeList : freeList[i] # sessionKeys[k]

IInv ==
    /\ TypeOK
    /\ FreeIdsAreUnused
    /\ NoticeHitsOwnSession
    /\ ConnectionsAreOwn
    /\ ConnectionsAreUnique
    /\ DeletesAreDue
    /\ EventsAreUnique
    /\ OnlyAllocatedIds
    /\ KeysAreNotFree
    /\ OneKeyPerSession

-----------------------------------------------------------------------------
(* Facts about the event queue.                                            *)

\* A step after which every queued event but processEvents() calls was queued
\* before it, and none is there twice.
PostsNothingElse ==
    /\ \A e \in PostedEvents \ {ProcessEventsCall} : Posted(e)' => Posted(e)
    /\ EventsAreUnique => EventsAreUnique'

LEMMA EventsDiffer ==
    /\ \A s \in Services, i \in Ids : DeferredDelete(s) # DestroyedNotice(i)
    /\ \A s, t \in Services : DeferredDelete(s) = DeferredDelete(t) => s = t
    /\ \A i, j \in Ids : DestroyedNotice(i) = DestroyedNotice(j) => i = j
    /\ \A s \in Services : DeferredDelete(s) \in PostedEvents \ {ProcessEventsCall}
    /\ \A i \in Ids : DestroyedNotice(i) \in PostedEvents \ {ProcessEventsCall}
  BY DEF DeferredDelete, DestroyedNotice, ProcessEventsCall, PostedEvents

LEMMA AppendedCalls ==
    ASSUME TypeOK, NEW q \in Seq({ProcessEventsCall}), posted' = posted \o q
    PROVE  PostsNothingElse
<1>1. /\ Len(posted) \in Nat /\ DOMAIN posted = 1 .. Len(posted)
      /\ Len(q) \in Nat /\ DOMAIN q = 1 .. Len(q)
      /\ \A i \in DOMAIN q : q[i] = ProcessEventsCall
  BY LenProperties DEF TypeOK
<1>2. /\ DOMAIN posted' = 1 .. Len(posted) + Len(q)
      /\ \A i \in 1 .. Len(posted) + Len(q) :
            posted'[i] = IF i <= Len(posted) THEN posted[i] ELSE q[i - Len(posted)]
  BY <1>1 DEF TypeOK
<1>3. \A i \in DOMAIN posted' : posted'[i] # ProcessEventsCall =>
          i \in DOMAIN posted /\ posted'[i] = posted[i]
  BY <1>1, <1>2
<1> QED BY <1>3 DEF PostsNothingElse, Posted, EventsAreUnique

\* The events of the queue's tail were in the queue, and but for
\* processEvents() calls the head is not among them.
LEMMA TailEvents ==
    ASSUME TypeOK, posted # <<>>
    PROVE  /\ Tail(posted) \in Seq(PostedEvents)
           /\ Head(posted) = posted[1] /\ 1 \in DOMAIN posted
           /\ Len(Tail(posted)) \in Nat /\ DOMAIN Tail(posted) = 1 .. Len(Tail(posted))
           /\ \A i \in DOMAIN Tail(posted) :
                 i + 1 \in DOMAIN posted /\ i + 1 # 1 /\ Tail(posted)[i] = posted[i + 1]
<1>1. Tail(posted) \in Seq(PostedEvents) /\ Len(Tail(posted)) = Len(posted) - 1
  BY HeadTailProperties DEF TypeOK
<1>2. Len(posted) \in Nat /\ DOMAIN posted = 1 .. Len(posted) /\ Len(posted) > 0
  BY LenProperties, EmptySeq DEF TypeOK
<1>3. Head(posted) = posted[1]
  OBVIOUS
<1>4. \A i \in 1 .. Len(posted) - 1 : Tail(posted)[i] = posted[i + 1]
  BY <1>2 DEF TypeOK
<1> QED BY <1>1, <1>2, <1>3, <1>4

LEMMA DroppedCall ==
    ASSUME TypeOK, posted # <<>>,
           \/ posted' = Tail(posted)
           \/ posted' = Append(Tail(posted), ProcessEventsCall)
    PROVE  PostsNothingElse
<1>1. \A i \in DOMAIN posted' : posted'[i] # ProcessEventsCall =>
          i + 1 \in DOMAIN posted /\ posted'[i] = posted[i + 1]
  <2>1. CASE posted' = Tail(posted)
    BY <2>1, TailEvents
  <2>2. CASE posted' = Append(Tail(posted), ProcessEventsCall)
    <3>1. /\ DOMAIN posted' = 1 .. Len(Tail(posted)) + 1
          /\ \A i \in 1 .. Len(Tail(posted)) : posted'[i] = Tail(posted)[i]
          /\ posted'[Len(Tail(posted)) + 1] = ProcessEventsCall
      BY <2>2, TailEvents, AppendProperties
    <3> QED BY <3>1, TailEvents
  <2> QED BY <2>1, <2>2
<1>2. \A i \in DOMAIN posted' : i \in Int
  BY TailEvents, AppendProperties
<1> QED BY <1>1, <1>2 DEF PostsNothingElse, Posted, EventsAreUnique

-----------------------------------------------------------------------------
(* The steps that change the tables.                                       *)

\* Steps that allocate, free and bind no ID; an entry may leave the table.
LEMMA QuietStep ==
    ASSUME IInv, TypeOK',
           UNCHANGED <<freeList, maxID, bound, sessionKeys>>,
           \A id \in Ids : sessions'[id] \in {sessions[id], Absent},
           \A s \in Services : object'[s] = "dead" <=> object[s] = "dead",
           \A id \in Ids : Noticed(id)' => Noticed(id),
           DeletesAreDue', EventsAreUnique'
    PROVE  IInv'
<1>1. \A s \in Services, id \in Ids : \A n \in DOMAIN bound[s] : BoundAt(s, n, id)' <=> BoundAt(s, n, id)
  BY DEF BoundAt
<1>2. FreeIdsAreUnused'
  <2> SUFFICES ASSUME NEW i \in DOMAIN freeList, NEW id \in Ids, freeList[i] = id
               PROVE  /\ id < maxID /\ sessions'[id] = Absent /\ ~Noticed(id)'
                      /\ \A s \in Services : \A n \in DOMAIN bound[s] : ~BoundAt(s, n, id)'
                      /\ \A j \in DOMAIN freeList : freeList[j] = id => i = j
    <3>1. \A i \in DOMAIN freeList : freeList[i] \in Ids
      BY LenProperties DEF IInv, TypeOK
    <3> QED BY <3>1 DEF FreeIdsAreUnused, Noticed, Posted, BoundAt
  <2>1. /\ id < maxID /\ sessions[id] = Absent /\ ~Noticed(id)
        /\ \A s \in Services : \A n \in DOMAIN bound[s] : ~BoundAt(s, n, id)
        /\ \A j \in DOMAIN freeList : freeList[j] = id => i = j
    BY DEF FreeIdsAreUnused, IInv, Noticed, Posted, BoundAt
  <2> QED BY <1>1, <2>1
<1>3. NoticeHitsOwnSession'
  <2> SUFFICES ASSUME NEW n \in DOMAIN posted', NEW id \in Ids,
                      posted'[n] = DestroyedNotice(id), sessions'[id] # Absent
               PROVE  sessions'[id] \in Services /\ object'[sessions'[id]] = "dead"
    BY DEF NoticeHitsOwnSession
  <2>1. Noticed(id)
    BY DEF Noticed, Posted
  <2>2. PICK m \in DOMAIN posted : posted[m] = DestroyedNotice(id)
    BY <2>1 DEF Noticed, Posted
  <2> QED BY <2>2 DEF NoticeHitsOwnSession, IInv
<1>4. ConnectionsAreOwn'
  BY <1>1 DEF ConnectionsAreOwn, IInv, TypeOK
<1>5. ConnectionsAreUnique'
  BY <1>1 DEF ConnectionsAreUnique, IInv, TypeOK
<1>6. OnlyAllocatedIds'
  BY DEF OnlyAllocatedIds, IInv, TypeOK
<1>7. KeysAreNotFree' /\ OneKeyPerSession'
  BY DEF KeysAreNotFree, OneKeyPerSession, IInv, TypeOK
<1> QED BY <1>2, <1>3, <1>4, <1>5, <1>6, <1>7 DEF IInv

\* The same, for steps after which PostsNothingElse.
LEMMA QuietPostStep ==
    ASSUME IInv, TypeOK', PostsNothingElse,
           UNCHANGED <<sessions, freeList, maxID, bound, object, sessionKeys>>
    PROVE  IInv'
<1>1. \A id \in Ids : Noticed(id)' => Noticed(id)
  BY EventsDiffer DEF PostsNothingElse, Noticed, Posted
<1>2. DeletesAreDue' /\ EventsAreUnique'
  BY EventsDiffer DEF PostsNothingElse, DeletesAreDue, IInv, Posted
<1> QED BY <1>1, <1>2, QuietStep DEF IInv, TypeOK

\* deleteLater() of a service that is not dead.
LEMMA DeleteLaterStep ==
    ASSUME IInv, TypeOK', NEW s \in Services, object[s] # "dead", DeleteLater(s),
           UNCHANGED <<freeList, maxID, bound, sessionKeys>>,
           \A id \in Ids : sessions'[id] \in {sessions[id], Absent}
    PROVE  IInv'
<1>1. \A t \in Services : object'[t] = IF t = s THEN "doomed" ELSE object[t]
  BY DEF DeleteLater, IInv, TypeOK
<1>2. CASE posted' = posted
  BY <1>1, <1>2, QuietStep DEF IInv, DeletesAreDue, EventsAreUnique, Noticed, Posted
<1>3. CASE object[s] = "alive" /\ posted' = Append(posted, DeferredDelete(s))
  <2>1. /\ Len(posted) \in Nat /\ DOMAIN posted = 1 .. Len(posted)
        /\ DOMAIN posted' = 1 .. Len(posted) + 1
        /\ \A i \in 1 .. Len(posted) : posted'[i] = posted[i]
        /\ posted'[Len(posted) + 1] = DeferredDelete(s)
    BY <1>3, LenProperties, AppendProperties, EventsDiffer DEF IInv, TypeOK
  <2>2. ~Posted(DeferredDelete(s))
    BY <1>3 DEF IInv, DeletesAreDue
  <2>3. \A id \in Ids : Noticed(id)' => Noticed(id)
    BY <2>1, EventsDiffer DEF Noticed, Posted
  <2>4. DeletesAreDue'
    <3> SUFFICES ASSUME NEW t \in Services, Posted(DeferredDelete(t))'
                 PROVE  object'[t] = "doomed"
      BY DEF DeletesAreDue
    <3>1. CASE t = s
      BY <3>1, <1>1
    <3>2. CASE t # s
      <4>1. Posted(DeferredDelete(t))
        BY <2>1, <3>2, EventsDiffer DEF Posted
      <4> QED BY <4>1, <3>2, <1>1 DEF DeletesAreDue, IInv
    <3> QED BY <3>1, <3>2
  <2>5. EventsAreUnique'
    BY <2>1, <2>2 DEF EventsAreUnique, IInv, Posted
  <2> QED BY <1>1, <2>3, <2>4, <2>5, QuietStep
<1> QED BY <1>2, <1>3 DEF DeleteLater

\* getNextID() hands out an ID nobody else has a claim to.
LEMMA NextIDIsUnclaimed ==
    ASSUME IInv, GetNextID
    PROVE  /\ NextID \in Ids
           /\ sessions[NextID] = Absent
           /\ ~Noticed(NextID)
           /\ \A s \in Services : \A n \in DOMAIN bound[s] : ~BoundAt(s, n, NextID)
           /\ \A k \in Keys : sessionKeys[k] # NextID
           /\ maxID <= maxID' /\ maxID' \in Nat /\ NextID < maxID'
           /\ \A i \in DOMAIN freeList' : freeList'[i] # NextID
           /\ \A i, j \in DOMAIN freeList' : freeList'[i] = freeList'[j] => i = j
           /\ \A i \in DOMAIN freeList' : \E j \in DOMAIN freeList : freeList'[i] = freeList[j]
<1>1. CASE freeList = <<>>
  <2>1. NextID = maxID /\ maxID' = maxID + 1 /\ freeList' = <<>> /\ maxID \in Ids
    BY <1>1 DEF GetNextID, CanAllocate, NextID, IInv, TypeOK, Ids
  <2>2. DOMAIN freeList' = {}
    BY <2>1
  <2>3. maxID \in Nat
    BY DEF IInv, TypeOK
  <2> QED BY <2>1, <2>2, <2>3 DEF IInv, OnlyAllocatedIds, ConnectionsAreOwn, KeysAreNotFree, Ids
<1>2. CASE freeList # <<>>
  <2>1. NextID = Head(freeList) /\ maxID' = maxID /\ freeList' = Tail(freeList)
    BY <1>2 DEF GetNextID, NextID
  <2>2. /\ Len(freeList) \in Nat /\ DOMAIN freeList = 1 .. Len(freeList) /\ Len(freeList) > 0
        /\ Head(freeList) = freeList[1] /\ freeList[1] \in Ids
        /\ DOMAIN Tail(freeList) = 1 .. Len(freeList) - 1
        /\ \A i \in 1 .. Len(freeList) - 1 : Tail(freeList)[i] = freeList[i + 1]
    BY <1>2, LenProperties, HeadTailProperties, EmptySeq DEF IInv, TypeOK
  <2>3. \A i \in DOMAIN freeList' : i \in Nat /\ i + 1 \in DOMAIN freeList /\ freeList'[i] = freeList[i + 1]
    BY <2>1, <2>2
  <2>4. FreeIdsAreUnused
    BY DEF IInv
  <2>5. \A i \in DOMAIN freeList' : freeList'[i] # NextID
    BY <2>1, <2>2, <2>3, <2>4 DEF FreeIdsAreUnused
  <2>6. \A i, j \in DOMAIN freeList' : freeList'[i] = freeList'[j] => i = j
    BY <2>2, <2>3, <2>4 DEF FreeIdsAreUnused
  <2>7. sessions[NextID] = Absent /\ ~Noticed(NextID) /\ NextID < maxID
    BY <2>1, <2>2, <2>4 DEF FreeIdsAreUnused, Noticed, Posted
  <2>8. \A s \in Services : \A n \in DOMAIN bound[s] : ~BoundAt(s, n, NextID)
    BY <2>1, <2>2, <2>4 DEF FreeIdsAreUnused, BoundAt
  <2>9. \A k \in Keys : sessionKeys[k] # NextID
    BY <2>1, <2>2 DEF IInv, KeysAreNotFree, Ids
  <2> QED BY <2>1, <2>2, <2>3, <2>5, <2>6, <2>7, <2>8, <2>9 DEF IInv, TypeOK
<1> QED BY <1>1, <1>2

\* newSession(): createService() and the key of the new session.
LEMMA NewSessionStep ==
    ASSUME IInv, TypeOK', PostsNothingElse,
           NEW s \in Services \cup {NoService}, NEW k \in Keys, CreateService(s),
           sessionKeys' = [sessionKeys EXCEPT ![k] = NextID]
    PROVE  IInv'
<1> DEFINE new == NextID
<1>1. GetNextID
  BY DEF CreateService
<1>2. /\ new \in Ids /\ sessions[new] = Absent /\ ~Noticed(new)
      /\ \A t \in Services : \A n \in DOMAIN bound[t] : ~BoundAt(t, n, new)
      /\ \A l \in Keys : sessionKeys[l] # new
      /\ maxID <= maxID' /\ maxID' \in Nat /\ new < maxID'
      /\ \A i \in DOMAIN freeList' : freeList'[i] # new
      /\ \A i, j \in DOMAIN freeList' : freeList'[i] = freeList'[j] => i = j
      /\ \A i \in DOMAIN freeList' : \E j \in DOMAIN freeList : freeList'[i] = freeList[j]
  BY <1>1, NextIDIsUnclaimed
<1>3. /\ maxID \in Nat
      /\ \A i \in Ids : sessions'[i] = IF i = new THEN s ELSE sessions[i]
      /\ \A l \in Keys : sessionKeys'[l] = IF l = k THEN new ELSE sessionKeys[l]
  BY DEF CreateService, IInv, TypeOK
<1>4. /\ \A id \in Ids : Noticed(id)' => Noticed(id)
      /\ \A t \in Services : Posted(DeferredDelete(t))' => Posted(DeferredDelete(t))
      /\ EventsAreUnique'
  BY EventsDiffer DEF PostsNothingElse, Noticed, Posted, IInv
<1>5. \A t \in Services : /\ object'[t] = "dead" <=> object[t] = "dead"
                          /\ object[t] = "doomed" => object'[t] = "doomed"
  <2>1. CASE s = NoService
    BY <2>1 DEF CreateService
  <2>2. CASE s \in Services
    BY <2>2 DEF CreateService, IInv, TypeOK
  <2> QED BY <2>1, <2>2
\* Every connection after the step was there before or is the new one.
<1>6. \A t \in Services, id \in Ids : \A n \in DOMAIN bound'[t] : BoundAt(t, n, id)' =>
          \/ n \in DOMAIN bound[t] /\ BoundAt(t, n, id)
          \/ s = t /\ id = new /\ n = Len(bound[s]) + 1
  <2>1. CASE s = NoService
    BY <2>1 DEF CreateService, BoundAt
  <2>2. CASE s \in Services
    <3>1. bound[s] \in Seq(Ids) /\ bound' = [bound EXCEPT ![s] = Append(bound[s], new)]
      BY <2>2, WebSessionsAssumption DEF CreateService, IInv, TypeOK
    <3>2. /\ Len(bound[s]) \in Nat /\ DOMAIN bound[s] = 1 .. Len(bound[s])
          /\ DOMAIN Append(bound[s], new) = 1 .. Len(bound[s]) + 1
          /\ \A n \in 1 .. Len(bound[s]) : Append(bound[s], new)[n] = bound[s][n]
          /\ Append(bound[s], new)[Len(bound[s]) + 1] = new
      BY <1>2, <3>1, LenProperties, AppendProperties
    <3>3. \A t \in Services : bound'[t] = IF t = s THEN Append(bound[s], new) ELSE bound[t]
      BY <2>2, <3>1 DEF IInv, TypeOK
    <3> SUFFICES ASSUME NEW t \in Services, NEW id \in Ids, NEW n \in DOMAIN bound'[t],
                        BoundAt(t, n, id)'
                 PROVE  \/ n \in DOMAIN bound[t] /\ BoundAt(t, n, id)
                        \/ s = t /\ id = new /\ n = Len(bound[s]) + 1
      OBVIOUS
    <3>4. object[t] # "dead" /\ bound'[t][n] = id
      BY <1>5 DEF BoundAt
    <3>5. CASE t # s
      BY <3>3, <3>4, <3>5 DEF BoundAt
    <3>6. CASE t = s
      <4>1. bound'[t] = Append(bound[s], new)
        BY <3>3, <3>6
      <4>2. n \in 1 .. Len(bound[s]) + 1 /\ Append(bound[s], new)[n] = id
        BY <3>2, <3>4, <4>1
      <4>3. CASE n = Len(bound[s]) + 1
        BY <3>2, <3>6, <4>2, <4>3
      <4>4. CASE n \in 1 .. Len(bound[s])
        BY <3>2, <3>4, <3>6, <4>2, <4>4 DEF BoundAt
      <4> QED BY <3>2, <4>2, <4>3, <4>4
    <3> QED BY <3>5, <3>6
  <2> QED BY <2>1, <2>2
<1>7. FreeIdsAreUnused'
  <2> SUFFICES ASSUME NEW i \in DOMAIN freeList', NEW id \in Ids, freeList'[i] = id
               PROVE  /\ id < maxID'
                      /\ sessions'[id] = Absent
                      /\ ~Noticed(id)'
                      /\ \A t \in Services : \A n \in DOMAIN bound'[t] : ~BoundAt(t, n, id)'
    <3>1. \A i \in DOMAIN freeList' : freeList'[i] \in Ids
      BY LenProperties DEF TypeOK
    <3> QED BY <1>2, <3>1 DEF FreeIdsAreUnused, Noticed, Posted, BoundAt
  <2>1. PICK j \in DOMAIN freeList : freeList[j] = id
    BY <1>2
  <2>2. id # new
    BY <1>2
  <2>3. /\ id < maxID /\ sessions[id] = Absent /\ ~Noticed(id)
        /\ \A t \in Services : \A n \in DOMAIN bound[t] : ~BoundAt(t, n, id)
    BY <2>1 DEF IInv, FreeIdsAreUnused, Noticed, Posted, BoundAt
  <2>4. id < maxID' /\ sessions'[id] = Absent
    BY <1>2, <1>3, <2>2, <2>3 DEF Ids
  <2>5. ~Noticed(id)'
    BY <1>4, <2>3
  <2>6. \A t \in Services : \A n \in DOMAIN bound'[t] : ~BoundAt(t, n, id)'
    BY <1>6, <2>2, <2>3
  <2> QED BY <2>4, <2>5, <2>6
<1>8. NoticeHitsOwnSession'
  BY <1>2, <1>3, <1>4, <1>5 DEF NoticeHitsOwnSession, IInv, Noticed, Posted
<1>9. ConnectionsAreOwn'
  <2> SUFFICES ASSUME NEW t \in Services, NEW id \in Ids, NEW n \in DOMAIN bound'[t], BoundAt(t, n, id)'
               PROVE  id < maxID' /\ sessions'[id] \in {t, Absent} /\ ~Noticed(id)'
    BY DEF ConnectionsAreOwn
  <2>1. CASE n \in DOMAIN bound[t] /\ BoundAt(t, n, id)
    <3>1. id # new
      BY <1>2, <2>1
    <3> QED BY <1>2, <1>3, <1>4, <2>1, <3>1 DEF IInv, ConnectionsAreOwn, Ids
  <2>2. CASE s = t /\ id = new
    BY <1>2, <1>3, <1>4, <2>2
  <2> QED BY <1>6, <2>1, <2>2
<1>10. ConnectionsAreUnique'
  <2> SUFFICES ASSUME NEW t \in Services, NEW u \in Services, NEW id \in Ids,
                      NEW m \in DOMAIN bound'[t], NEW n \in DOMAIN bound'[u],
                      BoundAt(t, m, id)', BoundAt(u, n, id)'
               PROVE  t = u /\ m = n
    BY DEF ConnectionsAreUnique
  <2>1. CASE id = new
    BY <1>2, <1>6, <2>1
  <2>2. CASE id # new
    BY <1>6, <2>2 DEF IInv, ConnectionsAreUnique
  <2> QED BY <2>1, <2>2
<1>11. DeletesAreDue'
  BY <1>4, <1>5 DEF DeletesAreDue, IInv
<1>12. OnlyAllocatedIds'
  BY <1>2, <1>3, <1>4 DEF OnlyAllocatedIds, IInv, Ids
<1>13. OneKeyPerSession'
  BY <1>2, <1>3 DEF OneKeyPerSession, IInv
<1>14. KeysAreNotFree'
  <2> SUFFICES ASSUME NEW l \in Keys, sessionKeys'[l] # 0
               PROVE  /\ sessionKeys'[l] < maxID'
                      /\ \A i \in DOMAIN freeList' : freeList'[i] # sessionKeys'[l]
    BY DEF KeysAreNotFree
  <2>1. CASE l = k
    BY <1>2, <1>3, <2>1
  <2>2. CASE l # k
    <3>1. /\ sessionKeys[l] < maxID /\ sessionKeys[l] \in Nat
          /\ \A i \in DOMAIN freeList : freeList[i] # sessionKeys[l]
      <4>1. sessionKeys'[l] = sessionKeys[l]
        BY <1>3, <2>2
      <4>2. sessionKeys \in [Keys -> {0} \cup Ids]
        BY DEF IInv, TypeOK
      <4>3. sessionKeys[l] \in Nat
        BY <4>2 DEF Ids
      <4> QED BY <4>1, <4>3 DEF IInv, KeysAreNotFree
    <3> QED BY <1>2, <1>3, <2>2, <3>1
  <2> QED BY <2>1, <2>2
<1> QED BY <1>4, <1>7, <1>8, <1>9, <1>10, <1>11, <1>12, <1>13, <1>14 DEF IInv

\* The event loop runs a deferred delete.
LEMMA DeferredDeleteStep ==
    ASSUME IInv, TypeOK', RunDeferredDelete, UNCHANGED sessionKeys
    PROVE  IInv'
<1> DEFINE s == Head(posted).arg
           rest == Tail(posted)
           notices == [i \in DOMAIN bound[s] |-> DestroyedNotice(bound[s][i])]
<1>1. /\ rest \in Seq(PostedEvents)
      /\ Head(posted) = posted[1] /\ 1 \in DOMAIN posted
      /\ Len(rest) \in Nat /\ DOMAIN rest = 1 .. Len(rest)
      /\ \A i \in DOMAIN rest : i + 1 \in DOMAIN posted /\ i + 1 # 1 /\ rest[i] = posted[i + 1]
  BY TailEvents DEF RunDeferredDelete, IInv
<1>2. s \in Services /\ Head(posted) = DeferredDelete(s)
  <2>1. Head(posted) \in PostedEvents /\ Head(posted).op = "delete"
    BY HeadTailProperties DEF RunDeferredDelete, IInv, TypeOK
  <2> QED BY <2>1 DEF PostedEvents, DeferredDelete, DestroyedNotice, ProcessEventsCall
<1>3. object[s] = "doomed"
  BY <1>1, <1>2 DEF IInv, DeletesAreDue, Posted
<1>4. /\ Len(bound[s]) \in Nat /\ DOMAIN bound[s] = 1 .. Len(bound[s])
      /\ \A i \in DOMAIN bound[s] : bound[s][i] \in Ids /\ BoundAt(s, i, bound[s][i])
  BY <1>2, <1>3, LenProperties DEF IInv, TypeOK, BoundAt
<1>5. /\ notices \in Seq(PostedEvents) /\ Len(notices) = Len(bound[s])
      /\ \A i \in DOMAIN bound[s] : notices[i] = DestroyedNotice(bound[s][i])
  BY <1>4, IsASeq, LenProperties, EventsDiffer
<1>6. /\ posted' = rest \o notices
      /\ DOMAIN posted' = 1 .. Len(rest) + Len(bound[s])
      /\ \A i \in DOMAIN rest : posted'[i] = rest[i]
      /\ \A i \in 1 .. Len(rest) + Len(bound[s]) : i \notin DOMAIN rest =>
            /\ i - Len(rest) \in DOMAIN bound[s]
            /\ posted'[i] = DestroyedNotice(bound[s][i - Len(rest)])
  BY <1>1, <1>4, <1>5 DEF RunDeferredDelete
<1>7. \A t \in Services : object'[t] = IF t = s THEN "dead" ELSE object[t]
  BY <1>2 DEF RunDeferredDelete, IInv, TypeOK
<1>8. UNCHANGED <<sessions, freeList, maxID, bound>>
  BY DEF RunDeferredDelete
\* A queued notice was queued before, or is for a connection of the service.
<1>9. \A id \in Ids : Noticed(id)' => Noticed(id) \/ \E n \in DOMAIN bound[s] : bound[s][n] = id
  <2> SUFFICES ASSUME NEW id \in Ids, NEW i \in DOMAIN posted', posted'[i] = DestroyedNotice(id)
               PROVE  Noticed(id) \/ \E n \in DOMAIN bound[s] : bound[s][n] = id
    BY DEF Noticed, Posted
  <2>1. CASE i \in DOMAIN rest
    BY <1>1, <1>6, <2>1 DEF Noticed, Posted
  <2>2. CASE i \notin DOMAIN rest
    BY <1>4, <1>6, <2>2, EventsDiffer, SMTT(30)
  <2> QED BY <2>1, <2>2
<1>10. \A t \in Services, id \in Ids : \A n \in DOMAIN bound[t] :
           BoundAt(t, n, id)' => t # s /\ BoundAt(t, n, id)
  BY <1>7, <1>8 DEF BoundAt
<1>11. ConnectionsAreOwn /\ ConnectionsAreUnique /\ FreeIdsAreUnused /\ EventsAreUnique /\ DeletesAreDue
  BY DEF IInv
<1>12. FreeIdsAreUnused'
  <2> SUFFICES ASSUME NEW i \in DOMAIN freeList, NEW id \in Ids, freeList[i] = id
               PROVE  ~Noticed(id)' /\ \A t \in Services : \A n \in DOMAIN bound[t] : ~BoundAt(t, n, id)'
    <3>1. \A i \in DOMAIN freeList : freeList[i] \in Ids
      BY LenProperties DEF IInv, TypeOK
    <3> QED BY <1>8, <1>11, <3>1 DEF FreeIdsAreUnused, Noticed, Posted, BoundAt
  <2>1. ~Noticed(id) /\ \A t \in Services : \A n \in DOMAIN bound[t] : ~BoundAt(t, n, id)
    BY <1>11 DEF FreeIdsAreUnused, Noticed, Posted, BoundAt
  <2> QED BY <1>2, <1>4, <1>9, <1>10, <2>1
<1>13. NoticeHitsOwnSession'
  <2> SUFFICES ASSUME NEW id \in Ids, Noticed(id)', sessions[id] # Absent
               PROVE  sessions[id] \in Services /\ object'[sessions[id]] = "dead"
    BY <1>8 DEF NoticeHitsOwnSession, Noticed, Posted
  <2>1. CASE Noticed(id)
    BY <1>7, <2>1 DEF IInv, NoticeHitsOwnSession, Noticed, Posted
  <2>2. ASSUME NEW n \in DOMAIN bound[s], bound[s][n] = id
        PROVE  sessions[id] \in Services /\ object'[sessions[id]] = "dead"
    BY <1>2, <1>4, <1>7, <1>11, <2>2 DEF ConnectionsAreOwn
  <2> QED BY <1>9, <2>1, <2>2
<1>14. ConnectionsAreOwn'
  <2> SUFFICES ASSUME NEW t \in Services, NEW id \in Ids, NEW n \in DOMAIN bound[t], BoundAt(t, n, id)'
               PROVE  id < maxID /\ sessions[id] \in {t, Absent} /\ ~Noticed(id)'
    BY <1>8 DEF ConnectionsAreOwn
  <2>1. t # s /\ BoundAt(t, n, id)
    BY <1>10
  <2>2. id < maxID /\ sessions[id] \in {t, Absent} /\ ~Noticed(id)
    BY <1>11, <2>1 DEF ConnectionsAreOwn
  <2>3. \A m \in DOMAIN bound[s] : bound[s][m] # id
    BY <1>2, <1>4, <1>11, <2>1 DEF ConnectionsAreUnique
  <2> QED BY <1>9, <2>2, <2>3
<1>15. ConnectionsAreUnique'
  BY <1>8, <1>10, <1>11 DEF ConnectionsAreUnique
<1>16. DeletesAreDue'
  <2> SUFFICES ASSUME NEW t \in Services, NEW i \in DOMAIN posted', posted'[i] = DeferredDelete(t)
               PROVE  object'[t] = "doomed"
    BY DEF DeletesAreDue, Posted
  <2>1. i \in DOMAIN rest
    BY <1>4, <1>6, EventsDiffer, SMTT(30)
  <2>2. i + 1 \in DOMAIN posted /\ posted[i + 1] = DeferredDelete(t) /\ i + 1 # 1
    BY <1>1, <1>6, <2>1
  <2>3. t # s
    BY <1>1, <1>2, <1>11, <2>2, EventsDiffer DEF EventsAreUnique
  <2> QED BY <1>7, <1>11, <2>2, <2>3 DEF DeletesAreDue, Posted
<1>17. EventsAreUnique'
  <2> SUFFICES ASSUME NEW i \in DOMAIN posted', NEW j \in DOMAIN posted', posted'[i] = posted'[j],
                      posted'[i] # ProcessEventsCall
               PROVE  i = j
    BY DEF EventsAreUnique
  <2>1. CASE i \in DOMAIN rest /\ j \in DOMAIN rest
    <3>1. i + 1 = j + 1
      BY <1>1, <1>6, <1>11, <2>1 DEF EventsAreUnique
    <3> QED BY <1>1, <2>1, <3>1
  <2>2. CASE i \notin DOMAIN rest /\ j \notin DOMAIN rest
    <3> DEFINE m == i - Len(rest)
               n == j - Len(rest)
    <3>1. /\ m \in DOMAIN bound[s] /\ posted'[i] = DestroyedNotice(bound[s][m])
          /\ n \in DOMAIN bound[s] /\ posted'[j] = DestroyedNotice(bound[s][n])
      BY <1>6, <2>2
    <3>2. DestroyedNotice(bound[s][m]) = DestroyedNotice(bound[s][n])
      BY <3>1
    <3>3. m \in DOMAIN bound[s] /\ n \in DOMAIN bound[s] /\ bound[s][m] = bound[s][n]
      BY <1>4, <3>1, <3>2, EventsDiffer
    <3>4. m = n
      BY <1>2, <1>4, <1>11, <3>3 DEF ConnectionsAreUnique
    <3> QED BY <1>1, <1>6, <3>4
  \* A notice both old and new: its ID was bound to the service and noticed.
  <2>3. ASSUME NEW a \in DOMAIN rest, NEW b \in DOMAIN posted' \ DOMAIN rest,
               posted'[a] = posted'[b]
        PROVE  FALSE
    <3>1. PICK n \in DOMAIN bound[s] : posted'[b] = DestroyedNotice(bound[s][n])
      BY <1>6, <2>3
    <3>2. Noticed(bound[s][n])
      BY <1>1, <1>6, <2>3, <3>1 DEF Noticed, Posted
    <3> QED BY <1>2, <1>4, <1>11, <3>2 DEF ConnectionsAreOwn
  <2> QED BY <2>1, <2>2, <2>3
<1>18. OnlyAllocatedIds'
  <2> SUFFICES ASSUME NEW id \in Ids, Noticed(id)' PROVE id < maxID
    BY <1>8 DEF OnlyAllocatedIds, IInv
  <2> QED BY <1>2, <1>4, <1>9, <1>11 DEF OnlyAllocatedIds, ConnectionsAreOwn, IInv
<1>19. KeysAreNotFree' /\ OneKeyPerSession'
  BY <1>8 DEF KeysAreNotFree, OneKeyPerSession, IInv
<1> QED BY <1>12, <1>13, <1>14, <1>15, <1>16, <1>17, <1>18, <1>19 DEF IInv

\* The event loop delivers a sessionDestroyed(id).
LEMMA DestroyedStep ==
    ASSUME IInv, TypeOK', SessionDestroyed
    PROVE  IInv'
<1> DEFINE rest == Tail(posted)
<1>1. /\ posted' = rest /\ UNCHANGED <<maxID, object, bound>>
      /\ Head(posted) = posted[1] /\ 1 \in DOMAIN posted
      /\ \A i \in DOMAIN rest : /\ i \in Nat /\ i + 1 \in DOMAIN posted /\ i + 1 # 1
                                /\ rest[i] = posted[i + 1]
  BY TailEvents DEF SessionDestroyed, DeliverDestroyed, IInv
<1>2. PICK id \in Ids : Head(posted) = DestroyedNotice(id)
  <2>1. Head(posted) \in PostedEvents /\ Head(posted).op = "destroyed"
    BY HeadTailProperties DEF SessionDestroyed, DeliverDestroyed, IInv, TypeOK
  <2> QED BY <2>1 DEF PostedEvents, DeferredDelete, DestroyedNotice, ProcessEventsCall
<1>3. Head(posted).arg = id
  BY <1>2 DEF DestroyedNotice
<1>4. /\ FreeIdsAreUnused /\ NoticeHitsOwnSession /\ ConnectionsAreOwn /\ ConnectionsAreUnique
      /\ DeletesAreDue /\ EventsAreUnique /\ OnlyAllocatedIds /\ KeysAreNotFree /\ OneKeyPerSession
  BY DEF IInv
<1>5. Noticed(id) /\ ~Noticed(id)' /\ \A x \in Ids : Noticed(x)' => Noticed(x)
  <2>1. \A i \in DOMAIN posted' : posted'[i] # DestroyedNotice(id)
    BY <1>1, <1>2, <1>4, EventsDiffer DEF EventsAreUnique
  <2> QED BY <1>1, <1>2, <2>1 DEF Noticed, Posted
<1>6. DeletesAreDue' /\ EventsAreUnique'
  <2>1. EventsAreUnique'
    BY <1>1, <1>4 DEF EventsAreUnique
  <2> QED BY <1>1, <1>4, <2>1 DEF DeletesAreDue, Posted
<1>7. CASE ~Frees(id)
  <2>1. UNCHANGED <<sessions, freeList, sessionKeys>>
    BY <1>7, <1>3 DEF SessionDestroyed, DeliverDestroyed, ReleaseID
  <2> QED BY <1>1, <1>5, <1>6, <2>1, QuietStep DEF IInv, TypeOK
<1>8. CASE Frees(id)
  <2>1. freeList' = Append(freeList, id) /\ sessions' = [sessions EXCEPT ![id] = Absent]
    BY <1>8, <1>3 DEF SessionDestroyed, DeliverDestroyed, ReleaseID
  <2>2. \A i \in Ids : sessions'[i] = IF i = id THEN Absent ELSE sessions[i]
    BY <2>1 DEF IInv, TypeOK
  <2>3. /\ Len(freeList) \in Nat /\ DOMAIN freeList = 1 .. Len(freeList)
        /\ DOMAIN freeList' = 1 .. Len(freeList) + 1
        /\ \A i \in DOMAIN freeList : freeList'[i] = freeList[i] /\ freeList[i] \in Ids
        /\ freeList'[Len(freeList) + 1] = id
    BY <1>2, <2>1, LenProperties, AppendProperties DEF IInv, TypeOK
  <2>4. /\ id < maxID
        /\ \A i \in DOMAIN freeList : freeList[i] # id
        /\ \A s \in Services : \A n \in DOMAIN bound[s] : ~BoundAt(s, n, id)
    BY <1>2, <1>4, <1>5 DEF OnlyAllocatedIds, FreeIdsAreUnused, ConnectionsAreOwn, Noticed, Posted
  <2>5. \A k \in Keys : sessionKeys'[k] \in {sessionKeys[k], 0} \ {id}
    <3>1. id # 0
      BY <1>2 DEF Ids
    <3> QED BY <1>2, <1>3, <1>4, <1>8, <3>1 DEF SessionDestroyed, RemoveKeyOf, OneKeyPerSession, IInv, TypeOK
  <2>6. \A s \in Services, x \in Ids : \A n \in DOMAIN bound[s] : BoundAt(s, n, x)' <=> BoundAt(s, n, x)
    BY <1>1 DEF BoundAt
  <2>7. FreeIdsAreUnused'
    <3> SUFFICES ASSUME NEW i \in DOMAIN freeList', NEW x \in Ids, freeList'[i] = x
                 PROVE  /\ x < maxID /\ sessions'[x] = Absent /\ ~Noticed(x)'
                        /\ \A s \in Services : \A n \in DOMAIN bound[s] : ~BoundAt(s, n, x)
                        /\ \A j \in DOMAIN freeList' : freeList'[j] = x => i = j
      <4>1. \A i \in DOMAIN freeList' : freeList'[i] \in Ids
        BY LenProperties DEF TypeOK
      <4> QED BY <1>1, <4>1 DEF FreeIdsAreUnused, Noticed, Posted, BoundAt
    <3>1. CASE x = id
      BY <1>5, <2>2, <2>3, <2>4, <3>1
    <3>2. CASE x # id
      <4>1. i \in DOMAIN freeList /\ freeList[i] = x
        BY <2>3, <3>2
      <4>2. /\ x < maxID /\ sessions[x] = Absent /\ ~Noticed(x)
            /\ \A s \in Services : \A n \in DOMAIN bound[s] : ~BoundAt(s, n, x)
        BY <1>4, <4>1 DEF FreeIdsAreUnused, Noticed, Posted, BoundAt
      <4>3. \A j \in DOMAIN freeList' : freeList'[j] = x => i = j
        BY <1>4, <2>3, <3>2, <4>1 DEF FreeIdsAreUnused
      <4> QED BY <1>5, <2>2, <3>2, <4>2, <4>3
    <3> QED BY <3>1, <3>2
  <2>8. NoticeHitsOwnSession'
    BY <1>1, <1>4, <1>5, <2>2 DEF NoticeHitsOwnSession, Noticed, Posted
  <2>9. ConnectionsAreOwn' /\ ConnectionsAreUnique'
    BY <1>1, <1>4, <1>5, <2>2, <2>6 DEF ConnectionsAreOwn, ConnectionsAreUnique
  <2>10. OnlyAllocatedIds'
    BY <1>1, <1>4, <1>5, <2>2 DEF OnlyAllocatedIds
  <2>11. KeysAreNotFree'
    BY <1>1, <1>4, <2>3, <2>5 DEF KeysAreNotFree
  <2>12. OneKeyPerSession'
    BY <1>4, <2>5 DEF OneKeyPerSession
  <2> QED BY <1>6, <2>7, <2>8, <2>9, <2>10, <2>11, <2>12 DEF IInv
<1> QED BY <1>7, <1>8

-----------------------------------------------------------------------------
(* The invariant and what follows from it.                                 *)

LEMMA PostedCalls ==
    ASSUME TypeOK, NEW evs \in Seq(Events), PostEvents(evs)
    PROVE  PostsNothingElse
<1> DEFINE q == [i \in DOMAIN evs |-> ProcessEventsCall]
<1>1. DOMAIN evs = 1 .. Len(evs) /\ Len(evs) \in Nat
  BY LenProperties
<1>2. q \in Seq({ProcessEventsCall})
  BY <1>1, IsASeq
<1> QED BY <1>2, AppendedCalls DEF PostEvents

\* Dispatch() of a request only posts processEvents() calls.
LEMMA DispatchedCalls ==
    ASSUME TypeOK, NEW d \in Devices, NEW sid \in Ids \cup {0},
           NEW service \in Services \cup {NoService, Absent},
           NEW cookies \in Seq(Events), Dispatch(d, sid, service, cookies)
    PROVE  PostsNothingElse
<1>1. NextRequestID \in Rids
  BY LenProperties DEF Dispatch, NextRequestID, Rids, TypeOK
<1>2. Append(cookies, Page(0, NextRequestID)) \in Seq(Events)
  BY <1>1, SingleEvents, AppendProperties
<1>3. PostEvents(cookies) \/ PostEvents(Append(cookies, Page(0, NextRequestID)))
  BY DEF Dispatch
<1> QED BY <1>2, <1>3, PostedCalls

LEMMA IInvStep == IInv /\ [Next]_vars => IInv'
<1> SUFFICES ASSUME IInv, [Next]_vars PROVE IInv'
  OBVIOUS
<1> USE DEF sessionVars, httpVars
<1>1. TypeOK /\ TypeOK'
  BY TypeOKStep DEF IInv
<1>2. CASE RunDeferredDelete /\ UNCHANGED httpVars
  BY <1>1, <1>2, DeferredDeleteStep
<1>3. CASE SessionDestroyed
  BY <1>1, <1>3, DestroyedStep
<1>4. CASE ProcessEvents
  <2>1. posted # <<>> /\ (posted' = Tail(posted) \/ posted' = Append(Tail(posted), ProcessEventsCall))
    BY <1>4 DEF ProcessEvents, SendPage
  <2> QED BY <1>1, <1>4, <2>1, DroppedCall, QuietPostStep DEF ProcessEvents
<1>5. ASSUME NEW d \in Devices, NEW k \in Keys, RequestWithKey(d, k)
      PROVE IInv'
  <2>1. sessionKeys[k] \in Ids /\ sessions[sessionKeys[k]] \in Services \cup {NoService, Absent}
    BY <1>1, <1>5 DEF RequestWithKey, TypeOK
  <2>2. PostsNothingElse
    BY <1>1, <1>5, <2>1, EmptySeq, DispatchedCalls DEF RequestWithKey
  <2> QED BY <1>1, <1>5, <2>2, QuietPostStep DEF RequestWithKey
<1>6. ASSUME NEW d \in Devices, NEW s \in Services \cup {NoService}, NEW k \in Keys,
             RequestCreatesSession(d, s, k)
      PROVE IInv'
  <2>1. CreateService(s) /\ sessionKeys' = [sessionKeys EXCEPT ![k] = NextID]
    BY <1>6 DEF RequestCreatesSession, NewSession
  <2>2. <<StoreCookie(NextID, k)>> \in Seq(Events) /\ NextID \in Ids
    BY <1>1, <2>1, CreateServiceType, SingleEvents
  <2>3. PostsNothingElse
    BY <1>1, <1>6, <2>2, DispatchedCalls DEF RequestCreatesSession
  <2> QED BY <1>1, <2>1, <2>3, NewSessionStep
<1>7. ASSUME NEW d \in Devices, RequestWithoutSession(d)
      PROVE IInv'
  <2>1. PostsNothingElse
    BY <1>1, <1>7, EmptySeq, DispatchedCalls DEF RequestWithoutSession
  <2> QED BY <1>1, <1>7, <2>1, QuietPostStep DEF RequestWithoutSession
<1>8. CASE UNCHANGED <<sessionVars, sessionKeys, posted>>
  <2>1. PostsNothingElse
    BY <1>8 DEF PostsNothingElse, Posted, EventsAreUnique
  <2> QED BY <1>1, <1>8, <2>1, QuietPostStep
<1>9. ASSUME NEW d \in Devices, Disconnected(d)
      PROVE IInv'
  BY <1>8, <1>9 DEF Disconnected
<1>10. ASSUME NEW s \in Services \cup {NoService}, NEW k \in Keys, ApplicationNewSession(s, k)
       PROVE IInv'
  <2>1. CreateService(s) /\ sessionKeys' = [sessionKeys EXCEPT ![k] = NextID]
    BY <1>10 DEF ApplicationNewSession, NewSession
  <2>2. <<StoreCookie(NextID, k)>> \in Seq(Events)
    BY <1>1, <2>1, CreateServiceType, SingleEvents
  <2>3. PostsNothingElse
    BY <1>1, <1>10, <2>2, PostedCalls DEF ApplicationNewSession
  <2> QED BY <1>1, <2>1, <2>3, NewSessionStep
<1>11. ASSUME NEW t \in inbox, Respond(t)
       PROVE IInv'
  <2>1. t.sid \in Ids \cup {0} /\ t.rid \in Rids
    BY <1>1 DEF TypeOK, Assignments
  <2>2. <<Page(t.sid, t.rid)>> \in Seq(Events)
    BY <2>1, SingleEvents
  <2>3. PostsNothingElse
    BY <1>1, <1>11, <2>2, PostedCalls DEF Respond
  <2> QED BY <1>1, <1>11, <2>3, QuietPostStep DEF Respond
<1>12. ASSUME NEW id \in Ids, CloseSession(id), UNCHANGED httpVars
       PROVE IInv'
  <2>1. \A i \in Ids : sessions'[i] \in {sessions[i], Absent}
    BY <1>1, <1>12 DEF CloseSession, TypeOK
  <2>2. UNCHANGED <<freeList, maxID, bound, sessionKeys>>
    BY <1>12 DEF CloseSession
  <2>3. CASE UNCHANGED <<object, posted>>
    BY <1>1, <2>1, <2>2, <2>3, QuietStep DEF IInv, Noticed, Posted, DeletesAreDue, EventsAreUnique
  <2>4. ASSUME sessions[id] \in Services, object[sessions[id]] # "dead", DeleteLater(sessions[id])
        PROVE  IInv'
    BY <1>1, <2>1, <2>2, <2>4, DeleteLaterStep
  <2> QED BY <1>12, <2>3, <2>4 DEF CloseSession
<1>13. ASSUME NEW s \in Services, ServiceDeletesItself(s), UNCHANGED httpVars
       PROVE IInv'
  <2>1. \A i \in Ids : sessions'[i] \in {sessions[i], Absent}
    BY <1>13 DEF ServiceDeletesItself
  <2> QED BY <1>1, <1>13, <2>1, DeleteLaterStep DEF ServiceDeletesItself
<1>14. CASE UNCHANGED vars
  BY <1>8, <1>14 DEF vars
<1>15. ASSUME NEW d \in Devices, DeleteDevice(d)
       PROVE IInv'
  BY <1>8, <1>15 DEF DeleteDevice
<1> QED BY <1>2, <1>3, <1>4, <1>5, <1>6, <1>7, <1>9, <1>10, <1>11, <1>12, <1>13, <1>14, <1>15
        DEF Next, EventLoop, Browser, Application

LEMMA IInvHolds == Spec => []IInv
<1>1. Init => IInv
  <2> SUFFICES ASSUME Init PROVE IInv
    OBVIOUS
  <2>1. TypeOK
    BY TypeCorrectInitially
  <2> QED BY <2>1 DEF Init, SessionsInit, IInv, FreeIdsAreUnused, NoticeHitsOwnSession,
             ConnectionsAreOwn, ConnectionsAreUnique, DeletesAreDue, EventsAreUnique,
             OnlyAllocatedIds, KeysAreNotFree, OneKeyPerSession, BoundAt, Noticed, Posted
<1> QED BY <1>1, IInvStep, PTL DEF Spec

\* getNextID() never hands out an ID that a session still uses or that a
\* notice still to come could free again, whatever the factory returns.
THEOREM FreeIdsStayUnused == Spec => []FreeIdsAreUnused
<1>1. IInv => FreeIdsAreUnused
  BY DEF IInv
<1> QED BY <1>1, IInvHolds, PTL

\* A late sessionDestroyed() never ends a session that reuses the ID.
THEOREM NoticesHitOwnSessions == Spec => []NoticeHitsOwnSession
<1>1. IInv => NoticeHitsOwnSession
  BY DEF IInv
<1> QED BY <1>1, IInvHolds, PTL

\* Two keys in the table never name the same session.
THEOREM KeysAreUnique == Spec => []OneKeyPerSession
<1>1. IInv => OneKeyPerSession
  BY DEF IInv
<1> QED BY <1>1, IInvHolds, PTL

\* createService() never overwrites the entry of another session.
THEOREM EntriesAreNeverReplaced == Spec => EntryIsNeverReplaced
<1> DEFINE Kept == \A id \in Ids : sessions[id] # Absent => sessions'[id] \in {sessions[id], Absent}
<1>1. IInv /\ [Next]_vars => [Kept]_sessions
  <2> SUFFICES ASSUME IInv, [Next]_vars, sessions' # sessions PROVE Kept
    OBVIOUS
  <2>1. ASSUME NEW s \in Services \cup {NoService}, CreateService(s)
        PROVE  Kept
    <3>1. sessions[NextID] = Absent /\ NextID \in Ids
      BY <2>1, NextIDIsUnclaimed DEF CreateService
    <3> QED BY <2>1, <3>1 DEF CreateService, IInv, TypeOK
  <2>2. ASSUME NEW id, sessions' = [sessions EXCEPT ![id] = Absent]
        PROVE  Kept
    BY <2>2 DEF IInv, TypeOK
  <2>3. CASE EventLoop
    BY <2>2, <2>3 DEF EventLoop, RunDeferredDelete, SessionDestroyed, DeliverDestroyed, ReleaseID,
                      ProcessEvents, DeleteDevice, sessionVars
  <2>4. CASE Browser
    BY <2>1, <2>4 DEF Browser, RequestWithKey, RequestCreatesSession, NewSession,
                      RequestWithoutSession, Disconnected, sessionVars
  <2>5. CASE Application
    BY <2>1, <2>2, <2>5 DEF Application, ApplicationNewSession, NewSession, Respond,
                            CloseSession, ServiceDeletesItself, sessionVars
  <2> QED BY <2>3, <2>4, <2>5 DEF Next, vars, sessionVars
<1>2. IInv /\ [Next]_vars => [\A id \in Ids : sessions[id] # Absent =>
           sessions'[id] \in {sessions[id], Absent}]_sessions
  BY <1>1
<1> QED BY <1>2, IInvHolds, PTL DEF Spec, EntryIsNeverReplaced

-----------------------------------------------------------------------------
(***************************************************************************)
(* Who is sent the key of a session.                                       *)
(*                                                                         *)
(* KeyGoesToCreator rests on this: as long as the event with the key is    *)
(* queued, nobody has the key, so that whoever may still answer for the    *)
(* session, and the pages behind that event, belong to the request that    *)
(* created it.  A service that still had to answer for an earlier session  *)
(* with the same ID is dead, or the ID would not have been freed.          *)
(***************************************************************************)
Cookies == {e \in eventQueue : e.type = "StoreCookie"}
Live(t) == t.svc \in Services => object[t.svc] # "dead"
IsFree(id) == \E i \in DOMAIN freeList : freeList[i] = id

EventsAreNumbered == \A e \in eventQueue : e.at <= tail

\* Who may still answer for an ID has it, or it is not used again.
AnswersAreOwn ==
    \A t \in inbox : t.sid # 0 /\ Live(t) =>
        /\ t.sid < maxID
        /\ ~IsFree(t.sid)
        /\ sessions[t.sid] \in {t.svc, NoService, Absent}

KeysAreUnsent ==
    \A e \in Cookies :
        /\ creator[e.key] # 0
        /\ \A f \in Cookies : f.key = e.key => f = e
        /\ sessionKeys[e.key] # 0 =>
            /\ sessionKeys[e.key] = e.sid
            /\ \A r \in Rids : <<e.key, r>> \notin sent
            /\ \A t \in inbox : t.sid = e.sid /\ Live(t) => t.rid = creator[e.key]
            /\ \A p \in Pages : p.sid = e.sid /\ p.at > e.at => p.rid = creator[e.key]

KeysAreIssued == \A k \in Keys, r \in Rids : <<k, r>> \in sent => creator[k] # 0

KInv == EventsAreNumbered /\ AnswersAreOwn /\ KeysAreUnsent /\ KeysAreIssued /\ KeyGoesToCreator

\* Steps that post nothing: sessions end, keys are forgotten, services die.
LEMMA EndingStep ==
    ASSUME IInv, KInv, TypeOK',
           UNCHANGED <<eventQueue, tail, creator, inbox, sent, maxID>>,
           \A k \in Keys : sessionKeys'[k] \in {sessionKeys[k], 0},
           \A id \in Ids : sessions'[id] \in {sessions[id], Absent},
           \A s \in Services : object[s] = "dead" => object'[s] = "dead",
           \A id \in Ids : IsFree(id)' => IsFree(id) \/ \A t \in inbox : t.sid = id => ~Live(t)
    PROVE  KInv'
<1>1. \A t \in inbox : Live(t)' => Live(t)
  BY DEF Live
<1>2. \A t \in inbox : t.sid # 0 => t.sid \in Ids
  BY DEF IInv, TypeOK, Assignments
<1>3. EventsAreNumbered' /\ KeysAreIssued'
  BY DEF KInv, EventsAreNumbered, KeysAreIssued
<1>4. AnswersAreOwn'
  <2> SUFFICES ASSUME NEW t \in inbox, t.sid # 0, Live(t)'
               PROVE  t.sid < maxID /\ ~IsFree(t.sid)' /\ sessions'[t.sid] \in {t.svc, NoService, Absent}
    BY DEF AnswersAreOwn, IsFree
  <2> QED BY <1>1, <1>2 DEF KInv, AnswersAreOwn
<1>5. Cookies' = Cookies /\ Pages' = Pages
  BY DEF Cookies, Pages
<1>6. \A e \in Cookies : e.key \in Keys
  BY DEF Cookies, IInv, TypeOK, Events, CookieEvents, PageEvents
<1>7. KeysAreUnsent'
  <2> SUFFICES ASSUME NEW e \in Cookies
               PROVE  /\ creator[e.key] # 0
                      /\ \A f \in Cookies : f.key = e.key => f = e
                      /\ sessionKeys'[e.key] # 0 =>
                            /\ sessionKeys'[e.key] = e.sid
                            /\ \A r \in Rids : <<e.key, r>> \notin sent
                            /\ \A t \in inbox : t.sid = e.sid /\ Live(t)' => t.rid = creator[e.key]
                            /\ \A p \in Pages : p.sid = e.sid /\ p.at > e.at => p.rid = creator[e.key]
    BY <1>5 DEF KeysAreUnsent, Live
  <2>1. sessionKeys'[e.key] # 0 => sessionKeys'[e.key] = sessionKeys[e.key]
    BY <1>6
  <2> QED BY <1>1, <2>1 DEF KInv, KeysAreUnsent
<1>8. KeyGoesToCreator'
  BY DEF KInv, KeyGoesToCreator
<1> QED BY <1>3, <1>4, <1>7, <1>8 DEF KInv

\* What postEvent() adds to the queue.
LEMMA AddedEvents ==
    ASSUME TypeOK, NEW evs \in Seq(Events), PostEvents(evs)
    PROVE  /\ tail \in Nat /\ tail <= tail'
           /\ \A e \in eventQueue' : e \notin eventQueue =>
                 /\ e.at > tail /\ e.at <= tail'
                 /\ \E i \in DOMAIN evs :
                        /\ e.at = tail + i
                        /\ e.type = evs[i].type /\ e.sid = evs[i].sid
                        /\ e.rid = evs[i].rid /\ e.key = evs[i].key
<1>1. Len(evs) \in Nat /\ DOMAIN evs = 1 .. Len(evs) /\ tail \in Nat
      /\ \A i \in 1 .. Len(evs) : evs[i] \in Events
  BY LenProperties DEF TypeOK
<1>2. tail' = tail + Len(evs)
  BY DEF PostEvents
<1>3. \A e \in eventQueue' : e \notin eventQueue => \E i \in DOMAIN evs : e = [evs[i] EXCEPT !.at = tail + i]
  BY DEF PostEvents
<1>4. ASSUME NEW i \in DOMAIN evs, NEW e, e = [evs[i] EXCEPT !.at = tail + i]
      PROVE  /\ e.at = tail + i /\ e.at > tail /\ e.at <= tail'
             /\ e.type = evs[i].type /\ e.sid = evs[i].sid
             /\ e.rid = evs[i].rid /\ e.key = evs[i].key
  <2>1. evs[i] \in PageEvents \/ evs[i] \in CookieEvents
    BY <1>1 DEF Events
  <2>2. e.at = tail + i /\ e.type = evs[i].type /\ e.sid = evs[i].sid
        /\ e.rid = evs[i].rid /\ e.key = evs[i].key
    BY <1>4, <2>1 DEF PageEvents, CookieEvents
  <2>3. tail + i > tail /\ tail + i <= tail'
    BY <1>1, <1>2
  <2> QED BY <2>2, <2>3
<1> QED BY <1>1, <1>2, <1>3, <1>4

\* What the end of incomingRequest() adds to the queue, and whom it asks.
LEMMA AddedRequest ==
    ASSUME TypeOK, NEW d \in Devices, NEW sid \in Ids \cup {0},
           NEW service \in Services \cup {NoService, Absent},
           NEW cookies \in Seq(CookieEvents), Dispatch(d, sid, service, cookies)
    PROVE  /\ tail \in Nat /\ tail <= tail' /\ sent' = sent
           /\ \A e \in eventQueue' : e \notin eventQueue =>
                 /\ e.at > tail /\ e.at <= tail'
                 /\ \/ e.type = "Page" /\ e.sid = 0
                    \/ \E i \in DOMAIN cookies :
                            /\ e.at = tail + i
                            /\ e.type = "StoreCookie" /\ e.sid = cookies[i].sid /\ e.key = cookies[i].key
           /\ \A t \in inbox' : t \notin inbox =>
                 /\ t.sid = sid /\ t.rid = NextRequestID
                 /\ t.svc = IF service \in Services THEN service ELSE Static
<1> DEFINE rid == NextRequestID
           target == IF service \in Services THEN service ELSE Static
<1>1. /\ Len(cookies) \in Nat /\ DOMAIN cookies = 1 .. Len(cookies)
      /\ \A i \in DOMAIN cookies : cookies[i] \in CookieEvents
  BY LenProperties
<1>2. cookies \in Seq(Events)
  BY DEF Events
<1>3. \A i \in DOMAIN cookies : cookies[i].type = "StoreCookie"
  BY <1>1 DEF CookieEvents
<1>4. rid \in Rids /\ sent' = sent
  BY LenProperties DEF Dispatch, NextRequestID, Rids, TypeOK
<1>5. CASE target = NoService
  <2> DEFINE evs == Append(cookies, Page(0, rid))
  <2>1. PostEvents(evs) /\ inbox' = inbox
    BY <1>5 DEF Dispatch
  <2>2. /\ DOMAIN evs = 1 .. Len(cookies) + 1 /\ evs[Len(cookies) + 1] = Page(0, rid)
        /\ \A i \in DOMAIN cookies : evs[i] = cookies[i]
        /\ evs \in Seq(Events)
    <3>1. Page(0, rid) \in Events
      BY <1>4 DEF Page, Events, PageEvents
    <3> HIDE DEF rid
    <3>2. ASSUME NEW page \in Events
          PROVE  /\ Append(cookies, page) \in Seq(Events)
                 /\ DOMAIN Append(cookies, page) = 1 .. Len(cookies) + 1
                 /\ Append(cookies, page)[Len(cookies) + 1] = page
                 /\ \A i \in 1 .. Len(cookies) : Append(cookies, page)[i] = cookies[i]
      BY <1>1, <1>2, AppendProperties, LenProperties
    <3> QED BY <1>1, <3>1, <3>2
  <2>3. Page(0, rid).type = "Page" /\ Page(0, rid).sid = 0
    BY DEF Page
  <2> HIDE DEF evs
  <2>4. \A i \in DOMAIN evs : \/ evs[i].type = "Page" /\ evs[i].sid = 0
                              \/ i \in DOMAIN cookies /\ evs[i] = cookies[i]
    BY <1>1, <2>2, <2>3
  <2>5. /\ tail \in Nat /\ tail <= tail'
        /\ \A e \in eventQueue' : e \notin eventQueue =>
                 /\ e.at > tail /\ e.at <= tail'
                 /\ \E i \in DOMAIN evs :
                        /\ e.at = tail + i
                        /\ e.type = evs[i].type /\ e.sid = evs[i].sid /\ e.key = evs[i].key
    BY <2>1, <2>2, AddedEvents
  <2> QED BY <1>3, <1>4, <2>1, <2>4, <2>5
<1>6. CASE target # NoService
  <2>1. PostEvents(cookies) /\ inbox' = inbox \cup {[svc |-> target, sid |-> sid, rid |-> rid]}
    BY <1>6 DEF Dispatch
  <2>2. /\ tail \in Nat /\ tail <= tail'
        /\ \A e \in eventQueue' : e \notin eventQueue =>
                 /\ e.at > tail /\ e.at <= tail'
                 /\ \E i \in DOMAIN cookies :
                        /\ e.at = tail + i
                        /\ e.type = cookies[i].type /\ e.sid = cookies[i].sid /\ e.key = cookies[i].key
    BY <1>2, <2>1, AddedEvents
  <2>3. \A t \in inbox' : t \notin inbox => t.sid = sid /\ t.rid = rid /\ t.svc = target
    BY <2>1
  <2> QED BY <1>3, <1>4, <2>2, <2>3
<1> QED BY <1>5, <1>6

\* The same without a cookie.
LEMMA AddedPlainRequest ==
    ASSUME TypeOK, NEW d \in Devices, NEW sid \in Ids \cup {0},
           NEW service \in Services \cup {NoService, Absent}, Dispatch(d, sid, service, <<>>)
    PROVE  /\ tail \in Nat /\ tail <= tail' /\ sent' = sent
           /\ \A e \in eventQueue' : e \notin eventQueue =>
                 e.at > tail /\ e.at <= tail' /\ e.type = "Page" /\ e.sid = 0
           /\ \A t \in inbox' : t \notin inbox =>
                 t.sid = sid /\ t.svc = IF service \in Services THEN service ELSE Static
<1>0. <<>> \in Seq(CookieEvents)
  BY EmptySeq
<1>1. PICK none \in Seq(CookieEvents) : none = <<>>
  BY <1>0
<1>2. DOMAIN none = {}
  BY <1>1
<1>3. Dispatch(d, sid, service, none)
  BY <1>1
<1>4. tail \in Nat /\ tail <= tail' /\ sent' = sent
  BY <1>3, AddedRequest
<1>5. ASSUME NEW e \in eventQueue', e \notin eventQueue
      PROVE  e.at > tail /\ e.at <= tail' /\ e.type = "Page" /\ e.sid = 0
  <2>1. /\ e.at > tail /\ e.at <= tail'
        /\ \/ e.type = "Page" /\ e.sid = 0
           \/ \E i \in DOMAIN none :
                   /\ e.at = tail + i
                   /\ e.type = "StoreCookie" /\ e.sid = none[i].sid /\ e.key = none[i].key
    BY <1>3, <1>5, AddedRequest, Z3
  <2> QED BY <1>2, <2>1
<1>6. ASSUME NEW t \in inbox', t \notin inbox
      PROVE  t.sid = sid /\ t.svc = IF service \in Services THEN service ELSE Static
  BY <1>3, <1>6, AddedRequest, SMTT(30)
<1> QED BY <1>4, <1>5, <1>6

\* Steps that post a page, or ask for one, and make no session: who asks
\* with a key was sent it.
LEMMA NoSessionStep ==
    ASSUME IInv, KInv, TypeOK', UNCHANGED <<sessionVars, sessionKeys, creator, sent>>,
           tail \in Nat, tail <= tail',
           \A e \in eventQueue' : e \notin eventQueue =>
                /\ e.at > tail /\ e.at <= tail' /\ e.type = "Page"
                /\ e.sid = 0 \/ \E t \in inbox : Live(t) /\ e.sid = t.sid /\ e.rid = t.rid,
           \A t \in inbox' : t \notin inbox =>
                \/ t.sid = 0
                \/ /\ sessions[t.sid] \in {t.svc, NoService, Absent}
                   /\ \E k \in Keys, r \in Rids : <<k, r>> \in sent /\ t.sid = sessionKeys[k]
    PROVE  KInv'
<1> USE DEF sessionVars
<1>1. /\ OneKeyPerSession /\ KeysAreNotFree
      /\ EventsAreNumbered /\ AnswersAreOwn /\ KeysAreUnsent /\ KeysAreIssued /\ KeyGoesToCreator
  BY DEF IInv, KInv
<1>2. \A e \in eventQueue : e.at <= tail /\ e.at \in Nat
  BY <1>1 DEF EventsAreNumbered, IInv, TypeOK, Events, PageEvents, CookieEvents
<1>3. \A e \in eventQueue' : e.at \in Nat
  BY DEF TypeOK, Events, PageEvents, CookieEvents
<1>4. tail' \in Nat
  BY DEF TypeOK
<1>5. EventsAreNumbered'
  BY <1>2, <1>3, <1>4 DEF EventsAreNumbered
<1>6. KeysAreIssued' /\ KeyGoesToCreator'
  BY <1>1 DEF KeysAreIssued, KeyGoesToCreator
<1>7. AnswersAreOwn'
  <2> SUFFICES ASSUME NEW t \in inbox', t.sid # 0, Live(t)
               PROVE  t.sid < maxID /\ ~IsFree(t.sid) /\ sessions[t.sid] \in {t.svc, NoService, Absent}
    BY DEF AnswersAreOwn, IsFree, Live
  <2>1. CASE t \in inbox
    BY <1>1, <2>1 DEF AnswersAreOwn
  <2>2. CASE t \notin inbox
    <3>1. PICK k \in Keys : t.sid = sessionKeys[k]
      BY <2>2
    <3> QED BY <1>1, <2>2, <3>1 DEF KeysAreNotFree, IsFree
  <2> QED BY <2>1, <2>2
<1>8. Cookies' \subseteq Cookies
  BY DEF Cookies
<1>9. KeysAreUnsent'
  <2> SUFFICES ASSUME NEW e \in Cookies'
               PROVE  /\ creator[e.key] # 0
                      /\ \A f \in Cookies' : f.key = e.key => f = e
                      /\ sessionKeys[e.key] # 0 =>
                            /\ sessionKeys[e.key] = e.sid
                            /\ \A r \in Rids : <<e.key, r>> \notin sent
                            /\ \A t \in inbox' : t.sid = e.sid /\ Live(t) => t.rid = creator[e.key]
                            /\ \A p \in Pages' : p.sid = e.sid /\ p.at > e.at => p.rid = creator[e.key]
    BY DEF KeysAreUnsent, Live
  <2>1. e \in Cookies /\ e.key \in Keys /\ e.sid \in Ids /\ e.sid # 0
    BY <1>8 DEF Cookies, IInv, TypeOK, Events, PageEvents, CookieEvents, Ids
  <2>2. creator[e.key] # 0 /\ \A f \in Cookies' : f.key = e.key => f = e
    BY <1>1, <1>8, <2>1 DEF KeysAreUnsent
  <2> SUFFICES ASSUME sessionKeys[e.key] # 0
               PROVE  /\ sessionKeys[e.key] = e.sid
                      /\ \A r \in Rids : <<e.key, r>> \notin sent
                      /\ \A t \in inbox' : t.sid = e.sid /\ Live(t) => t.rid = creator[e.key]
                      /\ \A p \in Pages' : p.sid = e.sid /\ p.at > e.at => p.rid = creator[e.key]
    BY <2>2
  <2>3. /\ sessionKeys[e.key] = e.sid
        /\ \A r \in Rids : <<e.key, r>> \notin sent
        /\ \A t \in inbox : t.sid = e.sid /\ Live(t) => t.rid = creator[e.key]
        /\ \A p \in Pages : p.sid = e.sid /\ p.at > e.at => p.rid = creator[e.key]
    BY <1>1, <2>1 DEF KeysAreUnsent
  <2>4. \A t \in inbox' : t.sid = e.sid /\ Live(t) => t.rid = creator[e.key]
    <3> SUFFICES ASSUME NEW t \in inbox', t.sid = e.sid, t \notin inbox PROVE FALSE
      BY <2>3
    <3>1. PICK k \in Keys, r \in Rids : <<k, r>> \in sent /\ t.sid = sessionKeys[k]
      BY <2>1
    <3>2. k = e.key
      BY <1>1, <2>1, <2>3, <3>1 DEF OneKeyPerSession
    <3> QED BY <2>3, <3>1, <3>2
  <2>5. \A p \in Pages' : p.sid = e.sid /\ p.at > e.at => p.rid = creator[e.key]
    BY <2>1, <2>3 DEF Pages
  <2> QED BY <2>3, <2>4, <2>5
<1> QED BY <1>5, <1>6, <1>7, <1>9 DEF KInv

\* newSession(), on behalf of request rid or of the application.
LEMMA NewKeyStep ==
    ASSUME IInv, KInv, TypeOK', NEW s \in Services \cup {NoService}, NEW k \in Keys, NEW rid \in 1 .. NoRequest,
           NewSession(s, k, rid), sent' = sent,
           tail \in Nat, tail <= tail',
           \A e \in eventQueue' : e \notin eventQueue =>
                /\ e.at > tail /\ e.at <= tail'
                /\ \/ e.type = "Page" /\ e.sid = 0
                   \/ e.at = tail + 1 /\ e.type = "StoreCookie" /\ e.sid = NextID /\ e.key = k,
           \A t \in inbox' : t \notin inbox =>
                t.sid = NextID /\ t.rid = rid /\ (t.svc = s \/ s = NoService)
    PROVE  KInv'
<1>1. /\ TypeOK /\ OneKeyPerSession /\ KeysAreNotFree /\ OnlyAllocatedIds
      /\ EventsAreNumbered /\ AnswersAreOwn /\ KeysAreUnsent /\ KeysAreIssued /\ KeyGoesToCreator
  BY DEF IInv, KInv
<1>2. /\ creator[k] = 0 /\ creator' = [creator EXCEPT ![k] = rid] /\ rid # 0
      /\ sessionKeys' = [sessionKeys EXCEPT ![k] = NextID]
      /\ GetNextID /\ sessions' = [sessions EXCEPT ![NextID] = s]
      /\ \A u \in Services : object[u] = "dead" => object'[u] = "dead"
  BY <1>1 DEF NewSession, CreateService, TypeOK
<1>3. /\ NextID \in Ids /\ NextID # 0
      /\ sessions[NextID] = Absent
      /\ \A l \in Keys : sessionKeys[l] # NextID
      /\ maxID \in Nat /\ maxID' \in Nat /\ maxID <= maxID' /\ NextID < maxID'
      /\ \A i \in DOMAIN freeList' : freeList'[i] # NextID
      /\ \A id \in Ids : IsFree(id)' => IsFree(id)
  <2>1. /\ NextID \in Ids /\ sessions[NextID] = Absent
        /\ \A l \in Keys : sessionKeys[l] # NextID
        /\ maxID' \in Nat /\ maxID <= maxID' /\ NextID < maxID'
        /\ \A i \in DOMAIN freeList' : freeList'[i] # NextID
        /\ \A i \in DOMAIN freeList' : \E j \in DOMAIN freeList : freeList'[i] = freeList[j]
    BY <1>2, NextIDIsUnclaimed
  <2>2. maxID \in Nat /\ \A id \in Ids : id # 0
    BY <1>1 DEF TypeOK, Ids
  <2> QED BY <2>1, <2>2 DEF IsFree
<1>4. IsFree(NextID) \/ ~(NextID < maxID)
  <2>1. CASE freeList = <<>>
    BY <1>3, <2>1 DEF NextID
  <2>2. CASE freeList # <<>>
    <3>1. 1 \in DOMAIN freeList /\ freeList[1] = NextID
      BY <1>1, <2>2 DEF NextID, TypeOK
    <3> QED BY <3>1 DEF IsFree
  <2> QED BY <2>1, <2>2
<1>5. \A t \in inbox : t.sid = NextID => ~Live(t)
  BY <1>1, <1>3, <1>4 DEF AnswersAreOwn
<1>6. \A t : Live(t)' => Live(t)
  BY <1>2 DEF Live
<1>7. \A t \in inbox' : t.sid \in Ids \cup {0}
  BY DEF TypeOK, Assignments
<1>8. EventsAreNumbered'
  <2>1. \A e \in eventQueue : e.at \in Nat
    BY <1>1 DEF TypeOK, Events, PageEvents, CookieEvents
  <2>2. tail' \in Nat
    BY DEF TypeOK
  <2> QED BY <1>1, <2>1, <2>2 DEF EventsAreNumbered
<1>9. KeysAreIssued'
  BY <1>1, <1>2 DEF KeysAreIssued, TypeOK
<1>10. KeyGoesToCreator'
  <2> SUFFICES ASSUME NEW l \in Keys, NEW r \in Rids, <<l, r>> \in sent, sessionKeys'[l] # 0
               PROVE  creator'[l] = r
    BY DEF KeyGoesToCreator
  <2>1. l # k
    BY <1>1, <1>2 DEF KeysAreIssued
  <2>2. sessionKeys'[l] = sessionKeys[l] /\ creator'[l] = creator[l]
    BY <1>1, <1>2, <2>1 DEF TypeOK
  <2> QED BY <1>1, <2>2 DEF KeyGoesToCreator
<1>11. AnswersAreOwn'
  <2> SUFFICES ASSUME NEW t \in inbox', t.sid # 0, Live(t)'
               PROVE  t.sid < maxID' /\ ~IsFree(t.sid)' /\ sessions'[t.sid] \in {t.svc, NoService, Absent}
    BY DEF AnswersAreOwn, IsFree
  <2>1. CASE t \in inbox
    <3>1. t.sid # NextID /\ t.sid \in Ids
      BY <1>5, <1>6, <1>7, <2>1
    <3>2. t.sid < maxID /\ ~IsFree(t.sid) /\ sessions[t.sid] \in {t.svc, NoService, Absent}
      BY <1>1, <1>6, <2>1 DEF AnswersAreOwn
    <3>3. t.sid < maxID'
      BY <1>3, <3>1, <3>2 DEF Ids
    <3>4. sessions'[t.sid] = sessions[t.sid]
      BY <1>1, <1>2, <3>1 DEF TypeOK
    <3> QED BY <1>3, <3>1, <3>2, <3>3, <3>4
  <2>2. CASE t \notin inbox
    <3>1. sessions'[NextID] = s
      BY <1>1, <1>2, <1>3 DEF TypeOK
    <3>2. t.sid = NextID /\ (t.svc = s \/ s = NoService)
      BY <2>2
    <3> QED BY <1>3, <3>1, <3>2 DEF IsFree
  <2> QED BY <2>1, <2>2
<1>12. \A e \in Cookies' : \/ e \in Cookies /\ e.key # k
                           \/ e.at = tail + 1 /\ e.sid = NextID /\ e.key = k
  <2> SUFFICES ASSUME NEW e \in eventQueue', e.type = "StoreCookie"
               PROVE  \/ e \in Cookies /\ e.key # k
                      \/ e.at = tail + 1 /\ e.sid = NextID /\ e.key = k
    BY DEF Cookies
  <2>1. CASE e \in eventQueue
    BY <1>1, <1>2, <2>1 DEF KeysAreUnsent, Cookies
  <2> QED BY <2>1
<1>13. \A e, f \in Cookies' : e.at = f.at /\ e.sid = f.sid /\ e.key = f.key => e = f
  <2>1. Cookies' \subseteq CookieEvents
    BY DEF Cookies, TypeOK, Events, PageEvents
  <2>2. ASSUME NEW e \in CookieEvents, NEW f \in CookieEvents, e.at = f.at, e.sid = f.sid, e.key = f.key
        PROVE  e = f
    BY <2>2 DEF CookieEvents
  <2> QED BY <2>1, <2>2
<1>14. KeysAreUnsent'
  <2> SUFFICES ASSUME NEW e \in Cookies'
               PROVE  /\ creator'[e.key] # 0
                      /\ \A f \in Cookies' : f.key = e.key => f = e
                      /\ sessionKeys'[e.key] # 0 =>
                            /\ sessionKeys'[e.key] = e.sid
                            /\ \A r \in Rids : <<e.key, r>> \notin sent
                            /\ \A t \in inbox' : t.sid = e.sid /\ Live(t)' => t.rid = creator'[e.key]
                            /\ \A p \in Pages' : p.sid = e.sid /\ p.at > e.at => p.rid = creator'[e.key]
    BY DEF KeysAreUnsent, Live
  <2>0. e.key \in Keys /\ e.sid \in Ids /\ e.sid # 0 /\ e.at \in Nat
    BY DEF Cookies, TypeOK, Events, PageEvents, CookieEvents, Ids
  <2>1. CASE e \in Cookies /\ e.key # k
    <3>1. creator'[e.key] = creator[e.key] /\ sessionKeys'[e.key] = sessionKeys[e.key]
      BY <1>1, <1>2, <2>0, <2>1 DEF TypeOK
    <3>2. creator[e.key] # 0 /\ \A f \in Cookies' : f.key = e.key => f = e
      BY <1>1, <1>12, <2>1 DEF KeysAreUnsent
    <3> SUFFICES ASSUME sessionKeys[e.key] # 0
                 PROVE  /\ sessionKeys[e.key] = e.sid
                        /\ \A r \in Rids : <<e.key, r>> \notin sent
                        /\ \A t \in inbox' : t.sid = e.sid /\ Live(t)' => t.rid = creator[e.key]
                        /\ \A p \in Pages' : p.sid = e.sid /\ p.at > e.at => p.rid = creator[e.key]
      BY <3>1, <3>2
    <3>3. /\ sessionKeys[e.key] = e.sid
          /\ \A r \in Rids : <<e.key, r>> \notin sent
          /\ \A t \in inbox : t.sid = e.sid /\ Live(t) => t.rid = creator[e.key]
          /\ \A p \in Pages : p.sid = e.sid /\ p.at > e.at => p.rid = creator[e.key]
      BY <1>1, <2>1 DEF KeysAreUnsent
    <3>4. e.sid # NextID
      BY <1>3, <2>0, <3>3
    <3>5. \A p \in Pages' : p.sid = e.sid => p \in Pages
      BY <2>0 DEF Pages
    <3> QED BY <1>6, <3>3, <3>4, <3>5
  <2>2. CASE e.at = tail + 1 /\ e.sid = NextID /\ e.key = k
    <3>1. creator'[k] = rid /\ sessionKeys'[k] = NextID
      BY <1>1, <1>2 DEF TypeOK
    <3>2. \A f \in Cookies' : f.key = e.key => f = e
      BY <1>12, <1>13, <2>2
    <3>3. \A r \in Rids : <<k, r>> \notin sent
      BY <1>1, <1>2 DEF KeysAreIssued
    <3>4. \A t \in inbox' : t.sid = NextID /\ Live(t)' => t.rid = rid
      BY <1>5, <1>6
    <3>5. \A p \in Pages' : p.sid = NextID => ~(p.at > e.at)
      <4> SUFFICES ASSUME NEW p \in eventQueue', p.type = "Page", p.sid = NextID PROVE ~(p.at > e.at)
        BY DEF Pages
      <4>1. p \in eventQueue
        BY <1>3
      <4>2. p.at \in Nat /\ p.at <= tail
        BY <1>1, <4>1 DEF EventsAreNumbered, TypeOK, Events, PageEvents, CookieEvents
      <4> QED BY <2>2, <4>2
    <3> QED BY <1>2, <2>2, <3>1, <3>2, <3>3, <3>4, <3>5
  <2> QED BY <1>12, <2>1, <2>2
<1> QED BY <1>8, <1>9, <1>10, <1>11, <1>14 DEF KInv

\* processEvents() writes a response: the keys queued before the page go with it.
LEMMA PageStep ==
    ASSUME IInv, KInv, TypeOK', UNCHANGED <<sessionVars, sessionKeys, creator, tail, inbox>>,
           NEW page \in Pages, SendPage(page)
    PROVE  KInv'
<1> USE DEF sessionVars
<1>1. /\ TypeOK /\ OneKeyPerSession
      /\ EventsAreNumbered /\ AnswersAreOwn /\ KeysAreUnsent /\ KeysAreIssued /\ KeyGoesToCreator
  BY DEF IInv, KInv
<1>2. eventQueue' \subseteq eventQueue /\ \A e \in CookiesFor(page) : e \in Cookies /\ e \notin eventQueue'
  BY DEF SendPage, CookiesFor, Cookies
<1>3. \A e \in CookiesFor(page) : e.sid = page.sid /\ e.at < page.at
  BY DEF CookiesFor
<1>4. \A k \in Keys, r \in Rids : <<k, r>> \in sent' =>
          \/ <<k, r>> \in sent
          \/ r = page.rid /\ \E e \in CookiesFor(page) : e.key = k
  BY DEF SendPage
<1>5. \A e \in Cookies : e.key \in Keys /\ e.at \in Nat
  BY <1>1 DEF Cookies, TypeOK, Events, CookieEvents, PageEvents
<1>6. page.rid \in Rids /\ page.at \in Nat
  BY <1>1 DEF Pages, TypeOK, Events, CookieEvents, PageEvents
<1>7. EventsAreNumbered'
  BY <1>1, <1>2 DEF EventsAreNumbered
<1>8. AnswersAreOwn'
  BY <1>1 DEF AnswersAreOwn, Live, IsFree
<1>9. KeysAreIssued'
  BY <1>1, <1>2, <1>4 DEF KeysAreIssued, KeysAreUnsent
<1>10. KeyGoesToCreator'
  <2> SUFFICES ASSUME NEW k \in Keys, NEW r \in Rids, <<k, r>> \in sent', sessionKeys[k] # 0
               PROVE  creator[k] = r
    BY DEF KeyGoesToCreator
  <2>1. CASE <<k, r>> \in sent
    BY <1>1, <2>1 DEF KeyGoesToCreator
  <2>2. ASSUME NEW e \in CookiesFor(page), e.key = k, r = page.rid
        PROVE  creator[k] = r
    <3>1. e \in Cookies /\ page.sid = e.sid /\ page.at > e.at
      BY <1>2, <1>3, <1>5, <1>6
    <3> QED BY <1>1, <2>2, <3>1 DEF KeysAreUnsent
  <2> QED BY <1>4, <2>1, <2>2
<1>11. KeysAreUnsent'
  <2>1. Cookies' \subseteq Cookies /\ Pages' \subseteq Pages
    BY <1>2 DEF Cookies, Pages
  <2>2. ASSUME NEW e \in Cookies', NEW r \in Rids, <<e.key, r>> \in sent'
        PROVE  <<e.key, r>> \in sent
    <3> SUFFICES ASSUME NEW f \in CookiesFor(page), f.key = e.key PROVE FALSE
      BY <1>4, <1>5, <2>1, <2>2
    <3>1. f = e
      BY <1>1, <1>2, <2>1 DEF KeysAreUnsent
    <3> QED BY <1>2, <3>1 DEF Cookies
  <2>3. \A t \in inbox : Live(t)' <=> Live(t)
    BY DEF Live
  <2> QED BY <1>1, <2>1, <2>2, <2>3 DEF KeysAreUnsent
<1> QED BY <1>7, <1>8, <1>9, <1>10, <1>11 DEF KInv

LEMMA KInvStep == IInv /\ KInv /\ [Next]_vars => KInv'
<1> SUFFICES ASSUME IInv, KInv, [Next]_vars PROVE KInv'
  OBVIOUS
<1> USE DEF sessionVars, httpVars
<1>1. TypeOK /\ TypeOK'
  BY TypeOKStep DEF IInv
<1>2. ASSUME UNCHANGED <<eventQueue, tail, creator, inbox, sent, maxID>>,
             UNCHANGED <<sessionKeys, freeList>>,
             \A id \in Ids : sessions'[id] \in {sessions[id], Absent},
             \A s \in Services : object[s] = "dead" => object'[s] = "dead"
      PROVE  KInv'
  BY <1>1, <1>2, EndingStep DEF IsFree
<1>3. CASE RunDeferredDelete /\ UNCHANGED httpVars
  <2>1. \A s \in Services : object[s] = "dead" => object'[s] = "dead"
    BY <1>1, <1>3 DEF RunDeferredDelete, TypeOK
  <2> QED BY <1>2, <1>3, <2>1 DEF RunDeferredDelete
<1>4. CASE SessionDestroyed
  <2>1. PICK id \in Ids : Head(posted) = DestroyedNotice(id)
    <3>1. Head(posted) \in PostedEvents /\ Head(posted).op = "destroyed"
      BY <1>1, <1>4, HeadTailProperties DEF SessionDestroyed, DeliverDestroyed, TypeOK
    <3> QED BY <3>1 DEF PostedEvents, DeferredDelete, DestroyedNotice, ProcessEventsCall
  <2>2. Head(posted).arg = id /\ UNCHANGED <<eventQueue, tail, creator, inbox, sent, maxID, object>>
    BY <1>4, <2>1 DEF DestroyedNotice, SessionDestroyed, DeliverDestroyed
  <2>3. \A k \in Keys : sessionKeys'[k] \in {sessionKeys[k], 0}
    BY <1>1, <1>4 DEF SessionDestroyed, RemoveKeyOf, TypeOK
  <2>4. CASE ~Frees(id)
    <3>1. UNCHANGED <<sessions, freeList>>
      BY <1>4, <2>2, <2>4 DEF SessionDestroyed, DeliverDestroyed, ReleaseID
    <3> QED BY <1>1, <2>2, <2>3, <3>1, EndingStep DEF IsFree
  <2>5. CASE Frees(id)
    <3>1. freeList' = Append(freeList, id) /\ sessions' = [sessions EXCEPT ![id] = Absent]
      BY <1>4, <2>2, <2>5 DEF SessionDestroyed, DeliverDestroyed, ReleaseID
    <3>2. \A i \in Ids : sessions'[i] \in {sessions[i], Absent}
      BY <1>1, <3>1 DEF TypeOK
    <3>3. \A i \in Ids : IsFree(i)' => IsFree(i) \/ i = id
      BY <1>1, <3>1, AppendProperties, LenProperties DEF IsFree, TypeOK
    <3>4. 1 \in DOMAIN posted /\ posted[1] = DestroyedNotice(id)
      BY <1>1, <1>4, <2>1, LenProperties, EmptySeq, HeadTailProperties
         DEF SessionDestroyed, DeliverDestroyed, TypeOK
    <3>5. sessions[id] \in Services /\ object[sessions[id]] = "dead" /\ id # 0
      BY <2>1, <2>5, <3>4 DEF IInv, NoticeHitsOwnSession, Frees, Ids
    <3>6. \A t \in inbox : t.sid = id => ~Live(t)
      BY <3>5, WebSessionsAssumption DEF KInv, AnswersAreOwn, Live
    <3> QED BY <1>1, <2>2, <2>3, <3>2, <3>3, <3>6, EndingStep
  <2> QED BY <2>4, <2>5
<1>5. CASE ProcessEvents
  <2>1. UNCHANGED <<sessionVars, sessionKeys, creator, tail, inbox>>
    BY <1>5 DEF ProcessEvents
  <2>2. CASE Pages = {}
    BY <1>2, <1>5, <2>1, <2>2 DEF ProcessEvents
  <2>3. ASSUME NEW page \in Pages, SendPage(page)
        PROVE  KInv'
    BY <1>1, <2>1, <2>3, PageStep
  <2> QED BY <1>5, <2>2, <2>3 DEF ProcessEvents
<1>6. ASSUME NEW d \in Devices, NEW k \in Keys, RequestWithKey(d, k)
      PROVE KInv'
  <2> DEFINE sid == sessionKeys[k]
  <2>1. sid \in Ids /\ sessions[sid] \in Services \cup {NoService, Absent}
    BY <1>1, <1>6 DEF RequestWithKey, TypeOK
  <2>3. Dispatch(d, sid, sessions[sid], <<>>)
    BY <1>6 DEF RequestWithKey
  <2> HIDE DEF sid
  <2>4. /\ tail \in Nat /\ tail <= tail' /\ sent' = sent
        /\ \A e \in eventQueue' : e \notin eventQueue =>
                 e.at > tail /\ e.at <= tail' /\ e.type = "Page" /\ e.sid = 0
        /\ \A t \in inbox' : t \notin inbox =>
                 /\ t.sid = sid
                 /\ t.svc = IF sessions[sid] \in Services THEN sessions[sid] ELSE Static
    BY <1>1, <2>1, <2>3, AddedPlainRequest
  <2>5. \A t \in inbox' : t \notin inbox => sessions[t.sid] \in {t.svc, NoService, Absent}
    BY <2>1, <2>4
  <2>6. \E r \in Rids : <<k, r>> \in sent
    BY <1>6 DEF RequestWithKey
  <2> QED BY <1>1, <1>6, <2>4, <2>5, <2>6, NoSessionStep DEF RequestWithKey, sid
<1>7. ASSUME NEW d \in Devices, NEW s \in Services \cup {NoService}, NEW k \in Keys,
             RequestCreatesSession(d, s, k)
      PROVE KInv'
  <2> DEFINE cookies == <<StoreCookie(NextID, k)>>
  <2>1. NewSession(s, k, NextRequestID) /\ NextID \in Ids /\ Dispatch(d, NextID, s, cookies)
    BY <1>1, <1>7, CreateServiceType DEF RequestCreatesSession, NewSession
  <2>2. StoreCookie(NextID, k) \in CookieEvents
    BY <2>1 DEF StoreCookie, CookieEvents
  <2>3. /\ cookies \in Seq(CookieEvents) /\ DOMAIN cookies = {1}
        /\ cookies[1].sid = NextID /\ cookies[1].key = k
    BY <2>2 DEF StoreCookie
  <2>4. NextRequestID \in 1 .. NoRequest
    BY <1>1, <2>1, LenProperties DEF Dispatch, NextRequestID, NoRequest, TypeOK, HttpSessionsAssumption
  <2> HIDE DEF cookies
  <2>5. /\ tail \in Nat /\ tail <= tail' /\ sent' = sent
        /\ \A e \in eventQueue' : e \notin eventQueue =>
                 /\ e.at > tail /\ e.at <= tail'
                 /\ \/ e.type = "Page" /\ e.sid = 0
                    \/ e.at = tail + 1 /\ e.type = "StoreCookie" /\ e.sid = NextID /\ e.key = k
        /\ \A t \in inbox' : t \notin inbox =>
                 t.sid = NextID /\ t.rid = NextRequestID /\ (t.svc = s \/ s = NoService)
    BY <1>1, <2>1, <2>3, AddedRequest
  <2> QED BY <1>1, <2>1, <2>4, <2>5, NewKeyStep
<1>8. ASSUME NEW d \in Devices, RequestWithoutSession(d)
      PROVE KInv'
  <2>2. Dispatch(d, 0, NoService, <<>>)
    BY <1>8 DEF RequestWithoutSession
  <2>3. /\ tail \in Nat /\ tail <= tail' /\ sent' = sent
        /\ \A e \in eventQueue' : e \notin eventQueue =>
                 e.at > tail /\ e.at <= tail' /\ e.type = "Page" /\ e.sid = 0
        /\ \A t \in inbox' : t \notin inbox => t.sid = 0
    BY <1>1, <2>2, AddedPlainRequest
  <2> QED BY <1>1, <1>8, <2>3, NoSessionStep DEF RequestWithoutSession
<1>9. ASSUME NEW d \in Devices, Disconnected(d) \/ DeleteDevice(d)
      PROVE KInv'
  BY <1>2, <1>9 DEF Disconnected, DeleteDevice
<1>10. ASSUME NEW s \in Services \cup {NoService}, NEW k \in Keys, ApplicationNewSession(s, k)
       PROVE KInv'
  <2> DEFINE evs == <<StoreCookie(NextID, k)>>
  <2>1. NewSession(s, k, NoRequest) /\ NextID \in Ids /\ PostEvents(evs) /\ UNCHANGED <<inbox, sent>>
    BY <1>1, <1>10, CreateServiceType DEF ApplicationNewSession, NewSession
  <2>2. StoreCookie(NextID, k) \in Events
    BY <2>1 DEF StoreCookie, CookieEvents, Events
  <2>3. /\ evs \in Seq(Events) /\ DOMAIN evs = {1}
        /\ evs[1].sid = NextID /\ evs[1].key = k /\ evs[1].type = "StoreCookie"
    BY <2>2 DEF StoreCookie
  <2>4. NoRequest \in 1 .. NoRequest
    BY HttpSessionsAssumption DEF NoRequest
  <2> HIDE DEF evs
  <2>5. /\ tail \in Nat /\ tail <= tail'
        /\ \A e \in eventQueue' : e \notin eventQueue =>
                 /\ e.at > tail /\ e.at <= tail'
                 /\ e.at = tail + 1 /\ e.type = "StoreCookie" /\ e.sid = NextID /\ e.key = k
    BY <1>1, <2>1, <2>3, AddedEvents
  <2> QED BY <1>1, <2>1, <2>4, <2>5, NewKeyStep
<1>11. ASSUME NEW t \in inbox, Respond(t)
       PROVE KInv'
  <2> DEFINE evs == <<Page(t.sid, t.rid)>>
  <2>1. PostEvents(evs) /\ inbox' \subseteq inbox /\ Live(t)
        /\ UNCHANGED <<sessionVars, sessionKeys, creator, sent>>
    BY <1>11 DEF Respond, Live
  <2>2. t.sid \in Ids \cup {0} /\ t.rid \in Rids
    BY <1>1 DEF TypeOK, Assignments
  <2>3. evs \in Seq(Events)
    BY <2>2, SingleEvents
  <2>4. DOMAIN evs = {1} /\ evs[1].sid = t.sid /\ evs[1].rid = t.rid /\ evs[1].type = "Page"
    BY DEF Page
  <2> HIDE DEF evs
  <2>5. /\ tail \in Nat /\ tail <= tail'
        /\ \A e \in eventQueue' : e \notin eventQueue =>
                 e.at > tail /\ e.at <= tail' /\ e.type = "Page" /\ e.sid = t.sid /\ e.rid = t.rid
    BY <1>1, <2>1, <2>3, <2>4, AddedEvents
  <2> QED BY <1>1, <2>1, <2>5, NoSessionStep
<1>12. ASSUME NEW id \in Ids, CloseSession(id), UNCHANGED httpVars
       PROVE KInv'
  <2>1. \A i \in Ids : sessions'[i] \in {sessions[i], Absent}
    BY <1>1, <1>12 DEF CloseSession, TypeOK
  <2>2. \A s \in Services : object[s] = "dead" => object'[s] = "dead"
    BY <1>1, <1>12 DEF CloseSession, DeleteLater, TypeOK
  <2> QED BY <1>2, <1>12, <2>1, <2>2 DEF CloseSession
<1>13. ASSUME NEW s \in Services, ServiceDeletesItself(s), UNCHANGED httpVars
       PROVE KInv'
  <2>1. \A u \in Services : object[u] = "dead" => object'[u] = "dead"
    BY <1>1, <1>13 DEF ServiceDeletesItself, DeleteLater, TypeOK
  <2> QED BY <1>2, <1>13, <2>1 DEF ServiceDeletesItself
<1>14. CASE UNCHANGED vars
  BY <1>2, <1>14 DEF vars
<1> QED BY <1>3, <1>4, <1>5, <1>6, <1>7, <1>8, <1>9, <1>10, <1>11, <1>12, <1>13, <1>14
        DEF Next, EventLoop, Browser, Application

\* The key of a session that exists went only to the browser whose request
\* created the session, whatever was queued, freed and reused in between.
THEOREM KeysGoToCreators == Spec => []KeyGoesToCreator
<1>1. Init => KInv
  BY DEF Init, KInv, EventsAreNumbered, AnswersAreOwn, KeysAreUnsent, KeysAreIssued,
         KeyGoesToCreator, Cookies, Pages
<1>2. KInv => KeyGoesToCreator
  BY DEF KInv
<1> QED BY <1>1, <1>2, KInvStep, IInvHolds, PTL DEF Spec
=============================================================================
