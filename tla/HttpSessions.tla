---------------------------- MODULE HttpSessions ----------------------------
(***************************************************************************)
(* QxtHttpSessionManager on top of QxtAbstractWebSessionManager, with the  *)
(* request table of QxtAbstractHttpConnector.                              *)
(*                                                                         *)
(* A request arrives on a connection, is given a request ID and a session  *)
(* (looked up by its cookie, created, or 0), and is dispatched to the      *)
(* session's service or to the static service.  The service answers with a *)
(* page event.  processEvents(), always called through the event loop of   *)
(* the main thread, takes the first page of the queue, adds the cookies    *)
(* queued before it for the same session, and writes the response.         *)
(***************************************************************************)
EXTENDS WebSessions, FiniteSets

CONSTANTS
    Keys,         \* session keys (UUIDs)
    NoKey,        \* a request with no session cookie, or an unknown value
    Devices,      \* connections from browsers
    Static,       \* the static content service, or NoService
    AutoCreate,   \* autoCreateSession()
    MaxRequests   \* bound: how many requests arrive

ASSUME HttpSessionsAssumption ==
    /\ NoKey \notin Keys
    /\ Static \notin Services \cup {Absent}
    /\ AutoCreate \in BOOLEAN
    /\ MaxRequests \in Nat

VARIABLES
    sessionKeys,      \* key -> session ID, 0 when the key is not in the table
    creator,          \* history: key -> 0 until it is issued, then the request
                      \* that created the session (MaxRequests + 1: no request)
    eventQueue,       \* posted web events; "at" orders them, oldest first
    tail,             \* how many web events were ever posted
    pendingRequests,  \* pairs <<session ID, request ID>>
    requests,         \* request ID -> device, or NoService once removed
    device,           \* connection -> "open", "closing" or "deleted"
    inbox,            \* requests a service still has to answer
    sent              \* history: <<key, request>> for each key sent

httpVars == <<sessionKeys, creator, eventQueue, tail, pendingRequests, requests,
              device, inbox, sent>>
vars == <<sessionVars, posted, up, httpVars>>

NoRequest == MaxRequests + 1
Rids == 1 .. MaxRequests

\* Web events; "at" is the place in the queue, given by PostEvents.
Page(sid, rid) == [at |-> 0, type |-> "Page", sid |-> sid, rid |-> rid, key |-> NoKey]
StoreCookie(sid, k) == [at |-> 0, type |-> "StoreCookie", sid |-> sid, rid |-> 0, key |-> k]

PageEvents == [at : Nat, type : {"Page"}, sid : Ids \cup {0}, rid : Rids, key : {NoKey}]
CookieEvents == [at : Nat, type : {"StoreCookie"}, sid : Ids, rid : {0}, key : Keys]
Events == PageEvents \cup CookieEvents

Assignments == [svc : Services \cup {Static}, sid : Ids \cup {0}, rid : Rids]

Init ==
    /\ SessionsInit
    /\ sessionKeys = [k \in Keys |-> 0]
    /\ creator = [k \in Keys |-> 0]
    /\ eventQueue = {}
    /\ tail = 0
    /\ pendingRequests = {}
    /\ requests = <<>>
    /\ device = [d \in Devices |-> "open"]
    /\ inbox = {}
    /\ sent = {}

-----------------------------------------------------------------------------
\* Faulty: no call is queued while other events wait already.
PostEventsLazily(evs) ==
    /\ eventQueue' = eventQueue \cup {[evs[i] EXCEPT !.at = tail + i] : i \in DOMAIN evs}
    /\ tail' = tail + Len(evs)
    /\ posted' = IF eventQueue # {} THEN posted
                 ELSE posted \o [i \in DOMAIN evs |-> ProcessEventsCall]

\* postEvent(), for each of evs: append it and queue a processEvents() call.
PostEvents(evs) ==
    /\ eventQueue' = eventQueue \cup {[evs[i] EXCEPT !.at = tail + i] : i \in DOMAIN evs}
    /\ tail' = tail + Len(evs)
    /\ posted' = posted \o [i \in DOMAIN evs |-> ProcessEventsCall]

\* newSession(): a service, a key no session has, and the StoreCookie event
\* that carries the key (posted by the callers below).  createUuid() is
\* assumed never to return the same value twice.
NewSession(s, k, rid) ==
    /\ creator[k] = 0
    /\ CreateService(s)
    /\ sessionKeys' = [sessionKeys EXCEPT ![k] = NextID]
    /\ creator' = [creator EXCEPT ![k] = rid]

\* The application may call newSession() itself.
ApplicationNewSession(s, k) ==
    /\ up
    /\ NewSession(s, k, NoRequest)
    /\ PostEvents(<<StoreCookie(NextID, k)>>)
    /\ UNCHANGED <<up, pendingRequests, requests, device, inbox, sent>>

NextRequestID == Len(requests) + 1

\* The end of incomingRequest(): note the request as pending and hand it to
\* the session's service, or to the static service.  With neither, an error
\* page is posted and the null service is used all the same.
Dispatch(d, sid, service, cookies) ==
    LET rid == NextRequestID
        target == IF service \in Services THEN service ELSE Static
    IN  /\ device[d] = "open"
        /\ rid <= MaxRequests
        /\ requests' = Append(requests, d)
        /\ pendingRequests' = pendingRequests \cup {<<sid, rid>>}
        /\ IF target = NoService
           THEN /\ PostEvents(Append(cookies, Page(0, rid)))
                /\ up' = FALSE
                /\ UNCHANGED inbox
           ELSE /\ PostEvents(cookies)
                /\ up' = (target \in Services => object'[target] # "dead")
                /\ inbox' = inbox \cup {[svc |-> target, sid |-> sid, rid |-> rid]}
        /\ UNCHANGED <<device, sent>>

\* incomingRequest() with a cookie that names a session.
RequestWithKey(d, k) ==
    /\ up
    /\ sessionKeys[k] # 0
    /\ \E r \in Rids : <<k, r>> \in sent
    /\ UNCHANGED <<sessionVars, sessionKeys, creator>>
    /\ Dispatch(d, sessionKeys[k], sessions[sessionKeys[k]], <<>>)

\* incomingRequest() without one, from an HTTP/1.x client.
RequestCreatesSession(d, s, k) ==
    /\ up
    /\ AutoCreate
    /\ NewSession(s, k, NextRequestID)
    /\ Dispatch(d, NextID, s, <<StoreCookie(NextID, k)>>)

\* incomingRequest() without one, from an HTTP/0.9 client or with automatic
\* sessions turned off.
RequestWithoutSession(d) ==
    /\ up
    /\ UNCHANGED <<sessionVars, sessionKeys, creator>>
    /\ Dispatch(d, 0, NoService, <<>>)

\* A service answers a request it was given; QxtAbstractWebService requires
\* exactly one page event per request.
Respond(t) ==
    /\ up
    /\ t.svc \in Services => object[t.svc] # "dead"
    /\ inbox' = inbox \ {t}
    /\ PostEvents(<<Page(t.sid, t.rid)>>)
    /\ UNCHANGED <<sessionVars, up, sessionKeys, creator, pendingRequests,
                   requests, device, sent>>

\* disconnected(), called for the connection's aboutToClose() and again for its
\* disconnected(): one of the request IDs that map to it, whichever QHash::key()
\* finds, is removed, and deleteLater() is called on the device.
Disconnected(d) ==
    /\ up
    /\ device[d] # "deleted"
    /\ device' = [device EXCEPT ![d] = "closing"]
    /\ LET ids == {r \in DOMAIN requests : requests[r] = d} IN
       IF ids = {}
       THEN UNCHANGED requests
       ELSE \E r \in ids : requests' = [requests EXCEPT ![r] = NoService]
    /\ UNCHANGED <<sessionVars, posted, up, sessionKeys, creator, eventQueue,
                   tail, pendingRequests, inbox, sent>>

\* A later turn of the event loop deletes the device.
DeleteDevice(d) ==
    /\ up
    /\ device[d] = "closing"
    /\ device' = [device EXCEPT ![d] = "deleted"]
    /\ UNCHANGED <<sessionVars, posted, up, sessionKeys, creator, eventQueue,
                   tail, pendingRequests, requests, inbox, sent>>

KeepKeyOf(id) == UNCHANGED sessionKeys \* faulty: the key of a dead session stays

\* HTTP housekeeping of sessionDestroyed(id): remove the key, if any, that
\* QHash::key() finds for the ID.
RemoveKeyOf(id) ==
    LET ks == {k \in Keys : sessionKeys[k] = id} IN
    IF ks = {}
    THEN UNCHANGED sessionKeys
    ELSE \E k \in ks : sessionKeys' = [sessionKeys EXCEPT ![k] = 0]

SessionDestroyed ==
    /\ DeliverDestroyed
    /\ LET id == Head(posted).arg IN
       IF Frees(id) THEN RemoveKeyOf(id) ELSE UNCHANGED sessionKeys
    /\ UNCHANGED <<creator, eventQueue, tail, pendingRequests, requests, device, inbox, sent>>

-----------------------------------------------------------------------------
Pages == {e \in eventQueue : e.type = "Page"}
IsFirstPage(page) == page \in Pages /\ \A f \in Pages : page.at <= f.at

CookiesBefore(page) == {e \in eventQueue : e.type = "StoreCookie" /\ e.at < page.at} \* faulty

\* The cookie events that go out with a page.
CookiesFor(page) ==
    {e \in eventQueue : e.type = "StoreCookie" /\ e.sid = page.sid /\ e.at < page.at}

HandledSession(page) == {p \in pendingRequests : p[1] = page.sid} \* faulty

\* The request event that is deleted once its page was handled.
Handled(page) == {<<page.sid, page.rid>>}

\* The whole of processEvents() once it has found its page.  A page whose
\* request has no device any more is dropped; a device that was deleted but is
\* still in the request table is used.
SendPage(page) ==
    LET d == requests[page.rid]
        cookies == CookiesFor(page)
    IN  /\ eventQueue' = eventQueue \ (cookies \cup {page})
        /\ posted' = IF eventQueue' = {} THEN Tail(posted)
                     ELSE Append(Tail(posted), ProcessEventsCall)
        /\ pendingRequests' = pendingRequests \ Handled(page)
        /\ up' = (d \in Devices => device[d] # "deleted")
        /\ sent' = IF d = NoService THEN sent
                   ELSE sent \cup {<<e.key, page.rid>> : e \in cookies}

ProcessEvents ==
    /\ up
    /\ posted # <<>>
    /\ Head(posted).op = "process"
    /\ IF Pages = {}
       THEN /\ posted' = Tail(posted)
            /\ UNCHANGED <<eventQueue, pendingRequests, up, sent>>
       ELSE \E page \in Pages : IsFirstPage(page) /\ SendPage(page)
    /\ UNCHANGED <<sessionVars, sessionKeys, creator, tail, requests, device, inbox>>

-----------------------------------------------------------------------------
EventLoop ==
    \/ RunDeferredDelete /\ UNCHANGED httpVars
    \/ SessionDestroyed
    \/ ProcessEvents
    \/ \E d \in Devices : DeleteDevice(d)

Browser ==
    \E d \in Devices :
        \/ \E k \in Keys : RequestWithKey(d, k)
        \/ \E s \in Services \cup {NoService}, k \in Keys : RequestCreatesSession(d, s, k)
        \/ RequestWithoutSession(d)
        \/ Disconnected(d)

Application ==
    \/ \E s \in Services \cup {NoService}, k \in Keys : ApplicationNewSession(s, k)
    \/ \E t \in inbox : Respond(t)
    \/ \E id \in Ids : CloseSession(id) /\ UNCHANGED httpVars
    \/ \E s \in Services : ServiceDeletesItself(s) /\ UNCHANGED httpVars

Next == EventLoop \/ Browser \/ Application

\* The event loop of the main thread keeps running.
Spec == Init /\ [][Next]_vars /\ WF_vars(EventLoop)

-----------------------------------------------------------------------------
TypeOK ==
    /\ sessions \in [Ids -> Services \cup {NoService, Absent}]
    /\ freeList \in Seq(Ids)
    /\ maxID \in 1 .. MaxID + 1
    /\ object \in [Services -> {"unborn", "alive", "doomed", "dead"}]
    /\ bound \in [Services -> Seq(Ids)]
    /\ posted \in Seq(PostedEvents)
    /\ up \in BOOLEAN
    /\ sessionKeys \in [Keys -> Ids \cup {0}]
    /\ creator \in [Keys -> 0 .. NoRequest]
    /\ eventQueue \subseteq Events
    /\ tail \in Nat
    /\ pendingRequests \subseteq (Ids \cup {0}) \X Rids
    /\ requests \in Seq(Devices \cup {NoService})
    /\ Len(requests) <= MaxRequests
    /\ device \in [Devices -> {"open", "closing", "deleted"}]
    /\ inbox \subseteq Assignments
    /\ sent \subseteq Keys \X Rids

\* The pool of session IDs (getNextID, sessionDestroyed): the free list holds
\* no ID twice, none that a session uses, none that was never allocated, and
\* none that a destroyed() notice still to come could free a second time.
FreeIdsAreUnused ==
    \A i \in DOMAIN freeList :
        /\ freeList[i] < maxID
        /\ sessions[freeList[i]] = Absent
        /\ \A j \in DOMAIN freeList : freeList[i] = freeList[j] => i = j
        /\ \A n \in DOMAIN posted : posted[n] # DestroyedNotice(freeList[i])
        /\ \A s \in Services : object[s] # "dead" =>
              \A n \in DOMAIN bound[s] : bound[s][n] # freeList[i]

\* A queued sessionDestroyed(id) that will free a session frees the session
\* whose service died, never a later session that was given the same ID.
NoticeHitsOwnSession ==
    \A n \in DOMAIN posted : \A id \in Ids :
        posted[n] = DestroyedNotice(id) /\ sessions[id] # Absent =>
            sessions[id] \in Services /\ object[sessions[id]] = "dead"

\* No session shares its ID with the key of another: a browser whose session
\* ended is never served by the session that reuses the ID.
OneKeyPerSession ==
    \A k, l \in Keys : sessionKeys[k] = sessionKeys[l] /\ sessionKeys[k] # 0 => k = l

\* A page that waits in the event queue has a processEvents() call coming.
PagesAreScheduled ==
    Pages # {} => \E n \in DOMAIN posted : posted[n] = ProcessEventsCall

\* The request event given to a service stays valid until its response has
\* been processed (pageRequestedEvent's contract).
RequestStaysValid ==
    up => /\ \A t \in inbox : <<t.sid, t.rid>> \in pendingRequests
          /\ \A e \in Pages : <<e.sid, e.rid>> \in pendingRequests

\* The key of a session that exists is sent only with the response to the
\* request that created the session.
KeyGoesToCreator ==
    \A k \in Keys, r \in Rids :
        <<k, r>> \in sent /\ sessionKeys[k] # 0 => creator[k] = r

\* getNextID() never hands out the ID of a session in use, so the entry of a
\* session is never overwritten: it only leaves the table.
EntryIsNeverReplaced ==
    [][\A id \in Ids : sessions[id] # Absent =>
           sessions'[id] \in {sessions[id], Absent}]_sessions

\* Every page posted is taken out of the queue by processEvents(), unless the
\* process dies first.
PagesAreProcessed ==
    \A r \in Rids :
        (\E e \in Pages : e.rid = r) ~> (~up \/ \A e \in Pages : e.rid # r)

\* sessionKey(): "If the specified session does not exist, returns a null
\* QString" - once all queued events are handled, every key in the table
\* names a session that exists.
KeysNameSessions ==
    posted = <<>> =>
        \A k \in Keys : sessionKeys[k] # 0 => sessions[sessionKeys[k]] # Absent

\* processEvents(): "If no device is returned, the request was aborted" - no
\* request ID maps to a device that was deleted.
AbortedRequestHasNoDevice ==
    \A r \in DOMAIN requests : requests[r] \in Devices => device[requests[r]] # "deleted"
=============================================================================
