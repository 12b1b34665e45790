------------------------------ MODULE Channels ------------------------------
(***************************************************************************)
(* Who hears whom: the names of the channels (redis_store.py), the groups  *)
(* a login stores in the session (models.py), what a websocket may ask for *)
(* and gets (wsgi_server.py, django_runserver.py, subscriber.py), whom a   *)
(* view's publisher addresses, and fetch_message, which looks for a        *)
(* persisted message in one channel after the other (publisher.py).        *)
(* One facility; how a publication proceeds is the subject of MessageRelay *)
(* and takes one step here.  Python 3.                                     *)
(***************************************************************************)
EXTENDS Naturals, Sequences

CONSTANTS
  Browser, User, Group,
  Grouped,      \* the users whose model has groups
  Key,          \* session keys
  Process,      \* processes that serve websockets or views
  Address,      \* where the object SELF lies in the memory of each
  Request,      \* requests: for a websocket, or to a view that calls fetch_message
  Environ,      \* their handshakes: [get, http11, upgrade, version, key]
  Wish,         \* the sets of channels and flags they ask for
  Asked,        \* the audiences that messages are fetched for
  Audience,     \* whom views publish for: [broadcast, groups, users, sessions, bare]
  SELF,         \* the magic item
  Nobody,       \* an AnonymousUser
  None,         \* no session key, or no session
  MaxMessages   \* bound on the messages published

\* An item SELF that nothing is put in place of becomes part of the name as it is, with its
\* address.  SELF is made when the module is imported: workers forked later share the address.
Placeholder(p) == <<"SELF", Address[p]>>

Kind == {"session", "group", "user", "broadcast"}
PossibleChannels == {"subscribe", "publish"} \X Kind

ASSUME ChannelsAssumption ==
  /\ SELF \notin User \cup Group \cup Key
  /\ Nobody \notin User /\ None \notin Key /\ Grouped \subseteq User
  /\ Wish \subseteq SUBSET PossibleChannels /\ Asked \subseteq Kind \cup {"any"}
  /\ \A e \in Environ :
       /\ e.get \in BOOLEAN /\ e.http11 \in BOOLEAN /\ e.upgrade \in BOOLEAN
       /\ e.version \in {"none", "known", "other"}
       /\ e.key \in {"none", "garbled", "short", "good"}
  /\ \A a \in Audience :
       /\ a.broadcast \in BOOLEAN
       /\ a.groups \subseteq Group \cup {SELF} /\ a.users \subseteq User \cup {SELF}
       /\ a.sessions \subseteq Key \cup {SELF} /\ a.bare \subseteq Kind
  /\ \A p \in Process : Placeholder(p) \notin User \cup Group \cup Key \cup {None}
  /\ MaxMessages \in Nat

VARIABLES
  memberOf,  \* the groups of each user that has some, in the database
  sessions,  \* the session store: None, or the user and what login stored
  used,      \* the session keys given out so far
  cookie,    \* the session key each browser holds, or None
  conns,     \* the websockets asked for: None, the status of a refusal, or what was agreed
  store,     \* the message persisted on each channel; 0 for none
  messages,  \* history: whom the messages published so far were meant for
  seen,      \* history: the messages each websocket was sent
  atLogin,   \* history: the groups of the user at the last login with each session key
  fetches    \* the calls of fetch_message

vars == <<memberOf, sessions, used, cookie, conns, store, messages, seen, atLogin, fetches>>

-----------------------------------------------------------------------------
(* Requests.                                                               *)

NoSession == [user |-> Nobody, memberof |-> {}]
SessionOf(k) == IF k = None \/ sessions[k] = None THEN NoSession ELSE sessions[k]

\* What a request brings along; loaded is whether its session has been read.
RequestOf(b, p, loaded) ==
  [given |-> TRUE, key |-> cookie[b], user |-> SessionOf(cookie[b]).user,
   memberof |-> SessionOf(cookie[b]).memberof, process |-> p, loaded |-> loaded]
NoRequest(p) ==
  [given |-> FALSE, key |-> None, user |-> Nobody, memberof |-> {}, process |-> p, loaded |-> FALSE]

IsAuthenticated(r) == r.user # Nobody

\* History: the groups of who makes a request, at the login in force.
GroupsAtLogin(r) == IF IsAuthenticated(r) THEN atLogin[r.key] ELSE {}

-----------------------------------------------------------------------------
(* Names of channels.                                                      *)

Broadcast == <<"broadcast">>
Named(kind, names) == {<<kind, name>> : name \in names}

Wrap(names, mine) == (names \ {SELF}) \cup (IF SELF \in names THEN mine ELSE {})

WrapUsers(users, r) == Wrap(users, IF IsAuthenticated(r) THEN {r.user} ELSE {Placeholder(r.process)})

WrapGroups(groups, r) ==
  Wrap(groups, IF IsAuthenticated(r) THEN r.memberof ELSE {Placeholder(r.process)})

\* Mutant of KeyOf: the session of an anonymous user counts as not found.
KeyOfUsers(r) == IF r.loaded /\ SessionOf(r.key) = NoSession THEN None ELSE r.key

\* A session that is read and not found loses its key (Django's SessionStore).
KeyOf(r) == IF r.loaded /\ r.key # None /\ sessions[r.key] = None THEN None ELSE r.key

\* Groups and users come first: SELF among them has the session read.
WrapSessions(keys, r, reads) ==
  Wrap(keys, IF r.given THEN {KeyOf([r EXCEPT !.loaded = @ \/ reads])} ELSE {Placeholder(r.process)})

\* The deprecated forms without a list, which are True or a single name: a.bare is the set
\* of the arguments so given, True being {SELF}.  What is not the True of someone logged in
\* reaches the name basestring, which Python 3 does not have.
NameErrorRaised(a, r) ==
  \/ "group" \in a.bare /\ ~(a.groups = {SELF} /\ IsAuthenticated(r))
  \/ "user" \in a.bare /\ ~(a.users = {SELF} /\ IsAuthenticated(r))
  \/ "session" \in a.bare /\ ~(a.sessions = {SELF} /\ r.given)

MessageChannels(a, r) ==
  (IF a.broadcast THEN {Broadcast} ELSE {})
    \cup Named("group", WrapGroups(a.groups, r))
    \cup Named("user", WrapUsers(a.users, r))
    \cup Named("session", WrapSessions(a.sessions, r, SELF \in a.groups \cup a.users))

Name == Group \cup User \cup Key \cup {Nobody, None} \cup {Placeholder(p) : p \in Process}
Channel == {Broadcast} \cup ({"group", "user", "session"} \X Name)

\* The audience set_pubsub_channels makes of what was agreed: act is subscribe or publish.
Agreed(agreed, act) ==
  [broadcast |-> <<act, "broadcast">> \in agreed,
   groups    |-> IF <<act, "group">> \in agreed THEN {SELF} ELSE {},
   users     |-> IF <<act, "user">> \in agreed THEN {SELF} ELSE {},
   sessions  |-> IF <<act, "session">> \in agreed THEN {SELF} ELSE {},
   bare      |-> {}]

-----------------------------------------------------------------------------
Init ==
  /\ memberOf \in [Grouped -> SUBSET Group]
  /\ sessions = [k \in Key |-> None]
  /\ used = {}
  /\ cookie = [b \in Browser |-> None]
  /\ conns = [c \in Request |-> None]
  /\ store = [ch \in Channel |-> 0]
  /\ messages = <<>>
  /\ seen = [c \in Request |-> {}]
  /\ atLogin = [k \in Key |-> {}]
  /\ fetches = [c \in Request |-> None]

-----------------------------------------------------------------------------
(* Django's sessions and groups.                                           *)

\* Someone joins or leaves a group; nothing tells the sessions.
ChangeGroups(u, groups) ==
  /\ groups # memberOf[u]
  /\ memberOf' = [memberOf EXCEPT ![u] = groups]
  /\ UNCHANGED <<sessions, used, cookie, conns, store, messages, seen, atLogin, fetches>>

\* Mutant of StoredGroups: the groups the session has are kept.
StoredGroupsOnce(u, old) == IF u \in Grouped /\ old = {} THEN memberOf[u] ELSE old

\* store_groups_in_session, the receiver of user_logged_in; old is what the session had.
StoredGroups(u, old) == IF u \in Grouped THEN memberOf[u] ELSE old

\* Django's login keeps the session of who is logged in already, unless the password was
\* changed meanwhile; otherwise the browser gets a new key and the old session is gone.  What
\* the old session holds is kept, unless it is someone's whose session is given up.
Login(b, u, k) ==
  LET old == SessionOf(cookie[b])
      kept == IF old.user = Nobody \/ k = cookie[b] THEN old.memberof ELSE {}
  IN  /\ k \notin used \/ (k = cookie[b] /\ old.user = u)
      /\ used' = used \cup {k}
      /\ sessions' = [j \in Key |->
           IF j = k THEN [user |-> u, memberof |-> StoredGroups(u, kept)]
           ELSE IF j = cookie[b] THEN None ELSE sessions[j]]
      /\ cookie' = [cookie EXCEPT ![b] = k]
      /\ atLogin' = [atLogin EXCEPT ![k] = IF u \in Grouped THEN memberOf[u] ELSE {}]
      /\ UNCHANGED <<memberOf, conns, store, messages, seen, fetches>>

\* Someone not logged in is given a session.
BeginSession(b, k) ==
  /\ cookie[b] = None /\ k \notin used
  /\ used' = used \cup {k}
  /\ sessions' = [sessions EXCEPT ![k] = NoSession]
  /\ cookie' = [cookie EXCEPT ![b] = k]
  /\ UNCHANGED <<memberOf, conns, store, messages, seen, atLogin, fetches>>

\* The session ends, by a logout or by itself; only the former tells the browser.
EndSession(b, forget) ==
  /\ cookie[b] # None /\ sessions[cookie[b]] # None
  /\ sessions' = [sessions EXCEPT ![cookie[b]] = None]
  /\ cookie' = IF forget THEN [cookie EXCEPT ![b] = None] ELSE cookie
  /\ UNCHANGED <<memberOf, used, conns, store, messages, seen, atLogin, fetches>>

-----------------------------------------------------------------------------
(* Websockets.                                                             *)

\* The status a handshake is answered with: assure_protocol_requirements, the callback
\* WS4REDIS_ALLOWED_CHANNELS, and upgrade_websocket.  On Python 3 a key that is not
\* base64 raises no TypeError.
Answer(e, permitted) ==
  IF ~e.get \/ ~e.http11 \/ ~e.upgrade THEN 400
  ELSE IF ~permitted THEN 403
  ELSE IF e.version = "none" THEN 426
  ELSE IF e.version = "other" \/ e.key = "none" THEN 400
  ELSE IF e.key = "garbled" THEN 500
  ELSE IF e.key = "short" THEN 400
  ELSE 101

IsUnused(c) == conns[c] = None /\ fetches[c] = None
IsOpen(c) == conns[c] # None /\ conns[c].status = 101

\* Mutant of Loses: a request without a session has a key like any other.
LosesNever(b, agreed) == FALSE

\* Without a cookie the request has no session, and the channels of it cannot be named.
Loses(b, agreed) ==
  /\ cookie[b] = None
  /\ <<"publish", "session">> \in agreed \/ <<"subscribe", "session">> \in agreed

\* What is open after set_pubsub_channels: the publishers are named first.
Opened(b, r, agreed) ==
  LET reads == \E kind \in {"group", "user"} : <<"publish", kind>> \in agreed
  IN  [status |-> 101, browser |-> b, agreed |-> agreed,
       user |-> r.user, key |-> r.key, groups |-> GroupsAtLogin(r), process |-> r.process,
       stale |-> r.key # None /\ sessions[r.key] = None, since |-> Len(messages),
       speaks |-> MessageChannels(Agreed(agreed, "publish"), r),
       listens |-> MessageChannels(Agreed(agreed, "subscribe"), [r EXCEPT !.loaded = @ \/ reads])]

Refused(status) ==
  [status |-> status, browser |-> None, agreed |-> {}, user |-> Nobody, key |-> None, groups |-> {},
   process |-> None, stale |-> FALSE, since |-> Len(messages), speaks |-> {}, listens |-> {}]

\* A websocket request.  The callback leaves some of the wishes, or none by an exception,
\* and may have read the session.  The persisted messages come first.  Channels that cannot
\* be named are noticed after the upgrade, and the websocket is closed with 1001.
Connect(c, b, p, e, wish) ==
  /\ IsUnused(c)
  /\ \E permitted \in BOOLEAN, agreed \in SUBSET wish, loaded \in BOOLEAN :
       LET status == Answer(e, permitted)
           opened == Opened(b, RequestOf(b, p, loaded), agreed)
       IN  \/ /\ status = 101 /\ ~Loses(b, agreed)
              /\ conns' = [conns EXCEPT ![c] = opened]
              /\ seen' = [seen EXCEPT ![c] = {store[ch] : ch \in opened.listens} \ {0}]
           \/ /\ status # 101 \/ Loses(b, agreed)
              /\ conns' = [conns EXCEPT ![c] = Refused(IF status = 101 THEN 1001 ELSE status)]
              /\ seen' = [seen EXCEPT ![c] = {}]
  /\ UNCHANGED <<memberOf, sessions, used, cookie, store, messages, atLogin, fetches>>

-----------------------------------------------------------------------------
(* Messages.                                                               *)

\* Whom a message is meant for: SELF means the user, the session and the groups of who
\* publishes, if there are any.
Meant(a, r, groups) ==
  [broadcast |-> a.broadcast,
   groups    |-> Wrap(a.groups, groups),
   users     |-> Wrap(a.users, {r.user} \ {Nobody}),
   sessions  |-> Wrap(a.sessions, {r.key} \ {None}),
   anonymous |-> IF SELF \in a.groups \cup a.users /\ ~IsAuthenticated(r) THEN {Placeholder(r.process)} ELSE {},
   lost      |-> SELF \in a.sessions /\ (r.key = None \/ sessions[r.key] = None)]

\* publish_message, whose message may be persisted, on the channels chs.
PublishMessage(chs, meant) ==
  /\ Len(messages) < MaxMessages
  /\ messages' = Append(messages, meant)
  /\ seen' = [c \in Request |->
       IF IsOpen(c) /\ conns[c].listens \cap chs # {} THEN seen[c] \cup {Len(messages) + 1} ELSE seen[c]]
  /\ \E persist \in BOOLEAN :
       store' = [ch \in Channel |-> IF persist /\ ch \in chs THEN Len(messages) + 1 ELSE store[ch]]
  /\ UNCHANGED <<memberOf, sessions, used, cookie, conns, atLogin, fetches>>

\* A view's publisher, made with or without the request.
ViewPublishes(a, r) ==
  /\ ~NameErrorRaised(a, r)
  /\ PublishMessage(MessageChannels(a, r), Meant(a, r, GroupsAtLogin(r)))

\* A message of a browser goes to the channels of its websocket, which were named when
\* it was opened.
BrowserPublishes(c) ==
  /\ IsOpen(c) /\ conns[c].speaks # {}
  /\ PublishMessage(conns[c].speaks,
       Meant(Agreed(conns[c].agreed, "publish"),
             [NoRequest(conns[c].process) EXCEPT !.user = conns[c].user, !.key = conns[c].key],
             conns[c].groups))

Expire(ch) ==
  /\ store[ch] # 0
  /\ store' = [store EXCEPT ![ch] = 0]
  /\ fetches' = [c \in Request |->
       IF fetches[c] = None THEN None ELSE [fetches[c] EXCEPT !.lasting = @ \ {ch}]]
  /\ UNCHANGED <<memberOf, sessions, used, cookie, conns, messages, seen, atLogin>>

-----------------------------------------------------------------------------
(* fetch_message.                                                          *)

\* Mutant of FetchList: the groups are those of the database.
FetchListOfMember(r, audience) ==
  LET Asks(kind) == audience \in {kind, "any"}
  IN  << IF Asks("session") THEN {<<"session", KeyOf(r)>>} ELSE {},
         IF Asks("user") /\ IsAuthenticated(r) THEN {<<"user", r.user>>} ELSE {},
         IF Asks("group") /\ IsAuthenticated(r) THEN Named("group", StoredGroups(r.user, {})) ELSE {},
         IF Asks("broadcast") THEN {Broadcast} ELSE {} >>

\* The channels it will look into, in order; those of the groups in any order.
FetchList(r, audience) ==
  LET Asks(kind) == audience \in {kind, "any"}
  IN  << IF Asks("session") THEN {<<"session", KeyOf(r)>>} ELSE {},
         IF Asks("user") /\ IsAuthenticated(r) THEN {<<"user", r.user>>} ELSE {},
         IF Asks("group") /\ IsAuthenticated(r) THEN Named("group", r.memberof) ELSE {},
         IF Asks("broadcast") THEN {Broadcast} ELSE {} >>

FetchMessage(c, b, p, audience) ==
  /\ IsUnused(c)
  /\ \E loaded \in BOOLEAN :
       LET r == RequestOf(b, p, loaded)
           list == FetchList(r, audience)
       IN  fetches' = [fetches EXCEPT ![c] =
             [list |-> list, at |-> 1, todo |-> list[1], found |-> 0, from |-> None,
              user |-> r.user, key |-> r.key, groups |-> GroupsAtLogin(r),
              lasting |-> {ch \in UNION {list[i] : i \in 1..4} : store[ch] # 0}]]
  /\ UNCHANGED <<memberOf, sessions, used, cookie, conns, store, messages, seen, atLogin>>

\* Mutant of AfterGet: the search ends with the first channel.
AfterFirstGet(f, ch) == [f EXCEPT !.at = 5, !.found = store[ch], !.from = ch]

\* The search after one GET: what is found is returned.
AfterGet(f, ch) ==
  IF store[ch] # 0 THEN [f EXCEPT !.at = 5, !.found = store[ch], !.from = ch]
  ELSE [f EXCEPT !.todo = @ \ {ch}]

Get(c) ==
  /\ fetches[c] # None
  /\ LET f == fetches[c]
     IN  /\ f.at <= 4
         /\ \/ \E ch \in f.todo : fetches' = [fetches EXCEPT ![c] = AfterGet(f, ch)]
            \/ /\ f.todo = {}
               /\ fetches' = [fetches EXCEPT ![c].at = f.at + 1,
                                             ![c].todo = IF f.at = 4 THEN {} ELSE f.list[f.at + 1]]
  /\ UNCHANGED <<memberOf, sessions, used, cookie, conns, store, messages, seen, atLogin>>

\* A websocket closes and its subscriptions end (release), or fetch_message has returned.
End(c) ==
  /\ conns[c] # None \/ (fetches[c] # None /\ fetches[c].at = 5)
  /\ conns' = [conns EXCEPT ![c] = None]
  /\ seen' = [seen EXCEPT ![c] = {}]
  /\ fetches' = [fetches EXCEPT ![c] = None]
  /\ UNCHANGED <<memberOf, sessions, used, cookie, store, messages, atLogin>>

-----------------------------------------------------------------------------
Next ==
  \/ \E u \in Grouped, groups \in SUBSET Group : ChangeGroups(u, groups)
  \/ \E b \in Browser, u \in User, k \in Key : Login(b, u, k)
  \/ \E b \in Browser, k \in Key : BeginSession(b, k)
  \/ \E b \in Browser, forget \in BOOLEAN : EndSession(b, forget)
  \/ \E c \in Request, b \in Browser, p \in Process, e \in Environ, wish \in Wish : Connect(c, b, p, e, wish)
  \/ \E a \in Audience, b \in Browser, p \in Process, loaded \in BOOLEAN :
       ViewPublishes(a, RequestOf(b, p, loaded)) \/ ViewPublishes(a, NoRequest(p))
  \/ \E c \in Request : BrowserPublishes(c)
  \/ \E ch \in Channel : Expire(ch)
  \/ \E c \in Request, b \in Browser, p \in Process, audience \in Asked : FetchMessage(c, b, p, audience)
  \/ \E c \in Request : Get(c) \/ End(c)

Spec == Init /\ [][Next]_vars
-----------------------------------------------------------------------------
(* Properties.                                                             *)

\* Types; whoever is someone has a session, and so has a websocket on a session's channel.
TypeOK ==
  /\ memberOf \in [Grouped -> SUBSET Group]
  /\ \A k \in Key : sessions[k] # None =>
       sessions[k] \in [user : User \cup {Nobody}, memberof : SUBSET Group]
  /\ used \subseteq Key /\ cookie \in [Browser -> used \cup {None}]
  /\ \A k \in Key : sessions[k] # None => k \in used
  /\ \A c \in Request : conns[c] # None =>
       /\ conns[c].status \in {101, 400, 403, 426, 500, 1001}
       /\ conns[c].agreed \subseteq PossibleChannels /\ conns[c].groups \subseteq Group
       /\ conns[c].speaks \cup conns[c].listens \subseteq Channel
       /\ \A act \in {"publish", "subscribe"} :
            <<act, "session">> \in conns[c].agreed => conns[c].key \in used
       /\ conns[c].user # Nobody => conns[c].user \in User /\ conns[c].key \in used
  /\ store \in [Channel -> 0..Len(messages)]
  /\ Len(messages) <= MaxMessages
  /\ seen \in [Request -> SUBSET (1..Len(messages))]
  /\ atLogin \in [Key -> SUBSET Group]
  /\ \A c \in Request : fetches[c] # None =>
       /\ fetches[c].at \in 1..5 /\ fetches[c].found \in 0..Len(messages)
       /\ fetches[c].lasting \subseteq Channel

\* Whether a message is meant for someone with this user, this session key and these groups,
\* who takes part in these kinds of audience.
MeantFor(m, kinds, user, key, groups) ==
  \/ "broadcast" \in kinds /\ m.broadcast
  \/ "group" \in kinds /\ m.groups \cap groups # {}
  \/ "user" \in kinds /\ user \in m.users
  \/ "session" \in kinds /\ key \in m.sessions

Kinds(c) == {kind \in Kind : <<"subscribe", kind>> \in conns[c].agreed}

\* Whether message m is meant for websocket c in one of these kinds: its session, its user
\* and the groups of the login in force when it was opened.
MeantForWebsocket(m, kinds, c) ==
  MeantFor(m, kinds \cap Kinds(c), conns[c].user, conns[c].key, conns[c].groups)

\* A websocket is sent only messages meant for everyone or for the session, the user or a
\* group of the login in force when it was opened, whatever logins, logouts and changes of
\* groups came since.  Two cases the code does not keep apart: anonymous websockets and
\* publishers of processes that have SELF at one address, and websockets and publishers whose
\* session is gone, which share None (redis_store.py 18-58, set_pubsub_channels,
\* send_persisted_messages, models.py).
NobodyElse ==
  \A c \in Request : \A i \in seen[c] :
    LET m == messages[i]
    IN  \/ MeantForWebsocket(m, Kind, c)
        \/ conns[c].user = Nobody /\ Placeholder(conns[c].process) \in m.anonymous
        \/ conns[c].stale /\ m.lost /\ "session" \in Kinds(c)

\* A websocket open when a message is published is sent it if it is meant, with the groups of
\* the login in force when the websocket was opened; only one whose session was gone by then,
\* or whose publisher's is, may miss what is meant for the session.
EveryoneMeant ==
  \A c \in Request : \A i \in 1..Len(messages) :
    LET m == messages[i]
    IN  IsOpen(c) /\ i > conns[c].since /\ MeantForWebsocket(m, Kind, c) =>
          \/ i \in seen[c]
          \/ ~MeantForWebsocket(m, Kind \ {"session"}, c) /\ (conns[c].stale \/ m.lost)

\* fetch_message does not miss what was there all along: a message persisted for the
\* requester during the whole search is returned, unless one of an earlier audience is.
NoLater(list, ch, other) == \E i, j \in 1..4 : ch \in list[i] /\ other \in list[j] /\ i <= j
FetchFindsLasting ==
  \A c \in Request : fetches[c] # None /\ fetches[c].at = 5 =>
    \A ch \in fetches[c].lasting :
      fetches[c].found # 0 /\ NoLater(fetches[c].list, fetches[c].from, ch)

\* What fetch_message returns was meant for who asks: for the session, the user or a group of
\* the login in force when it was called, or for everyone; or for someone else whose session
\* is gone.
FetchedIsMeant ==
  \A c \in Request : fetches[c] # None /\ fetches[c].found # 0 =>
    LET m == messages[fetches[c].found]
    IN  \/ MeantFor(m, Kind, fetches[c].user, fetches[c].key, fetches[c].groups)
        \/ m.lost /\ (fetches[c].key = None \/ sessions[fetches[c].key] = None)
=============================================================================
