--------------------------- MODULE ChannelsProofs ---------------------------
(* Theorems about Channels, for every value of its constants.              *)
EXTENDS Channels, TLAPS

USE ChannelsAssumption DEF ChannelsAssumption

Meaning ==
  [broadcast : BOOLEAN, groups : SUBSET Group, users : SUBSET User, sessions : SUBSET Key,
   anonymous : SUBSET {Placeholder(p) : p \in Process}, lost : BOOLEAN]

\* Whether the channel is one of those a message with this meaning is published on.
Addressed(m, ch) ==
  \/ ch = Broadcast /\ m.broadcast
  \/ \E g : ch = <<"group", g>> /\ g \in m.groups \cup m.anonymous
  \/ \E u : ch = <<"user", u>> /\ u \in m.users \cup m.anonymous
  \/ \E k : /\ ch = <<"session", k>>
            /\ k \in m.sessions \/ (k = None /\ m.lost) \/ \E p \in Process : k = Placeholder(p)

\* Whether the channel is one that someone may use who takes part in these kinds of audience.
Entitled(kinds, user, key, groups, process, stale, ch) ==
  \/ ch = Broadcast /\ "broadcast" \in kinds
  \/ /\ "group" \in kinds
     /\ \E g : /\ ch = <<"group", g>>
               /\ IF user # Nobody THEN g \in groups ELSE g = Placeholder(process)
  \/ /\ "user" \in kinds
     /\ ch = <<"user", IF user # Nobody THEN user ELSE Placeholder(process)>>
  \/ /\ "session" \in kinds
     /\ (ch = <<"session", key>> /\ key # None) \/ (ch = <<"session", None>> /\ stale)

\* What must hold for the message to be sent to the websocket of such a one.
Concerns(m, kinds, user, key, groups, process, stale) ==
  \/ MeantFor(m, kinds, user, key, groups)
  \/ user = Nobody /\ Placeholder(process) \in m.anonymous
  \/ stale /\ m.lost /\ "session" \in kinds

\* Names of channels are told apart by their kind and name.
LEMMA TupleFacts ==
  /\ \A k, n : Broadcast # <<k, n>>
  /\ \A k, n, k2, n2 : <<k, n>> = <<k2, n2>> => k = k2 /\ n = n2
<1>1. \A k, n : Broadcast # <<k, n>>
  BY DEF Broadcast
<1>2. \A k, n, k2, n2 : <<k, n>> = <<k2, n2>> => k = k2 /\ n = n2
  OBVIOUS
<1> QED
  BY <1>1, <1>2

\* What is heard on a channel that one is entitled to concerns one (the names of _get_message_channels).
LEMMA Meets ==
  ASSUME NEW m \in Meaning, NEW kinds \in SUBSET Kind, NEW user \in User \cup {Nobody},
         NEW key \in Key \cup {None}, NEW groups \in SUBSET Group, NEW process \in Process, NEW stale \in BOOLEAN,
         NEW ch, Addressed(m, ch), Entitled(kinds, user, key, groups, process, stale, ch)
  PROVE  Concerns(m, kinds, user, key, groups, process, stale)
<1> DEFINE P(x) == Placeholder(x)
<1>1. \A p \in Process : P(p) \notin User /\ P(p) \notin Group /\ P(p) \notin Key /\ P(p) # None
  OBVIOUS
<1>2. /\ m.groups \subseteq Group /\ m.users \subseteq User /\ m.sessions \subseteq Key
      /\ \A x \in m.anonymous : \E p \in Process : x = Placeholder(p)
  BY DEF Meaning
<1>3. \A x \in m.anonymous : \E p \in Process : x = P(p)
  BY <1>2
<1> HIDE DEF P
<1>4. CASE ch = Broadcast
  BY <1>4, TupleFacts, ZenonT(60) DEF Addressed, Entitled, Concerns, MeantFor
<1>5. ASSUME NEW g, ch = <<"group", g>> PROVE Concerns(m, kinds, user, key, groups, process, stale)
  <2>1. /\ g \in m.groups \cup m.anonymous
        /\ "group" \in kinds
        /\ IF user # Nobody THEN g \in groups ELSE g = P(process)
    BY <1>5, TupleFacts DEF Addressed, Entitled, P
  <2> QED
    BY <2>1, <1>1, <1>2, <1>3 DEF Concerns, MeantFor, P
<1>6. ASSUME NEW u, ch = <<"user", u>> PROVE Concerns(m, kinds, user, key, groups, process, stale)
  <2>1. /\ u \in m.users \cup m.anonymous
        /\ "user" \in kinds
        /\ u = IF user # Nobody THEN user ELSE P(process)
    BY <1>6, TupleFacts DEF Addressed, Entitled, P
  <2> QED
    BY <2>1, <1>1, <1>2, <1>3 DEF Concerns, MeantFor, P
<1>7. ASSUME NEW k, ch = <<"session", k>> PROVE Concerns(m, kinds, user, key, groups, process, stale)
  <2>1. /\ k \in m.sessions \/ (k = None /\ m.lost) \/ \E p \in Process : k = P(p)
        /\ "session" \in kinds
        /\ (k = key /\ key # None) \/ (k = None /\ stale)
    BY <1>7, TupleFacts DEF Addressed, Entitled, P
  <2> QED
    BY <2>1, <1>1, <1>2 DEF Concerns, MeantFor
<1> QED
  BY <1>4, <1>5, <1>6, <1>7, Zenon DEF Addressed

-----------------------------------------------------------------------------
(* The channels of a publication.                                          *)

TypeInv ==
  /\ memberOf \in [Grouped -> SUBSET Group]
  /\ used \subseteq Key
  /\ cookie \in [Browser -> used \cup {None}]
  /\ atLogin \in [Key -> SUBSET Group]
  /\ messages \in Seq(Meaning)
  /\ store \in [Channel -> 0..Len(messages)]
  /\ seen \in [Request -> SUBSET (1..Len(messages))]
  /\ Len(messages) <= MaxMessages

\* What the session store holds is what login put there.
SessionInv ==
  /\ DOMAIN sessions = Key
  /\ \A k \in Key : sessions[k] # None =>
       /\ k \in used
       /\ sessions[k].user \in User \cup {Nobody}
       /\ sessions[k].memberof = IF sessions[k].user = Nobody THEN {} ELSE atLogin[k]
       /\ sessions[k].user \notin Grouped => sessions[k].memberof = {}

\* A request whose user, groups and key belong together.
Honest(r) ==
  /\ r.user \in User \cup {Nobody}
  /\ r.key \in used \cup {None}
  /\ r.user # Nobody => r.key \in used
  /\ r.memberof = GroupsAtLogin(r)
  /\ r.process \in Process
  /\ r.given \in BOOLEAN /\ r.loaded \in BOOLEAN

IsAudience(a) ==
  /\ a.broadcast \in BOOLEAN
  /\ a.groups \subseteq Group \cup {SELF} /\ a.users \subseteq User \cup {SELF}
  /\ a.sessions \subseteq Key \cup {SELF}

\* The channels chs are those of a message with the meaning m.
Published(m, chs) ==
  /\ m \in Meaning /\ chs \subseteq Channel
  /\ \A ch \in chs : Addressed(m, ch)
  /\ m.broadcast => Broadcast \in chs
  /\ \A g \in m.groups : <<"group", g>> \in chs
  /\ \A u \in m.users : <<"user", u>> \in chs
  /\ ~m.lost => \A k \in m.sessions : <<"session", k>> \in chs

\* What process_request finds in the session store is a user with the groups of the login.
LEMMA RequestsAreHonest ==
  ASSUME TypeInv, SessionInv, NEW p \in Process
  PROVE  /\ \A b \in Browser, loaded \in BOOLEAN : Honest(RequestOf(b, p, loaded))
         /\ Honest(NoRequest(p))
<1>1. ASSUME NEW b \in Browser, NEW loaded \in BOOLEAN PROVE Honest(RequestOf(b, p, loaded))
  <2>1. cookie[b] \in used \cup {None} /\ used \subseteq Key
    BY DEF TypeInv
  <2>2. CASE cookie[b] = None \/ sessions[cookie[b]] = None
    BY <2>1, <2>2 DEF Honest, RequestOf, SessionOf, NoSession, GroupsAtLogin, IsAuthenticated
  <2>3. CASE cookie[b] # None /\ sessions[cookie[b]] # None
    BY <2>1, <2>3 DEF Honest, RequestOf, SessionOf, SessionInv, GroupsAtLogin, IsAuthenticated
  <2> QED
    BY <2>2, <2>3
<1>2. Honest(NoRequest(p))
  BY DEF Honest, NoRequest, GroupsAtLogin, IsAuthenticated
<1> QED
  BY <1>1, <1>2

\* The key that names a session channel is the one of the request, or None for a session
\* that is gone.
LEMMA KeyCases ==
  ASSUME NEW r, NEW reads \in BOOLEAN
  PROVE  \/ KeyOf([r EXCEPT !.loaded = @ \/ reads]) = r.key
         \/ /\ r.key # None /\ sessions[r.key] = None
            /\ KeyOf([r EXCEPT !.loaded = @ \/ reads]) = None
BY DEF KeyOf

\* The channels _get_message_channels names for a view are those of whom the message is meant for.
LEMMA ViewAddresses ==
  ASSUME TypeInv, NEW a, IsAudience(a), NEW r, Honest(r), r.given \/ r.key = None
  PROVE  Published(Meant(a, r, r.memberof), MessageChannels(a, r))
<1> DEFINE m == Meant(a, r, r.memberof)
           chs == MessageChannels(a, r)
           K == WrapSessions(a.sessions, r, SELF \in a.groups \cup a.users)
<1>0. /\ r.memberof \subseteq Group /\ used \subseteq Key
      /\ r.user = Nobody => r.memberof = {}
  BY DEF Honest, TypeInv, GroupsAtLogin, IsAuthenticated
<1>1. m \in Meaning
  BY <1>0 DEF Meant, Meaning, Wrap, Honest, IsAudience, IsAuthenticated
<1>2. chs = (IF a.broadcast THEN {Broadcast} ELSE {}) \cup Named("group", WrapGroups(a.groups, r))
              \cup Named("user", WrapUsers(a.users, r)) \cup Named("session", K)
  BY DEF MessageChannels
<1>3. \A g \in WrapGroups(a.groups, r) : g \in Name /\ g \in m.groups \cup m.anonymous
  BY <1>0 DEF WrapGroups, Wrap, Meant, Honest, IsAudience, IsAuthenticated, Name
<1>4. \A u \in WrapUsers(a.users, r) : u \in Name /\ u \in m.users \cup m.anonymous
  BY DEF WrapUsers, Wrap, Meant, Honest, IsAudience, IsAuthenticated, Name
<1>5. /\ \A k \in K : k \in Name /\ (k \in m.sessions \/ (k = None /\ m.lost) \/ \E p \in Process : k = Placeholder(p))
      /\ ~m.lost => m.sessions \subseteq K
  <2> DEFINE reads == SELF \in a.groups \cup a.users
             key == KeyOf([r EXCEPT !.loaded = @ \/ reads])
  <2>1. key = r.key \/ (r.key # None /\ sessions[r.key] = None /\ key = None)
    BY KeyCases
  <2>2. K = (a.sessions \ {SELF}) \cup (IF SELF \in a.sessions THEN (IF r.given THEN {key} ELSE {Placeholder(r.process)}) ELSE {})
    BY DEF WrapSessions, Wrap
  <2>3. m.sessions = (a.sessions \ {SELF}) \cup (IF SELF \in a.sessions THEN {r.key} \ {None} ELSE {})
    BY DEF Meant, Wrap
  <2>4. m.lost = (SELF \in a.sessions /\ (r.key = None \/ sessions[r.key] = None))
    BY DEF Meant
  <2>5. a.sessions \ {SELF} \subseteq Key /\ r.process \in Process /\ r.key \in Key \cup {None}
    BY <1>0 DEF IsAudience, Honest
  <2>6. r.given \/ r.key = None
    OBVIOUS
  <2> HIDE DEF key, K, m, reads
  <2> QED
    BY <2>1, <2>2, <2>3, <2>4, <2>5, <2>6 DEF Name
<1>6. /\ m.groups \subseteq WrapGroups(a.groups, r)
      /\ m.users \subseteq WrapUsers(a.users, r)
  BY <1>0 DEF WrapGroups, WrapUsers, Wrap, Meant, Honest, IsAuthenticated
<1>7. m.broadcast = a.broadcast
  BY DEF Meant
<1> HIDE DEF m, chs, K
<1>8. ASSUME NEW ch \in chs PROVE ch \in Channel /\ Addressed(m, ch)
  <2>1. CASE a.broadcast /\ ch = Broadcast
    BY <2>1, <1>7 DEF Addressed, Channel
  <2>2. ASSUME NEW g \in WrapGroups(a.groups, r), ch = <<"group", g>> PROVE ch \in Channel /\ Addressed(m, ch)
    BY <2>2, <1>3 DEF Addressed, Channel
  <2>3. ASSUME NEW u \in WrapUsers(a.users, r), ch = <<"user", u>> PROVE ch \in Channel /\ Addressed(m, ch)
    BY <2>3, <1>4 DEF Addressed, Channel
  <2>4. ASSUME NEW k \in K, ch = <<"session", k>> PROVE ch \in Channel /\ Addressed(m, ch)
    BY <2>4, <1>5 DEF Addressed, Channel
  <2> QED
    BY <1>2, <2>1, <2>2, <2>3, <2>4 DEF Named
<1>9. /\ m.broadcast => Broadcast \in chs
      /\ \A g \in m.groups : <<"group", g>> \in chs
      /\ \A u \in m.users : <<"user", u>> \in chs
      /\ ~m.lost => \A k \in m.sessions : <<"session", k>> \in chs
  BY <1>2, <1>5, <1>6, <1>7 DEF Named
<1> QED
  BY <1>1, <1>8, <1>9 DEF Published, m, chs

-----------------------------------------------------------------------------
(* The channels of a websocket.                                            *)

KindsOf(agreed, act) == {kind \in Kind : <<act, kind>> \in agreed}

\* The channels chs are those that someone gets who takes part in these kinds of audience.
Rights(kinds, user, key, groups, process, stale, chs) ==
  /\ chs \subseteq Channel
  /\ \A ch \in chs : Entitled(kinds, user, key, groups, process, stale, ch)
  /\ "broadcast" \in kinds => Broadcast \in chs
  /\ "group" \in kinds => \A g \in groups : <<"group", g>> \in chs
  /\ "user" \in kinds /\ user # Nobody => <<"user", user>> \in chs
  /\ "session" \in kinds => key \in used /\ (stale \/ <<"session", key>> \in chs)

\* A websocket has the channels it is entitled to; a stale session is gone for good.
IsRightful(o) ==
  /\ o.user \in User \cup {Nobody} /\ o.key \in used \cup {None} /\ o.process \in Process
  /\ o.user # Nobody => o.key \in used
  /\ o.groups \subseteq Group /\ (o.user = Nobody => o.groups = {})
  /\ o.stale \in BOOLEAN
  /\ o.stale => o.key \in used /\ sessions[o.key] = None
  /\ Rights(KindsOf(o.agreed, "publish"), o.user, o.key, o.groups, o.process, o.stale, o.speaks)
  /\ Rights(KindsOf(o.agreed, "subscribe"), o.user, o.key, o.groups, o.process, o.stale, o.listens)

ConnectionInv ==
  /\ DOMAIN conns = Request
  /\ \A c \in Request : IsOpen(c) \/ seen[c] # {} => IsRightful(conns[c]) /\ conns[c].since \in Nat

\* The channels named for a websocket are those of the kinds of audience agreed.
LEMMA AgreedRights ==
  ASSUME TypeInv, NEW act, NEW agreed, NEW r, Honest(r), r.given,
         <<act, "session">> \in agreed => r.key # None
  PROVE  Rights(KindsOf(agreed, act), r.user, r.key, r.memberof, r.process,
                r.key # None /\ sessions[r.key] = None, MessageChannels(Agreed(agreed, act), r))
<1> DEFINE a == Agreed(agreed, act)
           kinds == KindsOf(agreed, act)
           chs == MessageChannels(a, r)
           stale == r.key # None /\ sessions[r.key] = None
           K == WrapSessions(a.sessions, r, SELF \in a.groups \cup a.users)
<1>1. IsAudience(a)
  BY DEF Agreed, IsAudience
<1>2. chs \subseteq Channel
  BY <1>1, ViewAddresses DEF Published
<1>3. chs = (IF a.broadcast THEN {Broadcast} ELSE {}) \cup Named("group", WrapGroups(a.groups, r))
              \cup Named("user", WrapUsers(a.users, r)) \cup Named("session", K)
  BY DEF MessageChannels
<1>4. a.broadcast = ("broadcast" \in kinds)
  BY DEF Agreed, KindsOf, Kind
<1>5. WrapGroups(a.groups, r) =
        IF "group" \in kinds THEN (IF r.user # Nobody THEN r.memberof ELSE {Placeholder(r.process)}) ELSE {}
  BY DEF Agreed, KindsOf, Kind, WrapGroups, Wrap, IsAuthenticated
<1>6. WrapUsers(a.users, r) =
        IF "user" \in kinds THEN (IF r.user # Nobody THEN {r.user} ELSE {Placeholder(r.process)}) ELSE {}
  BY DEF Agreed, KindsOf, Kind, WrapUsers, Wrap, IsAuthenticated
<1>7. /\ K = {} \/ "session" \in kinds
      /\ "session" \in kinds => /\ r.key \in used /\ r.key # None
                                /\ K = {r.key} \/ (stale /\ K = {None})
  <2> DEFINE reads == SELF \in a.groups \cup a.users
             key == KeyOf([r EXCEPT !.loaded = @ \/ reads])
  <2>1. key = r.key \/ (r.key # None /\ sessions[r.key] = None /\ key = None)
    BY KeyCases
  <2>2. K = IF "session" \in kinds THEN {key} ELSE {}
    BY DEF WrapSessions, Wrap, Agreed, KindsOf, Kind
  <2>3. "session" \in kinds => r.key # None /\ r.key \in used
    BY DEF KindsOf, Kind, Honest
  <2> HIDE DEF key, K, reads
  <2> QED
    BY <2>1, <2>2, <2>3
<1> HIDE DEF a, kinds, chs, K
<1>8. ASSUME NEW ch \in chs PROVE Entitled(kinds, r.user, r.key, r.memberof, r.process, stale, ch)
  <2>1. CASE a.broadcast /\ ch = Broadcast
    BY <2>1, <1>4 DEF Entitled
  <2>2. ASSUME NEW g \in WrapGroups(a.groups, r), ch = <<"group", g>>
        PROVE  Entitled(kinds, r.user, r.key, r.memberof, r.process, stale, ch)
    <3>1. "group" \in kinds /\ IF r.user # Nobody THEN g \in r.memberof ELSE g = Placeholder(r.process)
      BY <2>2, <1>5
    <3> QED
      BY <3>1, <2>2 DEF Entitled
  <2>3. ASSUME NEW u \in WrapUsers(a.users, r), ch = <<"user", u>>
        PROVE  Entitled(kinds, r.user, r.key, r.memberof, r.process, stale, ch)
    <3>1. "user" \in kinds /\ u = IF r.user # Nobody THEN r.user ELSE Placeholder(r.process)
      BY <2>3, <1>6
    <3> QED
      BY <3>1, <2>3 DEF Entitled
  <2>4. ASSUME NEW k \in K, ch = <<"session", k>>
        PROVE  Entitled(kinds, r.user, r.key, r.memberof, r.process, stale, ch)
    <3>1. "session" \in kinds /\ r.key # None /\ (k = r.key \/ (k = None /\ stale))
      BY <2>4, <1>7
    <3> QED
      BY <3>1, <2>4 DEF Entitled
  <2> QED
    BY <1>3, <2>1, <2>2, <2>3, <2>4 DEF Named
<1>9. /\ "broadcast" \in kinds => Broadcast \in chs
      /\ "group" \in kinds => \A g \in r.memberof : <<"group", g>> \in chs
      /\ "user" \in kinds /\ r.user # Nobody => <<"user", r.user>> \in chs
      /\ "session" \in kinds => r.key \in used /\ (stale \/ <<"session", r.key>> \in chs)
  <2>1. r.user = Nobody => r.memberof = {}
    BY DEF Honest, GroupsAtLogin, IsAuthenticated
  <2> QED
    BY <2>1, <1>3, <1>4, <1>5, <1>6, <1>7, ZenonT(60) DEF Named
<1> QED
  BY <1>2, <1>8, <1>9 DEF Rights, kinds, chs, a

\* set_pubsub_channels gives a websocket what it is entitled to, for publishing and for listening.
LEMMA OpenedIsRightful ==
  ASSUME TypeInv, SessionInv, NEW b \in Browser, NEW p \in Process, NEW loaded \in BOOLEAN,
         NEW agreed, ~Loses(b, agreed)
  PROVE  IsRightful(Opened(b, RequestOf(b, p, loaded), agreed))
<1> DEFINE r == RequestOf(b, p, loaded)
           reads == \E kind \in {"group", "user"} : <<"publish", kind>> \in agreed
           s == [r EXCEPT !.loaded = @ \/ reads]
           o == Opened(b, r, agreed)
           stale == r.key # None /\ sessions[r.key] = None
<1>1. Honest(r)
  BY RequestsAreHonest
<1>2. /\ r.given
      /\ s.user = r.user /\ s.key = r.key /\ s.process = r.process /\ s.given = r.given
      /\ s.memberof = r.memberof /\ s.loaded \in BOOLEAN
  BY DEF RequestOf
<1>3. Honest(s)
  BY <1>1, <1>2 DEF Honest, GroupsAtLogin, IsAuthenticated
<1>4. \A act \in {"publish", "subscribe"} : <<act, "session">> \in agreed => r.key # None
  BY DEF RequestOf, Loses
<1>5. /\ o.user = r.user /\ o.key = r.key /\ o.process = r.process /\ o.stale = stale
      /\ o.agreed = agreed /\ o.groups = GroupsAtLogin(r)
      /\ o.speaks = MessageChannels(Agreed(agreed, "publish"), r)
      /\ o.listens = MessageChannels(Agreed(agreed, "subscribe"), s)
  BY DEF Opened
<1> HIDE DEF r, s, o
<1>6. Rights(KindsOf(agreed, "publish"), r.user, r.key, r.memberof, r.process, stale, o.speaks)
  BY <1>1, <1>2, <1>4, <1>5, AgreedRights
<1>7. Rights(KindsOf(agreed, "subscribe"), s.user, s.key, s.memberof, s.process, s.key # None /\ sessions[s.key] = None, o.listens)
  <2>1. s.given /\ (<<"subscribe", "session">> \in agreed => s.key # None)
    BY <1>2, <1>4
  <2>2. Rights(KindsOf(agreed, "subscribe"), s.user, s.key, s.memberof, s.process, s.key # None /\ sessions[s.key] = None,
               MessageChannels(Agreed(agreed, "subscribe"), s))
    BY <1>3, <2>1, AgreedRights
  <2> QED
    BY <2>2, <1>5
<1>8. Rights(KindsOf(agreed, "subscribe"), r.user, r.key, r.memberof, r.process, stale, o.listens)
  BY <1>2, <1>7
<1>9. /\ r.user \in User \cup {Nobody} /\ r.key \in used \cup {None} /\ r.process \in Process
      /\ r.user # Nobody => r.key \in used
      /\ r.memberof \subseteq Group /\ (r.user = Nobody => r.memberof = {})
      /\ o.groups = r.memberof
      /\ stale \in BOOLEAN
      /\ stale => r.key \in used /\ sessions[r.key] = None
  BY <1>1, <1>5 DEF Honest, GroupsAtLogin, IsAuthenticated, TypeInv
<1> HIDE DEF stale
<1>10. IsRightful(o)
  BY <1>5, <1>6, <1>8, <1>9 DEF IsRightful
<1> QED
  BY <1>10 DEF r, o

-----------------------------------------------------------------------------
(* The invariant, in parts.                                                *)

StoreInv == \A ch \in Channel : store[ch] # 0 => Addressed(messages[store[ch]], ch)

\* A message sent to a websocket concerns it.
SeenInv ==
  \A c \in Request : \A i \in seen[c] :
    Concerns(messages[i], Kinds(c), conns[c].user, conns[c].key, conns[c].groups, conns[c].process, conns[c].stale)

\* The channels fetch_message looks into are those of who asks.
Lookup(user, key, groups, ch) ==
  \/ ch = Broadcast
  \/ \E g \in groups : ch = <<"group", g>>
  \/ user # Nobody /\ ch = <<"user", user>>
  \/ ch = <<"session", key>>
  \/ ch = <<"session", None>> /\ key \in used /\ sessions[key] = None

Search ==
  [list : [1..4 -> SUBSET Channel], at : 1..5, todo : SUBSET Channel, found : Nat,
   from : Channel \cup {None}, user : User \cup {Nobody}, key : Key \cup {None},
   groups : SUBSET Group, lasting : SUBSET Channel]

\* A search that goes on is in the channels of its list, and has found nothing.
IsSearch(f) ==
  /\ f \in Search
  /\ f.key \in used \cup {None} /\ (f.user # Nobody => f.key \in used)
  /\ \A j \in 1..4 : \A ch \in f.list[j] : Lookup(f.user, f.key, f.groups, ch)
  /\ f.at <= 4 => f.todo \subseteq f.list[f.at] /\ f.found = 0
  /\ f.found <= Len(messages)

FetchInv ==
  /\ DOMAIN fetches = Request
  /\ \A c \in Request : fetches[c] # None => IsSearch(fetches[c])

\* What lasts is persisted, and still ahead of a search that goes on.
LastingInv ==
  \A c \in Request : fetches[c] # None =>
    \A ch \in fetches[c].lasting :
      /\ store[ch] # 0
      /\ IF fetches[c].at = 5 THEN fetches[c].found # 0 /\ NoLater(fetches[c].list, fetches[c].from, ch)
         ELSE ch \in fetches[c].todo \/ \E j \in 1..4 : j > fetches[c].at /\ ch \in fetches[c].list[j]

SendInv == TypeInv /\ SessionInv /\ ConnectionInv /\ StoreInv /\ SeenInv
IInv == SendInv /\ EveryoneMeant /\ FetchInv /\ FetchedIsMeant /\ LastingInv

-----------------------------------------------------------------------------
(* Sessions and groups change.                                             *)

\* Keys are not given out again, and what is gone stays away.
KeysLast ==
  /\ used \subseteq used'
  /\ \A k \in used : sessions[k] = None => sessions'[k] = None

SessionStep ==
  \/ \E u \in Grouped, groups \in SUBSET Group : ChangeGroups(u, groups)
  \/ \E b \in Browser, u \in User, k \in Key : Login(b, u, k)
  \/ \E b \in Browser, k \in Key : BeginSession(b, k)
  \/ \E b \in Browser, forget \in BOOLEAN : EndSession(b, forget)

\* A login stores the groups of its user, none for a user without groups (store_groups_in_session).
LEMMA LoginStores ==
  ASSUME TypeInv, SessionInv, NEW b \in Browser, NEW u \in User, NEW k \in Key, Login(b, u, k)
  PROVE  SessionInv'
<1> DEFINE old == SessionOf(cookie[b])
           kept == IF old.user = Nobody \/ k = cookie[b] THEN old.memberof ELSE {}
           stored == StoredGroups(u, kept)
<1>1. /\ DOMAIN sessions = Key /\ cookie[b] \in used \cup {None} /\ used \subseteq Key
      /\ atLogin \in [Key -> SUBSET Group]
  BY DEF TypeInv, SessionInv
<1>2. /\ k \notin used \/ (k = cookie[b] /\ old.user = u)
      /\ used' = used \cup {k}
      /\ sessions' = [j \in Key |-> IF j = k THEN [user |-> u, memberof |-> stored]
                                    ELSE IF j = cookie[b] THEN None ELSE sessions[j]]
      /\ atLogin' = [atLogin EXCEPT ![k] = IF u \in Grouped THEN memberOf[u] ELSE {}]
  BY DEF Login
<1>3. (old.user = Nobody \/ old.user \notin Grouped) => old.memberof = {}
  BY <1>1 DEF SessionOf, NoSession, SessionInv
<1> HIDE DEF old
<1>4. u \notin Grouped => kept = {}
  BY <1>1, <1>2, <1>3
<1> HIDE DEF kept
<1>5. stored = (IF u \in Grouped THEN memberOf[u] ELSE {})
  BY <1>4 DEF StoredGroups
<1> HIDE DEF stored
<1>6. /\ sessions'[k].user = u /\ sessions'[k].memberof = atLogin'[k]
      /\ u \notin Grouped => sessions'[k].memberof = {}
  BY <1>1, <1>2, <1>5
<1>7. ASSUME NEW j \in Key, j # k, sessions'[j] # None
      PROVE  sessions[j] # None /\ sessions'[j] = sessions[j] /\ atLogin'[j] = atLogin[j]
  BY <1>1, <1>2, <1>7
<1>8. DOMAIN sessions' = Key /\ u # Nobody /\ k \in used'
  BY <1>2
<1> QED
  BY <1>2, <1>6, <1>7, <1>8, ZenonT(60) DEF SessionInv

\* Logins and logouts keep the types, and do not touch what was named before.
LEMMA SessionStepKeeps ==
  ASSUME TypeInv, SessionInv, SessionStep
  PROVE  TypeInv' /\ SessionInv' /\ KeysLast /\ UNCHANGED <<conns, store, messages, seen, fetches>>
<1>1. ASSUME NEW u \in Grouped, NEW groups \in SUBSET Group, ChangeGroups(u, groups)
      PROVE  TypeInv' /\ SessionInv' /\ KeysLast
  BY <1>1 DEF ChangeGroups, TypeInv, SessionInv, KeysLast
<1>2. ASSUME NEW b \in Browser, NEW u \in User, NEW k \in Key, Login(b, u, k)
      PROVE  TypeInv' /\ SessionInv' /\ KeysLast
  <2>1. TypeInv'
    BY <1>2 DEF Login, TypeInv
  <2>2. SessionInv'
    BY <1>2, LoginStores
  <2>3. KeysLast
    BY <1>2 DEF Login, TypeInv, KeysLast, SessionOf, NoSession
  <2> QED
    BY <2>1, <2>2, <2>3
<1>3. ASSUME NEW b \in Browser, NEW k \in Key, BeginSession(b, k)
      PROVE  TypeInv' /\ SessionInv' /\ KeysLast
  BY <1>3 DEF BeginSession, TypeInv, SessionInv, KeysLast, NoSession
<1>4. ASSUME NEW b \in Browser, NEW forget \in BOOLEAN, EndSession(b, forget)
      PROVE  TypeInv' /\ SessionInv' /\ KeysLast
  BY <1>4 DEF EndSession, TypeInv, SessionInv, KeysLast
<1>5. UNCHANGED <<conns, store, messages, seen, fetches>>
  BY DEF SessionStep, ChangeGroups, Login, BeginSession, EndSession
<1> QED
  BY <1>1, <1>2, <1>3, <1>4, <1>5 DEF SessionStep

\* Logins, logouts and changes of groups preserve the invariant.
LEMMA SessionStepInv ==
  ASSUME IInv, SessionStep
  PROVE  IInv'
<1>1. /\ TypeInv' /\ SessionInv' /\ KeysLast
      /\ UNCHANGED <<conns, store, messages, seen, fetches>>
  BY SessionStepKeeps DEF IInv, SendInv
<1>2. /\ conns' = conns /\ store' = store /\ messages' = messages /\ seen' = seen /\ fetches' = fetches
      /\ used \subseteq used'
      /\ \A k \in used : sessions[k] = None => sessions'[k] = None
  BY <1>1 DEF KeysLast
<1>3. ConnectionInv'
  <2> SUFFICES ASSUME NEW c \in Request, (IsOpen(c) \/ seen[c] # {})'
               PROVE  IsRightful(conns[c])'
    BY <1>2 DEF ConnectionInv, IInv, SendInv, IsOpen
  <2> DEFINE o == conns[c]
  <2>1. IsRightful(o)
    BY <1>2 DEF ConnectionInv, IInv, SendInv, IsOpen
  <2>2. /\ o.user = conns'[c].user /\ o.key = conns'[c].key /\ o.process = conns'[c].process
        /\ o.stale = conns'[c].stale /\ o.agreed = conns'[c].agreed /\ o.groups = conns'[c].groups
        /\ o.speaks = conns'[c].speaks /\ o.listens = conns'[c].listens
    BY <1>2
  <2>3. Rights(KindsOf(o.agreed, "publish"), o.user, o.key, o.groups, o.process, o.stale, o.speaks)'
    BY <1>2, <2>1 DEF Rights, IsRightful, Entitled, KindsOf
  <2>4. Rights(KindsOf(o.agreed, "subscribe"), o.user, o.key, o.groups, o.process, o.stale, o.listens)'
    BY <1>2, <2>1 DEF Rights, IsRightful, Entitled, KindsOf
  <2> QED
    BY <1>2, <2>1, <2>3, <2>4 DEF IsRightful
<1>4. StoreInv'
  BY <1>2 DEF StoreInv, Addressed, IInv, SendInv
<1>5. SeenInv'
  BY <1>2 DEF SeenInv, IInv, SendInv, ConnectionInv, IsOpen, IsRightful, Concerns, MeantFor, Kinds
<1>6. EveryoneMeant'
  BY <1>2 DEF EveryoneMeant, IInv, SendInv, ConnectionInv, IsOpen, IsRightful, MeantForWebsocket, MeantFor, Kinds
<1>7. FetchInv'
  BY <1>2 DEF FetchInv, IInv, IsSearch, Lookup
<1>8. FetchedIsMeant'
  BY <1>2 DEF FetchedIsMeant, FetchInv, IInv, IsSearch, MeantFor
<1>9. LastingInv'
  BY <1>2 DEF LastingInv, IInv, NoLater
<1> QED
  BY <1>1, <1>3, <1>4, <1>5, <1>6, <1>7, <1>8, <1>9 DEF IInv, SendInv

-----------------------------------------------------------------------------
(* Messages are published.                                                 *)

\* A websocket is entitled to a channel the message is published on if and only if the
\* message concerns it, but for sessions that are gone.
LEMMA HeardIfMeant ==
  ASSUME IInv, NEW m, NEW chs, Published(m, chs), NEW c \in Request, IsOpen(c),
         conns[c].listens \cap chs = {}
  PROVE  MeantForWebsocket(m, Kind, c) =>
           ~MeantForWebsocket(m, Kind \ {"session"}, c) /\ (conns[c].stale \/ m.lost)
<1> DEFINE o == conns[c]
<1>1. /\ Rights(Kinds(c), o.user, o.key, o.groups, o.process, o.stale, o.listens)
      /\ o.user \in User \cup {Nobody}
  BY DEF IInv, SendInv, ConnectionInv, IsRightful, Kinds, KindsOf
<1>2. m.users \subseteq User
  BY DEF Published, Meaning
<1>3. \A ch \in chs : ch \notin o.listens
  OBVIOUS
<1> HIDE DEF o
<1>4. ~(m.broadcast /\ "broadcast" \in Kinds(c))
  BY <1>1, <1>3 DEF Published, Rights
<1>5. ~("group" \in Kinds(c) /\ m.groups \cap o.groups # {})
  BY <1>1, <1>3 DEF Published, Rights
<1>6. ~("user" \in Kinds(c) /\ o.user \in m.users)
  BY <1>1, <1>2, <1>3 DEF Published, Rights
<1>7. "session" \in Kinds(c) /\ o.key \in m.sessions => o.stale \/ m.lost
  BY <1>1, <1>3 DEF Published, Rights
<1> QED
  BY <1>4, <1>5, <1>6, <1>7 DEF MeantForWebsocket, MeantFor, o

\* A publication on the right channels reaches the right websockets (publish_message).
LEMMA PublishInv ==
  ASSUME IInv, NEW m, NEW chs, Published(m, chs), PublishMessage(chs, m)
  PROVE  IInv'
<1> DEFINE N == Len(messages)
<1>1. /\ messages \in Seq(Meaning) /\ m \in Meaning /\ N \in Nat
      /\ messages' = Append(messages, m)
  BY DEF IInv, SendInv, TypeInv, PublishMessage, Published
<1>2. /\ messages' \in Seq(Meaning) /\ Len(messages') = N + 1 /\ messages'[N + 1] = m
      /\ \A i \in 1..N : messages'[i] = messages[i]
  BY <1>1
<1>3. /\ memberOf' = memberOf /\ sessions' = sessions /\ used' = used /\ cookie' = cookie
      /\ conns' = conns /\ atLogin' = atLogin /\ fetches' = fetches
  BY DEF PublishMessage
<1>4. seen' = [c \in Request |->
        IF IsOpen(c) /\ conns[c].listens \cap chs # {} THEN seen[c] \cup {N + 1} ELSE seen[c]]
  BY DEF PublishMessage
<1>5. PICK persist \in BOOLEAN :
        store' = [ch \in Channel |-> IF persist /\ ch \in chs THEN N + 1 ELSE store[ch]]
  BY DEF PublishMessage
<1>6. /\ store \in [Channel -> 0..N] /\ seen \in [Request -> SUBSET (1..N)]
      /\ N < MaxMessages /\ MaxMessages \in Nat
  BY DEF IInv, SendInv, TypeInv, PublishMessage
<1> HIDE DEF N
<1>7. TypeInv'
  <2>1. store' \in [Channel -> 0..N + 1] /\ seen' \in [Request -> SUBSET (1..N + 1)] /\ N + 1 <= MaxMessages
    BY <1>1, <1>4, <1>5, <1>6
  <2> QED
    BY <1>2, <1>3, <2>1 DEF TypeInv, IInv, SendInv
<1>8. SessionInv'
  BY <1>3 DEF SessionInv, IInv, SendInv
<1>9. ConnectionInv'
  <2>1. \A c \in Request : IsOpen(c) \/ seen'[c] # {} => IsOpen(c) \/ seen[c] # {}
    BY <1>4
  <2> QED
    BY <1>3, <2>1 DEF ConnectionInv, IInv, SendInv, IsOpen, IsRightful, Rights, Entitled
<1>10. StoreInv'
  <2> SUFFICES ASSUME NEW ch \in Channel, store'[ch] # 0
               PROVE  Addressed(messages'[store'[ch]], ch)
    BY DEF StoreInv, Addressed
  <2>1. CASE store'[ch] = N + 1 /\ ch \in chs
    BY <1>2, <2>1 DEF Published
  <2>2. CASE store'[ch] = store[ch]
    BY <1>2, <1>6, <2>2 DEF StoreInv, IInv, SendInv
  <2> QED
    BY <1>5, <2>1, <2>2
<1>11. SeenInv'
  <2>1. ASSUME NEW c \in Request, NEW i \in seen'[c]
        PROVE  Concerns(messages'[i], Kinds(c), conns[c].user, conns[c].key, conns[c].groups, conns[c].process, conns[c].stale)
    <3> DEFINE o == conns[c]
    <3>1. CASE i \in seen[c]
      BY <1>2, <1>6, <3>1 DEF SeenInv, IInv, SendInv
    <3>2. CASE i = N + 1 /\ IsOpen(c) /\ o.listens \cap chs # {}
      <4>1. PICK ch : ch \in o.listens /\ ch \in chs
        BY <3>2
      <4>2. /\ Entitled(Kinds(c), o.user, o.key, o.groups, o.process, o.stale, ch)
            /\ o.user \in User \cup {Nobody} /\ o.process \in Process /\ o.stale \in BOOLEAN
            /\ o.key \in used \cup {None} /\ o.groups \in SUBSET Group
        BY <3>2, <4>1 DEF IInv, SendInv, ConnectionInv, IsRightful, Kinds, KindsOf, Rights
      <4>3. o.key \in Key \cup {None}
        <5>1. used \subseteq Key
          BY DEF IInv, SendInv, TypeInv
        <5> QED
          BY <4>2, <5>1
      <4>4. Addressed(m, ch) /\ Kinds(c) \in SUBSET Kind
        BY <4>1 DEF Published, Kinds
      <4> HIDE DEF o
      <4>5. Concerns(m, Kinds(c), o.user, o.key, o.groups, o.process, o.stale)
        BY <1>1, <4>2, <4>3, <4>4, Meets
      <4> QED
        BY <1>2, <3>2, <4>5 DEF o
    <3> QED
      BY <1>4, <2>1, <3>1, <3>2
  <2> QED
    BY <1>3, <2>1 DEF SeenInv, IsOpen, Kinds, Concerns, MeantFor
<1>12. EveryoneMeant'
  <2> SUFFICES ASSUME NEW c \in Request, NEW i \in 1..N + 1, IsOpen(c), i > conns[c].since,
                      MeantForWebsocket(messages'[i], Kind, c), i \notin seen'[c]
               PROVE  /\ ~MeantForWebsocket(messages'[i], Kind \ {"session"}, c)
                      /\ conns[c].stale \/ messages'[i].lost
    BY <1>2, <1>3 DEF EveryoneMeant, IsOpen, Kinds, MeantForWebsocket, MeantFor
  <2>1. CASE i \in 1..N
    <3>1. i \notin seen[c] /\ messages'[i] = messages[i] /\ i \in 1..Len(messages)
      BY <1>2, <1>4, <2>1 DEF N
    <3> QED
      BY <3>1 DEF EveryoneMeant, IInv
  <2>2. CASE i = N + 1
    <3>1. conns[c].listens \cap chs = {}
      BY <1>4, <2>2
    <3> QED
      BY <1>2, <2>2, <3>1, HeardIfMeant
  <2>3. i \in 1..N \/ i = N + 1
    BY <1>1
  <2> QED
    BY <2>1, <2>2, <2>3, Zenon
<1>13. FetchInv' /\ FetchedIsMeant'
  <2>1. ASSUME NEW c \in Request, fetches[c] # None
        PROVE  /\ fetches[c].found \in Nat /\ fetches[c].found <= N
               /\ fetches[c].found # 0 => messages'[fetches[c].found] = messages[fetches[c].found]
    BY <1>1, <1>2, <2>1 DEF FetchInv, IsSearch, Search, IInv, N
  <2>2. FetchInv'
    BY <1>1, <1>2, <1>3, <2>1 DEF FetchInv, IInv, IsSearch, Lookup
  <2>3. FetchedIsMeant'
    BY <1>3, <2>1 DEF FetchedIsMeant, IInv, MeantFor
  <2> QED
    BY <2>2, <2>3
<1>14. LastingInv'
  BY <1>1, <1>3, <1>5, SMTT(30) DEF LastingInv, IInv, NoLater, FetchInv, IsSearch, Search
<1> QED
  BY <1>7, <1>8, <1>9, <1>10, <1>11, <1>12, <1>13, <1>14 DEF IInv, SendInv

\* Who publishes through a websocket.
Speaker(o) ==
  [NoRequest(o.process) EXCEPT !.user = o.user, !.key = o.key]

\* The channels a websocket publishes on are those of whom its messages are meant for.
LEMMA SpeakerAddresses ==
  ASSUME TypeInv, NEW o, IsRightful(o)
  PROVE  Published(Meant(Agreed(o.agreed, "publish"), Speaker(o), o.groups), o.speaks)
<1> DEFINE m == Meant(Agreed(o.agreed, "publish"), Speaker(o), o.groups)
           kinds == KindsOf(o.agreed, "publish")
<1>1. /\ o.user \in User \cup {Nobody} /\ o.key \in used \cup {None} /\ o.process \in Process
      /\ o.user # Nobody => o.key \in used
      /\ o.groups \subseteq Group /\ (o.user = Nobody => o.groups = {})
      /\ o.stale => o.key \in used /\ sessions[o.key] = None
      /\ Rights(kinds, o.user, o.key, o.groups, o.process, o.stale, o.speaks)
  BY DEF IsRightful
<1>2. used \subseteq Key
  BY <1>1 DEF TypeInv
<1>3. /\ Speaker(o).user = o.user /\ Speaker(o).key = o.key /\ Speaker(o).process = o.process
  BY DEF Speaker, NoRequest
<1>4. m = [broadcast |-> "broadcast" \in kinds,
           groups    |-> IF "group" \in kinds THEN o.groups ELSE {},
           users     |-> IF "user" \in kinds THEN {o.user} \ {Nobody} ELSE {},
           sessions  |-> IF "session" \in kinds THEN {o.key} \ {None} ELSE {},
           anonymous |-> IF ("group" \in kinds \/ "user" \in kinds) /\ o.user = Nobody THEN {Placeholder(o.process)} ELSE {},
           lost      |-> "session" \in kinds /\ (o.key = None \/ sessions[o.key] = None)]
  <2> DEFINE a == Agreed(o.agreed, "publish")
             s == Speaker(o)
  <2>1. /\ a.broadcast = ("broadcast" \in kinds)
        /\ a.groups = IF "group" \in kinds THEN {SELF} ELSE {}
        /\ a.users = IF "user" \in kinds THEN {SELF} ELSE {}
        /\ a.sessions = IF "session" \in kinds THEN {SELF} ELSE {}
    BY DEF Agreed, KindsOf, Kind
  <2> HIDE DEF a, s, kinds
  <2>2. \A names, own : /\ Wrap({}, own) = {} /\ Wrap({SELF}, own) = own
    BY DEF Wrap
  <2>3. m = Meant(a, s, o.groups)
    BY DEF a, s
  <2>4. /\ Wrap(a.groups, o.groups) = IF "group" \in kinds THEN o.groups ELSE {}
        /\ Wrap(a.users, {s.user} \ {Nobody}) = IF "user" \in kinds THEN {o.user} \ {Nobody} ELSE {}
        /\ Wrap(a.sessions, {s.key} \ {None}) = IF "session" \in kinds THEN {o.key} \ {None} ELSE {}
    BY <1>3, <2>1, <2>2 DEF s
  <2>5. (SELF \in a.groups \cup a.users /\ ~IsAuthenticated(s))
          = (("group" \in kinds \/ "user" \in kinds) /\ o.user = Nobody)
    BY <1>3, <2>1 DEF IsAuthenticated, s
  <2>6. (SELF \in a.sessions /\ (s.key = None \/ sessions[s.key] = None))
          = ("session" \in kinds /\ (o.key = None \/ sessions[o.key] = None))
    BY <1>3, <2>1 DEF s
  <2> HIDE DEF m
  <2> QED
    BY <1>3, <2>1, <2>3, <2>4, <2>5, <2>6 DEF Meant, s
<1> HIDE DEF m, kinds
<1>5. m \in Meaning
  BY <1>1, <1>2, <1>4 DEF Meaning
<1>6. o.speaks \subseteq Channel
  BY <1>1 DEF Rights
<1>7. /\ m.broadcast = ("broadcast" \in kinds)
      /\ m.groups = IF "group" \in kinds THEN o.groups ELSE {}
      /\ m.users = IF "user" \in kinds THEN {o.user} \ {Nobody} ELSE {}
      /\ m.sessions = IF "session" \in kinds THEN {o.key} \ {None} ELSE {}
      /\ m.anonymous = IF ("group" \in kinds \/ "user" \in kinds) /\ o.user = Nobody THEN {Placeholder(o.process)} ELSE {}
      /\ m.lost = ("session" \in kinds /\ (o.key = None \/ sessions[o.key] = None))
  BY <1>4
<1>8. ASSUME NEW ch \in o.speaks PROVE Addressed(m, ch)
  <2>1. Entitled(kinds, o.user, o.key, o.groups, o.process, o.stale, ch)
    BY <1>1 DEF Rights
  <2>2. CASE ch = Broadcast /\ "broadcast" \in kinds
    BY <2>2, <1>7 DEF Addressed
  <2>3. ASSUME "group" \in kinds, NEW g, ch = <<"group", g>>,
               IF o.user # Nobody THEN g \in o.groups ELSE g = Placeholder(o.process)
        PROVE  Addressed(m, ch)
    <3>1. g \in m.groups \cup m.anonymous
      BY <2>3, <1>7
    <3> QED
      BY <2>3, <3>1 DEF Addressed
  <2>4. CASE "user" \in kinds /\ ch = <<"user", IF o.user # Nobody THEN o.user ELSE Placeholder(o.process)>>
    <3> DEFINE u == IF o.user # Nobody THEN o.user ELSE Placeholder(o.process)
    <3>1. u \in m.users \cup m.anonymous
      BY <2>4, <1>7
    <3>2. ch = <<"user", u>>
      BY <2>4
    <3> HIDE DEF u
    <3> QED
      BY <3>1, <3>2 DEF Addressed
  <2>5. CASE "session" \in kinds /\ ch = <<"session", o.key>> /\ o.key # None
    BY <2>5, <1>7 DEF Addressed
  <2>6. CASE "session" \in kinds /\ ch = <<"session", None>> /\ o.stale
    BY <2>6, <1>1, <1>7 DEF Addressed
  <2> QED
    BY <2>1, <2>2, <2>3, <2>4, <2>5, <2>6 DEF Entitled
<1>9. /\ m.broadcast => Broadcast \in o.speaks
      /\ \A g \in m.groups : <<"group", g>> \in o.speaks
      /\ \A u \in m.users : <<"user", u>> \in o.speaks
      /\ ~m.lost => \A k \in m.sessions : <<"session", k>> \in o.speaks
  <2>1. m.broadcast => Broadcast \in o.speaks
    BY <1>1, <1>7 DEF Rights
  <2>2. \A g \in m.groups : <<"group", g>> \in o.speaks
    BY <1>1, <1>7 DEF Rights
  <2>3. \A u \in m.users : <<"user", u>> \in o.speaks
    BY <1>1, <1>7 DEF Rights
  <2>4. ~m.lost => \A k \in m.sessions : <<"session", k>> \in o.speaks
    BY <1>1, <1>7 DEF Rights
  <2> QED
    BY <2>1, <2>2, <2>3, <2>4
<1> QED
  BY <1>5, <1>6, <1>8, <1>9 DEF Published, m

\* Publications of views and of browsers preserve the invariant.
LEMMA PublicationsInv ==
  /\ \A a \in Audience, b \in Browser, p \in Process, loaded \in BOOLEAN :
       IInv /\ (ViewPublishes(a, RequestOf(b, p, loaded)) \/ ViewPublishes(a, NoRequest(p))) => IInv'
  /\ \A c \in Request : IInv /\ BrowserPublishes(c) => IInv'
<1>1. ASSUME NEW a \in Audience, NEW r, Honest(r), r.given \/ r.key = None, IInv, ViewPublishes(a, r)
      PROVE  IInv'
  <2>1. IsAudience(a)
    BY DEF IsAudience
  <2>2. Published(Meant(a, r, GroupsAtLogin(r)), MessageChannels(a, r))
    BY <1>1, <2>1, ViewAddresses DEF IInv, SendInv, Honest
  <2> QED
    BY <1>1, <2>2, PublishInv DEF ViewPublishes
<1>2. ASSUME NEW a \in Audience, NEW b \in Browser, NEW p \in Process, NEW loaded \in BOOLEAN, IInv,
             ViewPublishes(a, RequestOf(b, p, loaded)) \/ ViewPublishes(a, NoRequest(p))
      PROVE  IInv'
  <2>1. Honest(RequestOf(b, p, loaded)) /\ Honest(NoRequest(p))
    BY <1>2, RequestsAreHonest DEF IInv, SendInv
  <2>2. RequestOf(b, p, loaded).given /\ NoRequest(p).key = None
    BY DEF RequestOf, NoRequest
  <2> QED
    BY <1>1, <1>2, <2>1, <2>2
<1>3. ASSUME NEW c \in Request, IInv, BrowserPublishes(c) PROVE IInv'
  <2> DEFINE o == conns[c]
             m == Meant(Agreed(o.agreed, "publish"), Speaker(o), o.groups)
  <2>1. IsRightful(o)
    BY <1>3 DEF BrowserPublishes, IInv, SendInv, ConnectionInv
  <2>2. Published(m, o.speaks)
    BY <1>3, <2>1, SpeakerAddresses DEF IInv, SendInv
  <2>3. PublishMessage(o.speaks, m)
    BY <1>3 DEF BrowserPublishes, Speaker
  <2> HIDE DEF o, m
  <2> QED
    BY <1>3, <2>2, <2>3, PublishInv
<1> QED
  BY <1>2, <1>3

-----------------------------------------------------------------------------
(* Websockets are opened, messages expire and are fetched.                 *)

\* A websocket that is opened is sent the persisted messages of the channels it listens on;
\* nothing else changes (process_request to send_persisted_messages).
LEMMA ConnectInv ==
  ASSUME IInv, NEW c \in Request, NEW b \in Browser, NEW p \in Process, NEW e \in Environ,
         NEW wish \in Wish, Connect(c, b, p, e, wish)
  PROVE  IInv'
<1>1. PICK permitted \in BOOLEAN, agreed \in SUBSET wish, loaded \in BOOLEAN :
        LET status == Answer(e, permitted)
            opened == Opened(b, RequestOf(b, p, loaded), agreed)
        IN  \/ /\ status = 101 /\ ~Loses(b, agreed)
               /\ conns' = [conns EXCEPT ![c] = opened]
               /\ seen' = [seen EXCEPT ![c] = {store[ch] : ch \in opened.listens} \ {0}]
            \/ /\ status # 101 \/ Loses(b, agreed)
               /\ conns' = [conns EXCEPT ![c] = Refused(IF status = 101 THEN 1001 ELSE status)]
               /\ seen' = [seen EXCEPT ![c] = {}]
  BY Zenon DEF Connect
<1>2. /\ memberOf' = memberOf /\ sessions' = sessions /\ used' = used /\ cookie' = cookie
      /\ store' = store /\ messages' = messages /\ atLogin' = atLogin /\ fetches' = fetches
  BY DEF Connect
<1> DEFINE o == Opened(b, RequestOf(b, p, loaded), agreed)
           sent == {store[ch] : ch \in o.listens} \ {0}
           N == Len(messages)
<1>3. /\ DOMAIN conns = Request /\ seen \in [Request -> SUBSET (1..N)]
      /\ store \in [Channel -> 0..N] /\ messages \in Seq(Meaning) /\ N \in Nat
      /\ used \subseteq Key /\ atLogin \in [Key -> SUBSET Group]
  BY DEF IInv, SendInv, TypeInv, ConnectionInv
<1>4. CASE /\ ~Loses(b, agreed)
           /\ conns' = [conns EXCEPT ![c] = o]
           /\ seen' = [seen EXCEPT ![c] = sent]
  <2>1. IsRightful(o) /\ o.since = N
    BY <1>4, OpenedIsRightful DEF IInv, SendInv, Opened
  <2>2. /\ o.listens \subseteq Channel
        /\ \A ch \in o.listens :
             Entitled(KindsOf(o.agreed, "subscribe"), o.user, o.key, o.groups, o.process, o.stale, ch)
        /\ o.user \in User \cup {Nobody} /\ o.key \in used \cup {None} /\ o.process \in Process
        /\ o.stale \in BOOLEAN /\ o.groups \in SUBSET Group
    BY <2>1 DEF IsRightful, Rights
  <2> HIDE DEF o, N
  <2>3. sent \subseteq 1..N
    BY <1>3, <2>2
  <2>4. \A i \in sent :
          Concerns(messages[i], KindsOf(o.agreed, "subscribe"), o.user, o.key, o.groups, o.process, o.stale)
    <3> SUFFICES ASSUME NEW ch \in o.listens, store[ch] # 0
                 PROVE  Concerns(messages[store[ch]], KindsOf(o.agreed, "subscribe"), o.user, o.key, o.groups, o.process, o.stale)
      OBVIOUS
    <3>1. store[ch] \in 1..N /\ messages[store[ch]] \in Meaning
      BY <1>3, <2>2 DEF N
    <3>2. Addressed(messages[store[ch]], ch)
      BY <2>2 DEF StoreInv, IInv, SendInv
    <3>3. KindsOf(o.agreed, "subscribe") \in SUBSET Kind
      BY DEF KindsOf
    <3>4. o.key \in Key \cup {None}
      BY <1>3, <2>2
    <3> QED
      BY <2>2, <3>1, <3>2, <3>3, <3>4, Meets
  <2>5. conns'[c] = o /\ seen'[c] = sent
    BY <1>3, <1>4
  <2>6. \A d \in Request : d # c => conns'[d] = conns[d] /\ seen'[d] = seen[d]
    BY <1>3, <1>4
  <2>7. TypeInv'
    BY <1>2, <1>3, <1>4, <2>3 DEF TypeInv, IInv, SendInv, N
  <2>8. ConnectionInv'
    <3>1. ASSUME NEW d \in Request, d # c, (IsOpen(d) \/ seen[d] # {})'
          PROVE  IsRightful(conns[d])' /\ conns'[d].since \in Nat
      BY <1>2, <2>6, <3>1 DEF ConnectionInv, IInv, SendInv, IsOpen, IsRightful, Rights, Entitled
    <3>2. IsRightful(conns[c])' /\ conns'[c].since \in Nat
      BY <1>2, <1>3, <2>1, <2>5 DEF IsRightful, Rights, Entitled
    <3>3. DOMAIN conns' = Request
      BY <1>3, <1>4
    <3> QED
      BY <3>1, <3>2, <3>3 DEF ConnectionInv
  <2>9. SeenInv'
    <3>1. ASSUME NEW d \in Request, d # c, NEW i \in seen'[d]
          PROVE  Concerns(messages[i], Kinds(d), conns[d].user, conns[d].key, conns[d].groups, conns[d].process, conns[d].stale)'
      BY <1>2, <2>6, <3>1 DEF SeenInv, IInv, SendInv, Kinds, Concerns, MeantFor
    <3>2. ASSUME NEW i \in seen'[c]
          PROVE  Concerns(messages[i], Kinds(c), conns[c].user, conns[c].key, conns[c].groups, conns[c].process, conns[c].stale)'
      BY <1>2, <2>4, <2>5, <3>2 DEF KindsOf, Kinds, Concerns, MeantFor
    <3> QED
      BY <3>1, <3>2 DEF SeenInv
  <2>10. EveryoneMeant'
    <3>1. ASSUME NEW i \in 1..N PROVE ~(i > conns'[c].since)
      BY <1>3, <2>1, <2>5
    <3> QED
      BY <1>2, <2>6, <3>1 DEF EveryoneMeant, IInv, IsOpen, Kinds, MeantForWebsocket, MeantFor, N
  <2> QED
    BY <1>2, <2>7, <2>8, <2>9, <2>10
       DEF IInv, SendInv, SessionInv, StoreInv, Addressed, FetchInv, IsSearch, Lookup, FetchedIsMeant,
           MeantFor, LastingInv, NoLater
<1>5. ASSUME NEW status, status # 101, conns' = [conns EXCEPT ![c] = Refused(status)],
             seen' = [seen EXCEPT ![c] = {}]
      PROVE  IInv'
  <2>1. ~IsOpen(c)' /\ seen'[c] = {}
    BY <1>3, <1>5 DEF IsOpen, Refused
  <2>2. \A d \in Request : d # c => conns'[d] = conns[d] /\ seen'[d] = seen[d]
    BY <1>3, <1>5
  <2>3. TypeInv' /\ DOMAIN conns' = Request
    BY <1>2, <1>3, <1>5 DEF TypeInv, IInv, SendInv
  <2>4. ConnectionInv' 
    BY <1>2, <2>1, <2>2, <2>3 DEF ConnectionInv, IInv, SendInv, IsOpen, IsRightful, Rights, Entitled
  <2>5. SeenInv'
    BY <1>2, <2>1, <2>2 DEF SeenInv, IInv, SendInv, Kinds, Concerns, MeantFor
  <2>6. EveryoneMeant'
    BY <1>2, <2>1, <2>2 DEF EveryoneMeant, IInv, IsOpen, Kinds, MeantForWebsocket, MeantFor
  <2> QED
    BY <1>2, <2>3, <2>4, <2>5, <2>6
       DEF IInv, SendInv, SessionInv, StoreInv, Addressed, FetchInv, IsSearch, Lookup, FetchedIsMeant,
           MeantFor, LastingInv, NoLater
<1> DEFINE status == IF Answer(e, permitted) = 101 THEN 1001 ELSE Answer(e, permitted)
<1>6. status # 101
  OBVIOUS
<1>7. \/ /\ ~Loses(b, agreed)
         /\ conns' = [conns EXCEPT ![c] = o]
         /\ seen' = [seen EXCEPT ![c] = sent]
      \/ /\ conns' = [conns EXCEPT ![c] = Refused(status)]
         /\ seen' = [seen EXCEPT ![c] = {}]
  BY <1>1, Zenon
<1> HIDE DEF status, o, sent
<1> QED
  BY <1>4, <1>5, <1>6, <1>7

\* What a step preserves that touches neither sessions nor websockets.
LEMMA HeardKept ==
  ASSUME IInv, UNCHANGED <<sessions, used, conns, messages, seen, atLogin>>
  PROVE  SessionInv' /\ ConnectionInv' /\ SeenInv' /\ EveryoneMeant'
<1>1. /\ sessions' = sessions /\ used' = used /\ conns' = conns /\ messages' = messages
      /\ seen' = seen /\ atLogin' = atLogin
  OBVIOUS
<1>2. SessionInv'
  BY <1>1 DEF SessionInv, IInv, SendInv
<1>3. ConnectionInv'
  BY <1>1 DEF ConnectionInv, IInv, SendInv, IsOpen, IsRightful, Rights, Entitled
<1>4. SeenInv'
  BY <1>1 DEF SeenInv, IInv, SendInv, Kinds, Concerns, MeantFor
<1>5. EveryoneMeant'
  BY <1>1 DEF EveryoneMeant, IInv, IsOpen, Kinds, MeantForWebsocket, MeantFor
<1> QED
  BY <1>2, <1>3, <1>4, <1>5

\* So does the expiry of a persisted message.
LEMMA ExpireInv ==
  ASSUME IInv, NEW ch \in Channel, Expire(ch)
  PROVE  IInv'
<1>1. /\ memberOf' = memberOf /\ sessions' = sessions /\ used' = used /\ cookie' = cookie
      /\ conns' = conns /\ messages' = messages /\ seen' = seen /\ atLogin' = atLogin
      /\ store' = [store EXCEPT ![ch] = 0]
      /\ fetches' = [c \in Request |->
           IF fetches[c] = None THEN None ELSE [fetches[c] EXCEPT !.lasting = @ \ {ch}]]
  BY DEF Expire
<1>2. TypeInv' /\ StoreInv'
  BY <1>1 DEF TypeInv, StoreInv, IInv, SendInv, Addressed
<1>3. SessionInv' /\ ConnectionInv' /\ SeenInv' /\ EveryoneMeant'
  BY <1>1, HeardKept
<1>4. ASSUME NEW c \in Request, fetches'[c] # None
      PROVE  /\ fetches[c] # None /\ fetches[c] \in Search /\ fetches'[c] \in Search
             /\ fetches'[c].lasting = fetches[c].lasting \ {ch}
             /\ fetches'[c].list = fetches[c].list /\ fetches'[c].at = fetches[c].at
             /\ fetches'[c].todo = fetches[c].todo /\ fetches'[c].found = fetches[c].found
             /\ fetches'[c].from = fetches[c].from /\ fetches'[c].user = fetches[c].user
             /\ fetches'[c].key = fetches[c].key /\ fetches'[c].groups = fetches[c].groups
  <2>1. fetches[c] # None /\ fetches'[c] = [fetches[c] EXCEPT !.lasting = @ \ {ch}]
    BY <1>1, <1>4
  <2>2. fetches[c] \in Search
    BY <2>1 DEF IInv, FetchInv, IsSearch
  <2> QED
    BY <2>1, <2>2 DEF Search
<1>5. FetchInv'
  BY <1>1, <1>4 DEF FetchInv, IInv, IsSearch, Lookup
<1>6. FetchedIsMeant'
  BY <1>1, <1>4 DEF FetchedIsMeant, IInv, MeantFor
<1>7. LastingInv'
  <2>1. DOMAIN store = Channel
    BY DEF IInv, SendInv, TypeInv
  <2> SUFFICES ASSUME NEW c \in Request, fetches'[c] # None, NEW other \in fetches'[c].lasting
               PROVE  /\ store'[other] # 0
                      /\ IF fetches'[c].at = 5
                         THEN fetches'[c].found # 0 /\ NoLater(fetches'[c].list, fetches'[c].from, other)
                         ELSE \/ other \in fetches'[c].todo
                              \/ \E j \in 1..4 : j > fetches'[c].at /\ other \in fetches'[c].list[j]
    BY DEF LastingInv, NoLater
  <2>2. other \in fetches[c].lasting /\ other # ch /\ fetches[c] # None
    BY <1>4
  <2>3. store'[other] = store[other]
    BY <1>1, <2>1, <2>2
  <2>4. LastingInv
    BY DEF IInv
  <2> QED
    BY <1>4, <2>2, <2>3, <2>4 DEF LastingInv, NoLater
<1> QED
  BY <1>2, <1>3, <1>5, <1>6, <1>7 DEF IInv, SendInv

\* A search starts at the first place of its list, with all that lasts ahead.
LEMMA FetchMessageInv ==
  ASSUME IInv, NEW c \in Request, NEW b \in Browser, NEW p \in Process, NEW audience,
         FetchMessage(c, b, p, audience)
  PROVE  IInv'
<1>1. PICK loaded \in BOOLEAN :
        fetches' = [fetches EXCEPT ![c] =
          [list |-> FetchList(RequestOf(b, p, loaded), audience), at |-> 1,
           todo |-> FetchList(RequestOf(b, p, loaded), audience)[1], found |-> 0, from |-> None,
           user |-> RequestOf(b, p, loaded).user, key |-> RequestOf(b, p, loaded).key,
           groups |-> GroupsAtLogin(RequestOf(b, p, loaded)),
           lasting |-> {ch \in UNION {FetchList(RequestOf(b, p, loaded), audience)[i] : i \in 1..4} :
                          store[ch] # 0}]]
  BY DEF FetchMessage
<1>2. /\ memberOf' = memberOf /\ sessions' = sessions /\ used' = used /\ cookie' = cookie
      /\ conns' = conns /\ store' = store /\ messages' = messages /\ seen' = seen /\ atLogin' = atLogin
  BY DEF FetchMessage
<1> DEFINE r == RequestOf(b, p, loaded)
           list == FetchList(r, audience)
           lasting == {ch \in UNION {list[i] : i \in 1..4} : store[ch] # 0}
           f == [list |-> list, at |-> 1, todo |-> list[1], found |-> 0, from |-> None,
                 user |-> r.user, key |-> r.key, groups |-> GroupsAtLogin(r), lasting |-> lasting]
<1>3. fetches' = [fetches EXCEPT ![c] = f] /\ DOMAIN fetches = Request
  BY <1>1 DEF IInv, FetchInv
<1>4. /\ Honest(r) /\ r.memberof \subseteq Group /\ used \subseteq Key
      /\ GroupsAtLogin(r) = r.memberof
  <2>1. Honest(r)
    BY RequestsAreHonest DEF IInv, SendInv
  <2> HIDE DEF r
  <2> QED
    BY <2>1 DEF IInv, SendInv, TypeInv, Honest, GroupsAtLogin, IsAuthenticated
<1>5. KeyOf(r) = r.key \/ (KeyOf(r) = None /\ r.key \in used /\ sessions[r.key] = None)
  BY <1>4 DEF KeyOf, Honest
<1>6. list \in [1..4 -> SUBSET Channel]
  <2>1. /\ <<"session", KeyOf(r)>> \in Channel
        /\ IsAuthenticated(r) => <<"user", r.user>> \in Channel
        /\ Named("group", r.memberof) \subseteq Channel
        /\ Broadcast \in Channel
    BY <1>4, <1>5 DEF Honest, Channel, Name, IsAuthenticated, Named
  <2> DEFINE A == IF audience \in {"session", "any"} THEN {<<"session", KeyOf(r)>>} ELSE {}
             B == IF audience \in {"user", "any"} /\ IsAuthenticated(r) THEN {<<"user", r.user>>} ELSE {}
             C == IF audience \in {"group", "any"} /\ IsAuthenticated(r) THEN Named("group", r.memberof) ELSE {}
             D == IF audience \in {"broadcast", "any"} THEN {Broadcast} ELSE {}
  <2>2. list = <<A, B, C, D>>
    BY DEF FetchList
  <2>3. A \in SUBSET Channel /\ B \in SUBSET Channel /\ C \in SUBSET Channel /\ D \in SUBSET Channel
    BY <2>1
  <2> HIDE DEF A, B, C, D, list
  <2> QED
    BY <2>2, <2>3
<1>7. \A j \in 1..4 : \A ch \in list[j] : Lookup(r.user, r.key, r.memberof, ch)
  <2>1. Lookup(r.user, r.key, r.memberof, <<"session", KeyOf(r)>>)
    BY <1>5 DEF Lookup
  <2>2. IsAuthenticated(r) => Lookup(r.user, r.key, r.memberof, <<"user", r.user>>)
    BY DEF Lookup, IsAuthenticated
  <2>3. IsAuthenticated(r) => \A ch \in Named("group", r.memberof) : Lookup(r.user, r.key, r.memberof, ch)
    BY <1>4 DEF Lookup, IsAuthenticated, Named, Honest
  <2>4. Lookup(r.user, r.key, r.memberof, Broadcast)
    BY DEF Lookup
  <2> HIDE DEF r
  <2> QED
    BY <2>1, <2>2, <2>3, <2>4 DEF FetchList
<1> HIDE DEF list, r
<1>8. /\ lasting \subseteq Channel /\ \A ch \in lasting : store[ch] # 0 /\ \E i \in 1..4 : ch \in list[i]
  BY <1>6
<1> HIDE DEF lasting
<1>9. f \in Search
  BY <1>4, <1>6, <1>8 DEF Search, Honest
<1>10. IsSearch(f)
  BY <1>4, <1>6, <1>7, <1>9 DEF IsSearch, Honest, IInv, SendInv, TypeInv
<1>11. \A d \in Request : fetches'[d] = IF d = c THEN f ELSE fetches[d]
  BY <1>3
<1>12. FetchInv'
  <2>1. \A d \in Request : fetches'[d] # None => IsSearch(fetches'[d])
    BY <1>10, <1>11 DEF FetchInv, IInv
  <2> QED
    BY <1>2, <1>3, <2>1 DEF FetchInv, IsSearch, Lookup
<1>13. FetchedIsMeant'
  BY <1>2, <1>11 DEF FetchedIsMeant, IInv, MeantFor
<1>14. LastingInv'
  <2>1. \A ch \in lasting : store[ch] # 0 /\ (ch \in f.todo \/ \E j \in 1..4 : j > f.at /\ ch \in f.list[j])
    BY <1>8
  <2>2. f.lasting = lasting /\ f.at # 5
    OBVIOUS
  <2> HIDE DEF f
  <2> QED
    BY <1>2, <1>11, <2>1, <2>2 DEF LastingInv, IInv, NoLater
<1>15. TypeInv' /\ StoreInv'
  BY <1>2 DEF IInv, SendInv, TypeInv, StoreInv, Addressed
<1> QED
  BY <1>2, <1>12, <1>13, <1>14, <1>15, HeardKept DEF IInv, SendInv

\* What is found on a channel of fetch_message is meant for who asks, or for a session that is gone.
LEMMA LookupFinds ==
  ASSUME NEW m \in Meaning, NEW user \in User \cup {Nobody}, NEW key \in Key \cup {None},
         NEW groups \in SUBSET Group,
         NEW ch, Addressed(m, ch), Lookup(user, key, groups, ch)
  PROVE  MeantFor(m, Kind, user, key, groups) \/ (m.lost /\ (key = None \/ sessions[key] = None))
<1> DEFINE P(x) == Placeholder(x)
<1>1. \A p \in Process : P(p) \notin User /\ P(p) \notin Group /\ P(p) \notin Key /\ P(p) # None
  OBVIOUS
<1>2. /\ m.groups \subseteq Group /\ m.users \subseteq User /\ m.sessions \subseteq Key
      /\ \A x \in m.anonymous : \E p \in Process : x = Placeholder(p)
  BY DEF Meaning
<1>3. \A x \in m.anonymous : \E p \in Process : x = P(p)
  BY <1>2
<1>4. "broadcast" \in Kind /\ "group" \in Kind /\ "user" \in Kind /\ "session" \in Kind
  BY DEF Kind
<1> HIDE DEF P
<1>5. CASE ch = Broadcast
  BY <1>4, <1>5, TupleFacts, Zenon DEF Addressed, MeantFor
<1>6. ASSUME NEW g, ch = <<"group", g>> PROVE MeantFor(m, Kind, user, key, groups)
  <2>1. /\ g \in m.groups \cup m.anonymous
        /\ g \in groups
    BY <1>6, TupleFacts DEF Addressed, Lookup, P
  <2> QED
    BY <2>1, <1>1, <1>2, <1>3, <1>4 DEF MeantFor
<1>7. ASSUME NEW u, ch = <<"user", u>> PROVE MeantFor(m, Kind, user, key, groups)
  <2>1. /\ u \in m.users \cup m.anonymous
        /\ user # Nobody /\ u = user
    BY <1>7, TupleFacts DEF Addressed, Lookup, P
  <2> QED
    BY <2>1, <1>1, <1>2, <1>3, <1>4 DEF MeantFor
<1>8. ASSUME NEW k, ch = <<"session", k>>
      PROVE  MeantFor(m, Kind, user, key, groups) \/ (m.lost /\ (key = None \/ sessions[key] = None))
  <2>1. /\ k \in m.sessions \/ (k = None /\ m.lost) \/ \E p \in Process : k = P(p)
        /\ k = key \/ (k = None /\ sessions[key] = None)
    BY <1>8, TupleFacts DEF Addressed, Lookup, P
  <2> QED
    BY <2>1, <1>1, <1>2, <1>4 DEF MeantFor
<1> QED
  BY <1>5, <1>6, <1>7, <1>8 DEF Addressed

\* A search that ends is still a search.
LEMMA SearchEnds ==
  ASSUME NEW f \in Search, NEW at \in 1..5, NEW n \in Nat, NEW where \in Channel \cup {None}
  PROVE  [f EXCEPT !.at = at, !.found = n, !.from = where] \in Search
BY DEF Search

\* A GET that finds a message ends the search; what lasts is not taken off the list.
LEMMA GetInv ==
  ASSUME IInv, NEW c \in Request, Get(c)
  PROVE  IInv'
<1> DEFINE f == fetches[c]
           g == fetches'[c]
           N == Len(messages)
<1>1. /\ memberOf' = memberOf /\ sessions' = sessions /\ used' = used /\ cookie' = cookie
      /\ conns' = conns /\ store' = store /\ messages' = messages /\ seen' = seen /\ atLogin' = atLogin
  BY DEF Get
<1>2. /\ DOMAIN fetches = Request /\ f # None /\ f.at <= 4 /\ IsSearch(f) /\ f \in Search
  BY DEF Get, IInv, FetchInv, IsSearch
<1>3. /\ f.list \in [1..4 -> SUBSET Channel] /\ f.at \in 1..4 /\ f.todo \subseteq f.list[f.at]
      /\ f.found = 0 /\ f.lasting \subseteq Channel
      /\ \A j \in 1..4 : \A ch \in f.list[j] : Lookup(f.user, f.key, f.groups, ch)
      /\ f.groups \in SUBSET Group
      /\ f.user \in User \cup {Nobody} /\ f.key \in used \cup {None} /\ (f.user # Nobody => f.key \in used)
  BY <1>2 DEF IsSearch, Search
<1>4. \A ch \in f.lasting :
        store[ch] # 0 /\ (ch \in f.todo \/ \E j \in 1..4 : j > f.at /\ ch \in f.list[j])
  BY <1>2, <1>3 DEF LastingInv, IInv
<1>5. /\ store \in [Channel -> 0..N] /\ messages \in Seq(Meaning) /\ N \in Nat
      /\ used \subseteq Key
  BY DEF IInv, SendInv, TypeInv
<1>6. \A d \in Request : d # c => fetches'[d] = fetches[d]
  BY <1>2 DEF Get
<1>7. DOMAIN fetches' = Request
  BY <1>2 DEF Get
<1>8. TypeInv' /\ StoreInv' /\ SessionInv' /\ ConnectionInv' /\ SeenInv' /\ EveryoneMeant'
  BY <1>1, HeardKept DEF IInv, SendInv, TypeInv, StoreInv, Addressed
<1>9. SUFFICES /\ IsSearch(g)
               /\ g.found # 0 => \/ MeantFor(messages[g.found], Kind, g.user, g.key, g.groups)
                                 \/ messages[g.found].lost /\ (g.key = None \/ sessions[g.key] = None)
               /\ \A ch \in g.lasting :
                    /\ store[ch] # 0
                    /\ IF g.at = 5 THEN g.found # 0 /\ NoLater(g.list, g.from, ch)
                       ELSE ch \in g.todo \/ \E j \in 1..4 : j > g.at /\ ch \in g.list[j]
  <2>1. FetchInv'
    <3>1. ASSUME NEW d \in Request, fetches'[d] # None PROVE IsSearch(fetches'[d])
      BY <1>6, <1>9, <3>1 DEF FetchInv, IInv
    <3> QED
      BY <1>1, <1>7, <3>1 DEF FetchInv, IsSearch, Lookup
  <2>2. FetchedIsMeant'
    BY <1>1, <1>6, <1>9 DEF FetchedIsMeant, IInv, MeantFor
  <2>3. LastingInv'
    BY <1>1, <1>6, <1>9 DEF LastingInv, IInv, NoLater
  <2> QED
    BY <1>8, <2>1, <2>2, <2>3 DEF IInv, SendInv
<1>10. CASE /\ f.todo = {}
            /\ fetches' = [fetches EXCEPT ![c].at = f.at + 1,
                                          ![c].todo = IF f.at = 4 THEN {} ELSE f.list[f.at + 1]]
  <2>1. g = [f EXCEPT !.at = f.at + 1, !.todo = IF f.at = 4 THEN {} ELSE f.list[f.at + 1]]
    BY <1>2, <1>10
  <2> HIDE DEF f, g
  <2>2. /\ g \in Search /\ g.at = f.at + 1 /\ g.todo = (IF f.at = 4 THEN {} ELSE f.list[f.at + 1])
        /\ g.list = f.list /\ g.found = f.found /\ g.user = f.user /\ g.key = f.key /\ g.groups = f.groups /\ g.lasting = f.lasting
    <3> DEFINE at == f.at + 1
               todo == IF f.at = 4 THEN {} ELSE f.list[f.at + 1]
    <3>1. at \in 1..5 /\ todo \in SUBSET Channel
      BY <1>3
    <3>2. g = [f EXCEPT !.at = at, !.todo = todo]
      BY <2>1
    <3> HIDE DEF at, todo
    <3>3. /\ g \in Search /\ g.at = at /\ g.todo = todo
          /\ g.list = f.list /\ g.found = f.found /\ g.user = f.user /\ g.key = f.key
          /\ g.groups = f.groups /\ g.lasting = f.lasting
      BY <1>2, <3>1, <3>2 DEF Search
    <3> QED
      BY <3>3 DEF at, todo
  <2>3. IsSearch(g)
    BY <1>3, <1>5, <2>2 DEF IsSearch, N
  <2>4. \A ch \in g.lasting : store[ch] # 0 /\ g.at # 5 /\ (ch \in g.todo \/ \E j \in 1..4 : j > g.at /\ ch \in g.list[j])
    <3> SUFFICES ASSUME NEW ch \in f.lasting
                 PROVE  store[ch] # 0 /\ g.at # 5 /\ (ch \in g.todo \/ \E j \in 1..4 : j > g.at /\ ch \in g.list[j])
      BY <2>2
    <3>1. PICK j \in 1..4 : j > f.at /\ ch \in f.list[j]
      BY <1>4, <1>10 DEF f
    <3>2. store[ch] # 0
      BY <1>4
    <3> QED
      BY <1>3, <2>2, <3>1, <3>2
  <2> QED
    BY <1>3, <2>2, <2>3, <2>4
<1>11. ASSUME NEW ch \in f.todo, fetches' = [fetches EXCEPT ![c] = AfterGet(f, ch)]
       PROVE  /\ IsSearch(g)
              /\ g.found # 0 => \/ MeantFor(messages[g.found], Kind, g.user, g.key, g.groups)
                                \/ messages[g.found].lost /\ (g.key = None \/ sessions[g.key] = None)
              /\ \A other \in g.lasting :
                   /\ store[other] # 0
                   /\ IF g.at = 5 THEN g.found # 0 /\ NoLater(g.list, g.from, other)
                      ELSE other \in g.todo \/ \E j \in 1..4 : j > g.at /\ other \in g.list[j]
  <2>0. g = AfterGet(f, ch) /\ ch \in Channel /\ ch \in f.list[f.at]
    BY <1>2, <1>3, <1>11
  <2>1. CASE store[ch] # 0
    <3>1. g = [f EXCEPT !.at = 5, !.found = store[ch], !.from = ch]
      BY <2>0, <2>1 DEF AfterGet
    <3>2. store[ch] \in 1..N /\ messages[store[ch]] \in Meaning
      BY <1>5, <2>0, <2>1
    <3> HIDE DEF f, g
    <3>3. /\ g \in Search /\ g.at = 5 /\ g.found = store[ch] /\ g.from = ch /\ g.list = f.list
          /\ g.user = f.user /\ g.key = f.key /\ g.groups = f.groups /\ g.lasting = f.lasting
      <4>1. store[ch] \in Nat
        BY <1>5, <3>2
      <4>2. g.at = 5 /\ g.found = store[ch] /\ g.from = ch /\ g.list = f.list
        BY <1>2, <2>0, <3>1, <4>1 DEF Search
      <4>3. g.user = f.user /\ g.key = f.key /\ g.groups = f.groups /\ g.lasting = f.lasting
        BY <1>2, <2>0, <3>1, <4>1 DEF Search
      <4>4. g \in Search
        <5>1. 5 \in 1..5 /\ ch \in Channel \cup {None}
          BY <2>0
        <5>2. [f EXCEPT !.at = 5, !.found = store[ch], !.from = ch] \in Search
          BY <1>2, <4>1, <5>1, SearchEnds, Zenon
        <5> QED
          BY <3>1, <5>2, Zenon
      <4> QED
        BY <4>2, <4>3, <4>4
    <3>4. IsSearch(g)
      BY <1>3, <1>5, <3>2, <3>3 DEF IsSearch, N
    <3>5. \/ MeantFor(messages[store[ch]], Kind, f.user, f.key, f.groups)
          \/ messages[store[ch]].lost /\ (f.key = None \/ sessions[f.key] = None)
      <4>1. Addressed(messages[store[ch]], ch)
        BY <2>0, <2>1 DEF StoreInv, IInv, SendInv
      <4>2. Lookup(f.user, f.key, f.groups, ch)
        BY <1>3, <2>0
      <4>3. TypeInv /\ f.key \in Key \cup {None}
        BY <1>3, <1>5 DEF IInv, SendInv
      <4> QED
        BY <1>3, <3>2, <4>1, <4>2, <4>3, LookupFinds
    <3>6. \A other \in f.lasting : store[other] # 0 /\ NoLater(f.list, ch, other)
      <4> SUFFICES ASSUME NEW other \in f.lasting PROVE NoLater(f.list, ch, other)
        BY <1>4
      <4>1. \E j \in 1..4 : f.at <= j /\ other \in f.list[j]
        BY <1>3, <1>4
      <4> QED
        BY <1>3, <2>0, <4>1 DEF NoLater
    <3> QED
      BY <2>1, <3>3, <3>4, <3>5, <3>6
  <2>2. CASE store[ch] = 0
    <3>1. g = [f EXCEPT !.todo = @ \ {ch}]
      BY <2>0, <2>2 DEF AfterGet
    <3>2. /\ g \in Search /\ g.at = f.at /\ g.found = f.found /\ g.list = f.list /\ g.todo = f.todo \ {ch}
          /\ g.user = f.user /\ g.key = f.key /\ g.groups = f.groups /\ g.lasting = f.lasting
      BY <1>2, <3>1 DEF Search
    <3> HIDE DEF f, g
    <3>3. IsSearch(g)
      BY <1>3, <1>5, <3>2 DEF IsSearch, N
    <3>4. ch \notin f.lasting
      BY <1>4, <2>2
    <3> QED
      BY <1>3, <1>4, <3>2, <3>3, <3>4
  <2> QED
    BY <2>1, <2>2
<1>12. \/ \E ch \in f.todo : fetches' = [fetches EXCEPT ![c] = AfterGet(f, ch)]
       \/ /\ f.todo = {}
          /\ fetches' = [fetches EXCEPT ![c].at = f.at + 1,
                                        ![c].todo = IF f.at = 4 THEN {} ELSE f.list[f.at + 1]]
  BY DEF Get
<1> QED
  BY <1>10, <1>11, <1>12

\* A websocket or a search that ends leaves nothing behind (release).
LEMMA EndInv ==
  ASSUME IInv, NEW c \in Request, End(c)
  PROVE  IInv'
<1>1. /\ memberOf' = memberOf /\ sessions' = sessions /\ used' = used /\ cookie' = cookie
      /\ store' = store /\ messages' = messages /\ atLogin' = atLogin
      /\ conns' = [conns EXCEPT ![c] = None] /\ seen' = [seen EXCEPT ![c] = {}]
      /\ fetches' = [fetches EXCEPT ![c] = None]
  BY DEF End
<1>2. /\ DOMAIN conns = Request /\ DOMAIN fetches = Request
      /\ seen \in [Request -> SUBSET (1..Len(messages))]
  BY DEF IInv, SendInv, TypeInv, ConnectionInv, FetchInv
<1>3. /\ conns'[c] = None /\ seen'[c] = {} /\ fetches'[c] = None
      /\ \A d \in Request : d # c => conns'[d] = conns[d] /\ seen'[d] = seen[d] /\ fetches'[d] = fetches[d]
      /\ DOMAIN conns' = Request /\ DOMAIN fetches' = Request
  BY <1>1, <1>2
<1>4. TypeInv' /\ SessionInv' /\ StoreInv'
  BY <1>1, <1>2 DEF TypeInv, SessionInv, StoreInv, Addressed, IInv, SendInv
<1>5. ConnectionInv'
  BY <1>1, <1>3 DEF ConnectionInv, IInv, SendInv, IsOpen, IsRightful, Rights, Entitled
<1>6. SeenInv'
  BY <1>1, <1>3 DEF SeenInv, IInv, SendInv, Kinds, Concerns, MeantFor
<1>7. EveryoneMeant'
  BY <1>1, <1>3 DEF EveryoneMeant, IInv, IsOpen, Kinds, MeantForWebsocket, MeantFor
<1>8. FetchInv'
  BY <1>1, <1>3 DEF FetchInv, IInv, IsSearch, Lookup
<1>9. FetchedIsMeant'
  BY <1>1, <1>3 DEF FetchedIsMeant, IInv, MeantFor
<1>10. LastingInv'
  BY <1>1, <1>3 DEF LastingInv, IInv, NoLater
<1> QED
  BY <1>4, <1>5, <1>6, <1>7, <1>8, <1>9, <1>10 DEF IInv, SendInv

-----------------------------------------------------------------------------
\* The invariant holds at first.
LEMMA InitInv == Init => IInv
<1> SUFFICES ASSUME Init PROVE IInv
  OBVIOUS
<1>1. messages = <<>> /\ messages \in Seq(Meaning) /\ Len(messages) = 0
  BY DEF Init
<1>2. TypeInv
  BY <1>1 DEF Init, TypeInv
<1>3. SessionInv /\ ConnectionInv /\ StoreInv /\ SeenInv
  BY DEF Init, SessionInv, ConnectionInv, StoreInv, SeenInv, IsOpen
<1>4. EveryoneMeant /\ FetchInv /\ FetchedIsMeant /\ LastingInv
  BY DEF Init, EveryoneMeant, FetchInv, FetchedIsMeant, LastingInv, IsOpen
<1> QED
  BY <1>2, <1>3, <1>4 DEF IInv, SendInv

\* Every step preserves it.
LEMMA NextInv == IInv /\ [Next]_vars => IInv'
<1> SUFFICES ASSUME IInv, [Next]_vars PROVE IInv'
  OBVIOUS
<1>1. CASE SessionStep
  BY <1>1, SessionStepInv
<1>2. ASSUME NEW c \in Request, NEW b \in Browser, NEW p \in Process, NEW e \in Environ, NEW wish \in Wish,
             Connect(c, b, p, e, wish)
      PROVE  IInv'
  BY <1>2, ConnectInv
<1>3. ASSUME NEW a \in Audience, NEW b \in Browser, NEW p \in Process, NEW loaded \in BOOLEAN,
             ViewPublishes(a, RequestOf(b, p, loaded)) \/ ViewPublishes(a, NoRequest(p))
      PROVE  IInv'
  BY <1>3, PublicationsInv
<1>4. ASSUME NEW c \in Request, BrowserPublishes(c) PROVE IInv'
  BY <1>4, PublicationsInv
<1>5. ASSUME NEW ch \in Channel, Expire(ch) PROVE IInv'
  BY <1>5, ExpireInv
<1>6. ASSUME NEW c \in Request, NEW b \in Browser, NEW p \in Process, NEW audience \in Asked,
             FetchMessage(c, b, p, audience)
      PROVE  IInv'
  BY <1>6, FetchMessageInv
<1>7. ASSUME NEW c \in Request, Get(c) \/ End(c) PROVE IInv'
  BY <1>7, GetInv, EndInv
<1>8. CASE UNCHANGED vars
  <2>1. /\ memberOf' = memberOf /\ sessions' = sessions /\ used' = used /\ cookie' = cookie
        /\ conns' = conns /\ store' = store /\ messages' = messages /\ seen' = seen /\ atLogin' = atLogin
        /\ fetches' = fetches
    BY <1>8 DEF vars
  <2>2. TypeInv' /\ StoreInv'
    BY <2>1 DEF IInv, SendInv, TypeInv, StoreInv, Addressed
  <2>3. FetchInv' /\ FetchedIsMeant'
    BY <2>1 DEF IInv, FetchInv, IsSearch, Lookup, FetchedIsMeant, MeantFor
  <2>4. LastingInv'
    BY <2>1 DEF IInv, LastingInv, NoLater
  <2> QED
    BY <2>1, <2>2, <2>3, <2>4, HeardKept DEF IInv, SendInv
<1> QED
  BY <1>1, <1>2, <1>3, <1>4, <1>5, <1>6, <1>7, <1>8 DEF Next, SessionStep

\* What the invariant leaves out of the types.
Answered(o) ==
  /\ o.status \in {101, 400, 403, 426, 500, 1001}
  /\ o.agreed \subseteq PossibleChannels
  /\ o.status # 101 => o.agreed = {} /\ o.speaks = {} /\ o.listens = {} /\ o.user = Nobody /\ o.groups = {}

ShapeInv ==
  /\ \A k \in Key : sessions[k] # None =>
       sessions[k] \in [user : User \cup {Nobody}, memberof : SUBSET Group]
  /\ \A c \in Request : conns[c] # None => Answered(conns[c])

\* Every step keeps what the types need beyond the invariant: the sessions stored and the answers given.
LEMMA ShapeStep ==
  ASSUME IInv, ShapeInv, [Next]_vars
  PROVE  ShapeInv'
<1> DEFINE Session == [user : User \cup {Nobody}, memberof : SUBSET Group]
<1>1. /\ DOMAIN sessions = Key /\ DOMAIN conns = Request /\ memberOf \in [Grouped -> SUBSET Group]
      /\ cookie \in [Browser -> used \cup {None}]
  BY DEF IInv, SendInv, TypeInv, SessionInv, ConnectionInv
<1>2. ASSUME UNCHANGED sessions
      PROVE  \A k \in Key : sessions'[k] # None => sessions'[k] \in Session
  BY <1>2 DEF ShapeInv
<1>3. ASSUME UNCHANGED conns PROVE \A c \in Request : conns'[c] # None => Answered(conns'[c])
  BY <1>3 DEF ShapeInv
<1>4. ASSUME SessionStep PROVE ShapeInv'
  <2>1. ASSUME NEW b \in Browser, NEW u \in User, NEW k \in Key, Login(b, u, k), NEW j \in Key, sessions'[j] # None
        PROVE  sessions'[j] \in Session
    <3> DEFINE old == SessionOf(cookie[b])
               kept == IF old.user = Nobody \/ k = cookie[b] THEN old.memberof ELSE {}
               stored == StoredGroups(u, kept)
    <3>1. old.memberof \subseteq Group
      BY <1>1 DEF SessionOf, NoSession, ShapeInv, IInv, SendInv, TypeInv
    <3>2. stored \subseteq Group
      BY <1>1, <3>1 DEF StoredGroups
    <3>3. sessions' = [i \in Key |-> IF i = k THEN [user |-> u, memberof |-> stored]
                                     ELSE IF i = cookie[b] THEN None ELSE sessions[i]]
      BY <2>1 DEF Login
    <3> HIDE DEF stored
    <3>4. CASE j = k
      BY <3>2, <3>3, <3>4
    <3>5. CASE j # k
      BY <2>1, <3>3, <3>5 DEF ShapeInv
    <3> QED
      BY <3>4, <3>5
  <2>2. ASSUME NEW b \in Browser, NEW k \in Key, BeginSession(b, k), NEW j \in Key, sessions'[j] # None
        PROVE  sessions'[j] \in Session
    BY <1>1, <2>2 DEF BeginSession, NoSession, ShapeInv
  <2>3. ASSUME NEW b \in Browser, NEW forget \in BOOLEAN, EndSession(b, forget), NEW j \in Key, sessions'[j] # None
        PROVE  sessions'[j] \in Session
    BY <1>1, <2>3 DEF EndSession, ShapeInv
  <2>4. ASSUME NEW u \in Grouped, NEW groups \in SUBSET Group, ChangeGroups(u, groups)
        PROVE  UNCHANGED sessions
    BY <2>4 DEF ChangeGroups
  <2>5. UNCHANGED conns
    BY <1>4, SessionStepKeeps DEF IInv, SendInv
  <2>6. \A j \in Key : sessions'[j] # None => sessions'[j] \in Session
    BY <1>2, <1>4, <2>1, <2>2, <2>3, <2>4 DEF SessionStep
  <2> QED
    BY <1>3, <2>5, <2>6 DEF ShapeInv, Answered
<1>5. ASSUME NEW c \in Request, NEW b \in Browser, NEW p \in Process, NEW e \in Environ, NEW wish \in Wish,
             Connect(c, b, p, e, wish)
      PROVE  ShapeInv'
  <2>1. PICK permitted \in BOOLEAN, agreed \in SUBSET wish, loaded \in BOOLEAN :
          LET status == Answer(e, permitted)
              opened == Opened(b, RequestOf(b, p, loaded), agreed)
          IN  \/ /\ status = 101 /\ ~Loses(b, agreed)
                 /\ conns' = [conns EXCEPT ![c] = opened]
                 /\ seen' = [seen EXCEPT ![c] = {store[ch] : ch \in opened.listens} \ {0}]
              \/ /\ status # 101 \/ Loses(b, agreed)
                 /\ conns' = [conns EXCEPT ![c] = Refused(IF status = 101 THEN 1001 ELSE status)]
                 /\ seen' = [seen EXCEPT ![c] = {}]
    BY <1>5, Zenon DEF Connect
  <2> DEFINE o == Opened(b, RequestOf(b, p, loaded), agreed)
             status == IF Answer(e, permitted) = 101 THEN 1001 ELSE Answer(e, permitted)
  <2>2. Answered(o)
    BY DEF Opened, Answered
  <2>3. Answered(Refused(status))
    BY DEF Answer, Refused, Answered
  <2>4. conns' = [conns EXCEPT ![c] = o] \/ conns' = [conns EXCEPT ![c] = Refused(status)]
    BY <2>1, Zenon
  <2> HIDE DEF o, status
  <2>5. \A d \in Request : conns'[d] # None => Answered(conns'[d])
    BY <1>1, <2>2, <2>3, <2>4 DEF ShapeInv
  <2>6. UNCHANGED sessions
    BY <1>5 DEF Connect
  <2> QED
    BY <1>2, <2>5, <2>6 DEF ShapeInv, Answered
<1>6. ASSUME NEW c \in Request, End(c) PROVE ShapeInv'
  <2>1. \A d \in Request : conns'[d] # None => Answered(conns'[d])
    BY <1>1, <1>6 DEF End, ShapeInv
  <2>2. UNCHANGED sessions
    BY <1>6 DEF End
  <2> QED
    BY <1>2, <2>1, <2>2 DEF ShapeInv, Answered
<1>7. ASSUME UNCHANGED <<sessions, conns>> PROVE ShapeInv'
  BY <1>2, <1>3, <1>7 DEF ShapeInv, Answered
<1>8. ASSUME NEW a \in Audience, NEW b \in Browser, NEW p \in Process, NEW loaded \in BOOLEAN,
             ViewPublishes(a, RequestOf(b, p, loaded)) \/ ViewPublishes(a, NoRequest(p))
      PROVE  UNCHANGED <<sessions, conns>>
  BY <1>8 DEF ViewPublishes, PublishMessage
<1>9. ASSUME NEW c \in Request, BrowserPublishes(c) \/ Get(c) PROVE UNCHANGED <<sessions, conns>>
  BY <1>9 DEF BrowserPublishes, PublishMessage, Get
<1>10. ASSUME NEW ch \in Channel, Expire(ch) PROVE UNCHANGED <<sessions, conns>>
  BY <1>10 DEF Expire
<1>11. ASSUME NEW c \in Request, NEW b \in Browser, NEW p \in Process, NEW audience \in Asked,
              FetchMessage(c, b, p, audience)
       PROVE  UNCHANGED <<sessions, conns>>
  BY <1>11 DEF FetchMessage
<1>12. CASE UNCHANGED vars
  BY <1>7, <1>12 DEF vars
<1> QED
  BY <1>4, <1>5, <1>6, <1>7, <1>8, <1>9, <1>10, <1>11, <1>12 DEF Next, SessionStep

\* Types, and that whoever is someone has a session (process_request, set_pubsub_channels).
THEOREM Types == Spec => []TypeOK
<1>1. Init => ShapeInv
  BY DEF Init, ShapeInv
<1>2. IInv /\ ShapeInv /\ [Next]_vars => ShapeInv'
  BY ShapeStep
<1>3. IInv /\ ShapeInv => TypeOK
  <2> SUFFICES ASSUME IInv, ShapeInv PROVE TypeOK
    OBVIOUS
  <2>1. TypeInv /\ SessionInv
    BY DEF IInv, SendInv
  <2>2. ASSUME NEW c \in Request, conns[c] # None
        PROVE  /\ conns[c].status \in {101, 400, 403, 426, 500, 1001}
               /\ conns[c].agreed \subseteq PossibleChannels /\ conns[c].groups \subseteq Group
               /\ conns[c].speaks \cup conns[c].listens \subseteq Channel
               /\ \A act \in {"publish", "subscribe"} :
                    <<act, "session">> \in conns[c].agreed => conns[c].key \in used
               /\ conns[c].user # Nobody => conns[c].user \in User /\ conns[c].key \in used
    <3>1. Answered(conns[c])
      BY <2>2 DEF ShapeInv
    <3>2. CASE conns[c].status # 101
      BY <3>1, <3>2 DEF Answered
    <3>3. CASE conns[c].status = 101
      <4>1. IsRightful(conns[c])
        BY <2>2, <3>3 DEF IsOpen, IInv, SendInv, ConnectionInv
      <4> QED
        BY <3>1, <4>1 DEF Answered, IsRightful, Rights, KindsOf, Kind
    <3> QED
      BY <3>2, <3>3
  <2>3. \A c \in Request : fetches[c] # None =>
          /\ fetches[c].at \in 1..5 /\ fetches[c].found \in 0..Len(messages)
          /\ fetches[c].lasting \subseteq Channel
    BY <2>1 DEF IInv, FetchInv, IsSearch, Search, TypeInv
  <2> QED
    BY <2>1, <2>2, <2>3 DEF TypeOK, TypeInv, SessionInv, ShapeInv
<1> QED
  BY <1>1, <1>2, <1>3, InitInv, NextInv, PTL DEF Spec

\* Whatever logins, logouts and changes of groups come, a websocket is sent only what is meant
\* for everyone, or for the session, the user or a group of the login in force when it was
\* opened; but for placeholders and sessions that are gone (set_pubsub_channels,
\* send_persisted_messages, publish_message, store_groups_in_session).
THEOREM Privacy == Spec => []NobodyElse
<1>1. \A c : Kind \cap Kinds(c) = Kinds(c)
  BY DEF Kinds
<1>2. IInv => NobodyElse
  BY <1>1 DEF IInv, SendInv, SeenInv, NobodyElse, Concerns, MeantForWebsocket
<1> QED
  BY <1>2, InitInv, NextInv, PTL DEF Spec

\* A websocket is sent what is published while it is open and meant for everyone, or for the
\* session, the user or a group of the login in force when it was opened; but for sessions that
\* are gone (set_pubsub_channels, publish_message, store_groups_in_session).
THEOREM Completeness == Spec => []EveryoneMeant
<1>1. IInv => EveryoneMeant
  BY DEF IInv
<1> QED
  BY <1>1, InitInv, NextInv, PTL DEF Spec

\* fetch_message returns what is meant for who asks (get_expirations, fetch_message).
THEOREM FetchIsPrivate == Spec => []FetchedIsMeant
<1>1. IInv => FetchedIsMeant
  BY DEF IInv
<1> QED
  BY <1>1, InitInv, NextInv, PTL DEF Spec

\* fetch_message finds what is there all along, or an earlier audience's (fetch_message).
THEOREM FetchIsComplete == Spec => []FetchFindsLasting
<1>1. IInv => FetchFindsLasting
  BY DEF IInv, LastingInv, FetchFindsLasting
<1> QED
  BY <1>1, InitInv, NextInv, PTL DEF Spec
=============================================================================
