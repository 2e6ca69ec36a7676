------------------------------- MODULE Notify -------------------------------
(***************************************************************************)
(* Notify: notices are saved, published to every server through a Redis    *)
(* channel and written to the event streams (SSE connections) of the       *)
(* users they are for, by each server to its own connections.  The channel *)
(* forgets: who does not listen when a notice is published misses it.      *)
(***************************************************************************)
EXTENDS Integers, FiniteSets, SequencesExt

CONSTANTS
  Server,    \* server processes
  User,
  Company,   \* tenants
  TenantOf,  \* the tenant in a user's token, or Nobody
  Conn,      \* connections, used once each
  Notice,    \* notice ids, used once each
  Beats,     \* heartbeats a stream survives: 2 in the code
  Sendings,  \* bound: how often Redis may get one publication
  Everyone,  \* the userId of a broadcast
  Nobody

ASSUME NotifyAssumption ==
  /\ Everyone \notin User
  /\ Nobody \notin User \union Server \union Company \union Notice \union {Everyone}
  /\ TenantOf \in [User -> Company \union {Nobody}] /\ Beats \in Nat /\ Sendings \in Nat

VARIABLES
  notice,    \* the notification rows
  conn,      \* the connections: their end of the wire and what reached the client
  registry,  \* per server, tenant and user the connections registered
  stage,     \* how far the request that saved a notice is with it
  after,     \* the notice that goes before it in the same request
  channel,   \* per server how many copies of a notice its subscriber has yet to read
  wired,     \* servers that have their publisher and subscriber, a second after start
  hearing,   \* servers whose subscriber is subscribed and connected
  sent,      \* history: how often Redis published a notice
  missed     \* history: notices that Redis did not bring to a server

rowVars == <<notice, stage, after>>
wireVars == <<channel, sent, missed>>
notifyVars == <<rowVars, conn, registry, wireVars, wired, hearing>>

NoNotice == [tenant |-> Nobody, to |-> Nobody, by |-> Nobody, read |-> FALSE, past |-> FALSE]
NoConn == [tenant |-> Nobody, user |-> Nobody, server |-> Nobody, state |-> "none",
           beats |-> 0, got |-> [n \in Notice |-> 0]]
Ended == [NoConn EXCEPT !.state = "ended"]

NoticeRow == [tenant : Company, to : User \union {Everyone}, by : Server,
              read : BOOLEAN, past : BOOLEAN]
Stream == [tenant : Company, user : User, server : Server, state : {"open", "left"},
           beats : 0 .. Beats, got : [Notice -> Nat]]

\* Rows, streams and queues keep their shape.
NotifyTypeOK ==
  /\ notice \in [Notice -> {NoNotice} \union NoticeRow]
  /\ \A c \in Conn : conn[c] \in {NoConn, Ended} \union Stream
  /\ registry \in [Server -> [Company -> [User -> SUBSET Conn]]]
  /\ stage \in [Notice -> {"none", "publish", "local", "done", "lost"}]
  /\ after \in [Notice -> Notice \union {Nobody}]
  /\ channel \in [Server -> [Notice -> Nat]]
  /\ sent \in [Notice -> Nat] /\ missed \subseteq Notice \X Server
  /\ hearing \subseteq wired /\ wired \subseteq Server

NotifyInit ==
  /\ notice = [n \in Notice |-> NoNotice]
  /\ conn = [c \in Conn |-> NoConn]
  /\ registry = [s \in Server |-> [t \in Company |-> [u \in User |-> {}]]]
  /\ stage = [n \in Notice |-> "none"] /\ after = [n \in Notice |-> Nobody]
  /\ channel = [s \in Server |-> [n \in Notice |-> 0]]
  /\ sent = [n \in Notice |-> 0] /\ missed = {} /\ wired = {} /\ hearing = {}

-----------------------------------------------------------------------------
\* register, for the tenant of the user's token or, if it has none, of the header.
Register(c, s, u, t) ==
  /\ conn[c] = NoConn /\ TenantOf[u] \in {t, Nobody}
  /\ conn' = [conn EXCEPT ![c] = [NoConn EXCEPT !.tenant = t, !.user = u, !.server = s,
                                                !.state = "open"]]
  /\ registry' = [registry EXCEPT ![s][t][u] = @ \union {c}]
  /\ UNCHANGED <<rowVars, wireVars, wired, hearing>>

\* External: the client is gone; its server has yet to notice.
ClientLeaves(c) ==
  /\ conn[c].state = "open"
  /\ conn' = [conn EXCEPT ![c].state = "left"]
  /\ UNCHANGED <<rowVars, registry, wireVars, wired, hearing>>

\* Fault: the user's entry goes with its first connection.
UnregisterUser(c) ==
  [registry EXCEPT ![conn[c].server][conn[c].tenant][conn[c].user] = {}]

\* remove: of this connection, the user's other devices stay.
Unregister(c) ==
  [registry EXCEPT ![conn[c].server][conn[c].tenant][conn[c].user] = @ \ {c}]

\* response.on('close')
Closes(c) ==
  /\ conn[c].state = "left"
  /\ conn' = [conn EXCEPT ![c] = Ended]
  /\ registry' = Unregister(c)
  /\ UNCHANGED <<rowVars, wireVars, wired, hearing>>

Registered(s) == UNION {registry[s][t][u] : t \in Company, u \in User}

\* startHeartbeat: the third tick finds lastHeartbeat, which nothing renews, more
\* than a minute old.
Heartbeat(s) ==
  LET old == {c \in Registered(s) : conn[c].beats = Beats}
  IN  /\ Registered(s) # {}
      /\ conn' = [c \in Conn |->
           IF c \in old THEN Ended
           ELSE IF c \in Registered(s) THEN [conn[c] EXCEPT !.beats = @ + 1]
           ELSE conn[c]]
      /\ registry' = [registry EXCEPT ![s] = [t \in Company |-> [u \in User |-> @[t][u] \ old]]]
      /\ UNCHANGED <<rowVars, wireVars, wired, hearing>>

-----------------------------------------------------------------------------
\* sendToUser, broadcastToTenant: the connections of one server that a notice is
\* written to.
Streams(s, n) ==
  UNION {registry[s][notice[n].tenant][u] : u \in {v \in User : notice[n].to \in {v, Everyone}}}

\* sendToConnection: who has left does not read what is written.
Written(s, n) ==
  [c \in Conn |-> IF c \in Streams(s, n) /\ conn[c].state = "open"
                  THEN [conn[c] EXCEPT !.got[n] = @ + 1] ELSE conn[c]]

\* createNotificationEntity
NewNotice(s, t, to) == [NoNotice EXCEPT !.tenant = t, !.to = to, !.by = s]

\* The rows of one request are saved together, and then announced one by one.
SaveNotices(s, t, ns, to) ==
  /\ \A i \in DOMAIN ns : notice[ns[i]] = NoNotice
  /\ notice' = [n \in Notice |-> IF n \in Range(ns) THEN NewNotice(s, t, to[n]) ELSE notice[n]]
  /\ stage' = [n \in Notice |-> IF n \in Range(ns) THEN "publish" ELSE stage[n]]
  /\ after' = [n \in Notice |-> IF \E i \in DOMAIN ns : i > 1 /\ n = ns[i]
                                THEN ns[(CHOOSE i \in DOMAIN ns : i > 1 /\ n = ns[i]) - 1]
                                ELSE after[n]]
  /\ UNCHANGED <<conn, registry, wireVars, wired, hearing>>

\* send: a broadcast.
SendAll(s, t, n) == SaveNotices(s, t, <<n>>, [m \in {n} |-> Everyone])

\* sendToUsers: a notice for each user of the list, whose tenant nobody looks at.
\* (sendToRole is given no users by its only caller and sends nothing.)
SendToUsers(s, t, ns, to) == SaveNotices(s, t, ns, to)

\* The turn of this notice in its request.
Due(n) ==
  /\ stage[n] = "publish"
  /\ after[n] \in {Nobody} \union {m \in Notice : stage[m] = "done"}

\* Redis hands a publication to those who listen.
Published(n) ==
  /\ channel' = [s \in Server |-> IF s \in hearing THEN [channel[s] EXCEPT ![n] = @ + 1]
                                  ELSE channel[s]]
  /\ missed' = missed \union ({n} \X (Server \ hearing))
  /\ sent' = [sent EXCEPT ![n] = @ + 1]

\* publishToRedis.
Publish(n) ==
  /\ Due(n) /\ notice[n].by \in wired
  /\ Published(n)
  /\ stage' = [stage EXCEPT ![n] = "local"]
  /\ UNCHANGED <<notice, after, conn, registry, wired, hearing>>

\* The connection breaks before the answer: ioredis sends the command once more.
PublishUnanswered(n) ==
  /\ Due(n) /\ notice[n].by \in wired /\ sent[n] + 1 < Sendings
  /\ Published(n)
  /\ UNCHANGED <<rowVars, conn, registry, wired, hearing>>

\* Redis fails, or the publisher is not there yet: the error is logged.
PublishFails(n) ==
  /\ Due(n)
  /\ missed' = IF sent[n] = 0 THEN missed \union ({n} \X Server) ELSE missed
  /\ stage' = [stage EXCEPT ![n] = "local"]
  /\ UNCHANGED <<notice, after, conn, registry, channel, sent, wired, hearing>>

\* Then the server writes to its own connections, although it has subscribed, too.
WriteLocal(n) ==
  /\ stage[n] = "local"
  /\ conn' = Written(notice[n].by, n)
  /\ stage' = [stage EXCEPT ![n] = "done"]
  /\ UNCHANGED <<notice, after, registry, wireVars, wired, hearing>>

\* Fault: what the server has read is still there and read again.
HandleRedisMessageAgain(s, n) ==
  /\ channel[s][n] > 0
  /\ conn' = Written(s, n)
  /\ channel' = [channel EXCEPT ![s][n] = IF \E c \in Conn : conn[c].got[n] > Sendings
                                          THEN @ - 1 ELSE @]
  /\ UNCHANGED <<rowVars, registry, sent, missed, wired, hearing>>

\* handleRedisMessage
HandleRedisMessage(s, n) ==
  /\ channel[s][n] > 0
  /\ conn' = Written(s, n)
  /\ channel' = [channel EXCEPT ![s][n] = @ - 1]
  /\ UNCHANGED <<rowVars, registry, sent, missed, wired, hearing>>

\* NotificationsModule.onModuleInit, a second later.
Wire(s) ==
  /\ s \notin wired /\ wired' = wired \union {s}
  /\ UNCHANGED <<rowVars, conn, registry, wireVars, hearing>>

\* The subscription succeeds, or is made again after a reconnect; when it fails that
\* is logged, and the server stays deaf.
Subscribed(s) ==
  /\ s \in wired \ hearing /\ hearing' = hearing \union {s}
  /\ UNCHANGED <<rowVars, conn, registry, wireVars, wired>>

\* What a server's subscriber has not read when its connection goes.
Unread(s) == {<<n, s>> : n \in {m \in Notice : channel[s][m] > 0}}

\* The subscriber loses Redis, and with it what was on its way.
GoesDeaf(s) ==
  /\ s \in hearing /\ hearing' = hearing \ {s}
  /\ channel' = [channel EXCEPT ![s] = [n \in Notice |-> 0]]
  /\ missed' = missed \union Unread(s)
  /\ UNCHANGED <<rowVars, conn, registry, sent, wired>>

\* A server dies and starts again; its requests end where they are.
ServerDies(s) ==
  LET open == {n \in Notice : notice[n].by = s /\ stage[n] \in {"publish", "local"}}
  IN  /\ conn' = [c \in Conn |-> IF conn[c].server = s THEN Ended ELSE conn[c]]
      /\ registry' = [registry EXCEPT ![s] = [t \in Company |-> [u \in User |-> {}]]]
      /\ stage' = [n \in Notice |-> IF n \in open THEN "lost" ELSE stage[n]]
      /\ channel' = [channel EXCEPT ![s] = [n \in Notice |-> 0]]
      /\ missed' = missed \union Unread(s)
                     \union ({n \in open : stage[n] = "publish" /\ sent[n] = 0} \X Server)
      /\ wired' = wired \ {s} /\ hearing' = hearing \ {s}
      /\ UNCHANGED <<notice, after, sent>>

-----------------------------------------------------------------------------
\* findByUser: the history, broadcasts included, without what has expired.
FindByUser(u, unreadOnly) ==
  {n \in Notice : /\ notice[n].tenant = TenantOf[u] /\ notice[n].tenant # Nobody
                  /\ notice[n].to \in {u, Everyone} /\ ~notice[n].past
                  /\ unreadOnly => ~notice[n].read}

\* The rows that markAsRead and getUnreadCount ask for: the user's own notices, of the
\* tenant in the token if there is one.
OwnNotices(u) ==
  {n \in Notice : notice[n].to = u /\ TenantOf[u] \in {notice[n].tenant, Nobody}}

\* getUnreadCount: of the user's own notices, the expired ones included.
UnreadCount(u) == Cardinality({n \in OwnNotices(u) : ~notice[n].read})

\* Fault: what a list shows is read, whoever it is for.
ReadableAsListed(u) == FindByUser(u, FALSE)

\* markAsRead updates rows whose userId is the reader's.
Readable(u) == OwnNotices(u)

MarkAsRead(u, ns) ==
  /\ \E n \in Readable(u) \intersect ns : ~notice[n].read
  /\ notice' = [n \in Notice |-> IF n \in Readable(u) \intersect ns
                                 THEN [notice[n] EXCEPT !.read = TRUE] ELSE notice[n]]
  /\ UNCHANGED <<stage, after, conn, registry, wireVars, wired, hearing>>

\* Time passes a notice's expireAt.
NoticeExpires(n) ==
  /\ notice[n] # NoNotice /\ ~notice[n].past
  /\ notice' = [notice EXCEPT ![n].past = TRUE]
  /\ UNCHANGED <<stage, after, conn, registry, wireVars, wired, hearing>>

Lists == {ns \in UNION {[1 .. k -> Notice] : k \in 1 .. Cardinality(Notice)} : IsInjective(ns)}

NotifyNext ==
  \/ \E c \in Conn : \/ ClientLeaves(c) \/ Closes(c)
                     \/ \E s \in Server, u \in User, t \in Company : Register(c, s, u, t)
  \/ \E s \in Server, t \in Company :
       \/ \E n \in Notice : SendAll(s, t, n)
       \/ \E ns \in Lists : \E to \in [Range(ns) -> User] : SendToUsers(s, t, ns, to)
  \/ \E n \in Notice :
       \/ Publish(n) \/ PublishUnanswered(n) \/ PublishFails(n) \/ WriteLocal(n) \/ NoticeExpires(n)
       \/ \E s \in Server : HandleRedisMessage(s, n)
  \/ \E s \in Server : Heartbeat(s) \/ Wire(s) \/ Subscribed(s) \/ GoesDeaf(s) \/ ServerDies(s)
  \/ \E u \in User : MarkAsRead(u, Notice) \/ \E n \in Notice : MarkAsRead(u, {n})

NotifySpec == NotifyInit /\ [][NotifyNext]_notifyVars

\* Event loops go on, and Redis or its client answers; nobody has to send, connect,
\* read or leave, no subscription has to succeed and no heartbeat has to help.
NotifyFairness ==
  /\ \A n \in Notice :
       /\ WF_notifyVars(Publish(n) \/ PublishFails(n)) /\ WF_notifyVars(WriteLocal(n))
       /\ \A s \in Server : WF_notifyVars(HandleRedisMessage(s, n))
  /\ \A c \in Conn : WF_notifyVars(Closes(c))

-----------------------------------------------------------------------------
For(n, c) == conn[c].tenant = notice[n].tenant /\ notice[n].to \in {conn[c].user, Everyone}

(* A notice reaches only streams of those it is for, opened for its own       *)
(* tenant: by users whose token is of that tenant, or is of none.             *)
RightEars ==
  \A c \in Conn, n \in Notice :
    conn[c].got[n] > 0 => For(n, c) /\ TenantOf[conn[c].user] \in {notice[n].tenant, Nobody}

(* A stream hears a notice once for each time that Redis published it, and     *)
(* once more on the server that sends it.                                      *)
HeardAsSent ==
  \A c \in Conn, n \in Notice : conn[c].state \in {"open", "left"} =>
    conn[c].got[n] <= sent[n] + (IF conn[c].server = notice[n].by THEN 1 ELSE 0)

(* A notice not yet announced reaches every open stream that it is for,        *)
(* unless that stream ends: on the server that sends it whatever becomes of    *)
(* Redis, on another one unless Redis did not bring it there.                  *)
Reaches ==
  \A n \in Notice, c \in Conn :
    stage[n] = "publish" /\ sent[n] = 0 /\ conn[c].state = "open" /\ For(n, c)
      ~> \/ conn[c].got[n] > 0 \/ conn[c].state # "open"
         \/ <<n, conn[c].server>> \in missed /\ conn[c].server # notice[n].by

(* No server keeps a stream whose client has gone, on whichever server and     *)
(* under whichever tenant and user it was registered.                          *)
Forgets ==
  \A c \in Conn : conn[c].state \in {"left", "ended"}
                    ~> \A s \in Server : c \notin Registered(s)

(* The servers write to the streams that are there, and to no others.          *)
StreamsServed == Reaches /\ Forgets

(* Nobody reads a notice for somebody else: what leaves the unread list of one *)
(* user has expired, or that user has read.                                    *)
UnreadStays ==
  [][\A u \in User, n \in Notice :
       n \in FindByUser(u, TRUE) /\ n \notin FindByUser(u, TRUE)' /\ ~notice'[n].past
         => UnreadCount(u)' < UnreadCount(u)]_notifyVars

(* A notice is heard by those it is for, as often as it was sent and never by  *)
(* others, and stays unread for each of them until they read it themselves.    *)
NoticesFit == [](NotifyTypeOK /\ RightEars /\ HeardAsSent) /\ UnreadStays
=============================================================================
