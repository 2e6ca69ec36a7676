--------------------------- MODULE DeliveryProofs ---------------------------
(***************************************************************************)
(* What goes in and out of the server: the requests of a client in a       *)
(* window, the reconnects of the MQTT client, the notices that Redis       *)
(* carries to the streams, and the commands that make the lamps show what  *)
(* they should.                                                            *)
(***************************************************************************)
EXTENDS RateLimit, PtlGateway, Notify, PtlLights,
        FiniteSetTheorems, SequenceTheorems, TLAPS

-----------------------------------------------------------------------------
(* The rate limit *)

\* What was admitted was counted first.
AdmittedWasCounted ==
  /\ count \in 0 .. Points + 1 /\ guard \in [Request -> 0 .. Points + 1] /\ admitted \in Nat
  /\ admitted <= count /\ admitted <= Points

RateFlags == ticking \in BOOLEAN /\ orphaned \in BOOLEAN

(* RateLimitGuard admits at most its points per window (AtMostPoints), for any points  *)
(* and any number of requests, though each asks Redis twice and may die between the    *)
(* two: a request is judged by the number that its own INCR answered.                  *)
THEOREM NeverAboveItsPoints == RateSpec => []AtMostPoints
<1>1. RateInit => AdmittedWasCounted
  BY RateAssumption DEF RateInit, AdmittedWasCounted
<1>2. AdmittedWasCounted /\ [RateNext]_rateVars => AdmittedWasCounted'
  <2> SUFFICES ASSUME AdmittedWasCounted, [RateNext]_rateVars
               PROVE  AdmittedWasCounted'
    OBVIOUS
  <2>1. ASSUME NEW r \in Request, Incr(r)
        PROVE  AdmittedWasCounted'
    BY <2>1, RateAssumption DEF AdmittedWasCounted, Incr, Admits
  <2>2. ASSUME NEW r \in Request, Passes1(r)
        PROVE  AdmittedWasCounted'
    BY <2>2, RateAssumption DEF AdmittedWasCounted, Passes1
  <2>3. CASE WindowEnds
    BY <2>3, RateAssumption DEF AdmittedWasCounted, WindowEnds
  <2>4. CASE RateCrash
    BY <2>4, RateAssumption DEF AdmittedWasCounted, RateCrash
  <2>5. CASE UNCHANGED rateVars
    BY <2>5 DEF AdmittedWasCounted, rateVars
  <2> QED
    BY <2>1, <2>2, <2>3, <2>4, <2>5 DEF RateNext
<1>3. RateInit => RateFlags
  BY DEF RateInit, RateFlags
<1>4. RateFlags /\ [RateNext]_rateVars => RateFlags'
  <2> SUFFICES ASSUME RateFlags, [RateNext]_rateVars
               PROVE  RateFlags'
    OBVIOUS
  <2>1. ASSUME NEW r \in Request, Incr(r) \/ Passes1(r)
        PROVE  RateFlags'
    BY <2>1, Zenon DEF RateFlags, Incr, Passes1
  <2>2. CASE WindowEnds \/ RateCrash
    BY <2>2, Zenon DEF RateFlags, WindowEnds, RateCrash
  <2>3. CASE UNCHANGED rateVars
    BY <2>3 DEF RateFlags, rateVars
  <2> QED
    BY <2>1, <2>2, <2>3 DEF RateNext
<1>5. AdmittedWasCounted /\ RateFlags => AtMostPoints
  BY DEF AdmittedWasCounted, RateFlags, AtMostPoints, RateTypeOK
<1> QED
  BY <1>1, <1>2, <1>3, <1>4, <1>5, PTL DEF RateSpec

-----------------------------------------------------------------------------
(* The MQTT client *)

\* The stable timer runs only while a connection stands, or since it has just been lost;
\* a client that is still there has an attempt left.
CountInv ==
  /\ client \in {"none", "connecting", "connected", "lost"}
  /\ attempts \in 0 .. MaxReconnects /\ tries \in Nat /\ attempts = tries
  /\ outages \in 0 .. MaxOutages
  /\ timer => client \in {"connected", "lost"}
  /\ client # "none" => attempts < MaxReconnects

GatewayFlags == timer \in BOOLEAN /\ broker \in BOOLEAN /\ heard \in BOOLEAN

(* The count of reconnects is cleared by a new client or a stable connection and by    *)
(* nothing else (CountIsHonest), and it never passes MaxReconnects, however often the  *)
(* broker fails.  That the timer fires only for a connection that stood when it was    *)
(* started is what makes the first part inductive.                                     *)
THEOREM ReconnectsAreCounted == GatewaySpec => [](CountIsHonest /\ attempts <= MaxReconnects)
<1>1. GatewayInit => CountInv
  BY GatewayAssumption DEF GatewayInit, CountInv
<1>2. CountInv /\ [GatewayNext]_gateVars => CountInv'
  <2> SUFFICES ASSUME CountInv, [GatewayNext]_gateVars
               PROVE  CountInv'
    OBVIOUS
  <2>1. CASE Connects
    BY <2>1 DEF CountInv, Connects
  <2>2. CASE Loses
    BY <2>2 DEF CountInv, Loses
  <2>3. CASE Reconnects
    BY <2>3, GatewayAssumption DEF CountInv, Reconnects
  <2>4. CASE Stable
    BY <2>4, GatewayAssumption DEF CountInv, Stable
  <2>5. CASE CommandOnline \/ CommandAnyway
    BY <2>5, GatewayAssumption
       DEF CountInv, CommandOnline, CommandAnyway, SendCommand, EnsureClient
  <2>6. CASE Hears \/ HearsNothing \/ BrokerDown \/ BrokerUp
    BY <2>6, GatewayAssumption DEF CountInv, Hears, HearsNothing, BrokerDown, BrokerUp
  <2>7. CASE GatewayRestart
    BY <2>7, GatewayAssumption DEF CountInv, GatewayRestart
  <2>8. CASE UNCHANGED gateVars
    BY <2>8 DEF CountInv, gateVars
  <2> QED
    BY <2>1, <2>2, <2>3, <2>4, <2>5, <2>6, <2>7, <2>8 DEF GatewayNext
<1>3. GatewayInit => GatewayFlags
  BY DEF GatewayInit, GatewayFlags
<1>4. GatewayFlags /\ [GatewayNext]_gateVars => GatewayFlags'
  <2> SUFFICES ASSUME GatewayFlags, [GatewayNext]_gateVars
               PROVE  GatewayFlags'
    OBVIOUS
  <2>1. CASE Connects \/ Loses \/ Reconnects \/ Stable
    BY <2>1, Zenon DEF GatewayFlags, Connects, Loses, Reconnects, Stable
  <2>2. CASE CommandOnline \/ CommandAnyway
    BY <2>2, Zenon DEF GatewayFlags, CommandOnline, CommandAnyway, SendCommand
  <2>3. CASE Hears \/ HearsNothing \/ BrokerDown \/ BrokerUp \/ GatewayRestart
    BY <2>3, Zenon DEF GatewayFlags, Hears, HearsNothing, BrokerDown, BrokerUp, GatewayRestart
  <2>4. CASE UNCHANGED gateVars
    BY <2>4 DEF GatewayFlags, gateVars
  <2> QED
    BY <2>1, <2>2, <2>3, <2>4 DEF GatewayNext
<1>5. CountInv /\ GatewayFlags => CountIsHonest /\ attempts <= MaxReconnects
  BY GatewayAssumption DEF CountInv, GatewayFlags, CountIsHonest, GatewayTypeOK
<1> QED
  BY <1>1, <1>2, <1>3, <1>4, <1>5, PTL DEF GatewaySpec

-----------------------------------------------------------------------------
(* Notices *)

\* Rows, streams, queues and the table of connections keep their shape.
NotifyShape == NotifyTypeOK /\ conn \in [Conn -> {NoConn, Ended} \union Stream]

\* Who is registered has a stream on that server, of that tenant and user.
RegistryHonest ==
  \A s \in Server, t \in Company, u \in User, c \in Conn :
    c \in registry[s][t][u] =>
      conn[c] \in Stream /\ conn[c].server = s /\ conn[c].tenant = t /\ conn[c].user = u

\* A stream is of the tenant of its user's token, if that has one.
TokensFit ==
  \A c \in Conn : conn[c] \in Stream => TenantOf[conn[c].user] \in {conn[c].tenant, Nobody}

\* What a subscriber has yet to read was published; what was published was saved.
QueuesSent ==
  /\ \A s \in Server, n \in Notice : channel[s][n] <= sent[n]
  /\ \A n \in Notice : notice[n] = NoNotice => stage[n] = "none" /\ sent[n] = 0

\* How often a notice went to the streams of a server, or will.
Said(s, n) == sent[n] + (IF stage[n] = "done" /\ s = notice[n].by THEN 1 ELSE 0)

\* What a stream got and may still get from its server's subscriber.
HeardBound ==
  \A c \in Conn, n \in Notice : conn[c] \in Stream =>
    conn[c].got[n] + channel[conn[c].server][n] <= Said(conn[c].server, n)

NotifyInv ==
  NotifyShape /\ RegistryHonest /\ TokensFit /\ QueuesSent /\ HeardBound /\ RightEars

\* What is no stream has heard nothing.
LEMMA StreamKinds ==
  ASSUME NotifyShape, NEW c \in Conn
  PROVE  /\ conn[c] \in {NoConn, Ended} \union Stream
         /\ NoConn \notin Stream /\ Ended \notin Stream
         /\ conn[c] \notin Stream => \A n \in Notice : conn[c].got[n] = 0
         /\ conn[c].got \in [Notice -> Nat]
         /\ conn[c].state \in {"open", "left"} => conn[c] \in Stream
<1>1. conn[c] \in {NoConn, Ended} \union Stream
  BY DEF NotifyShape
<1>2. NoConn \notin Stream /\ Ended \notin Stream
  <2>1. NoConn.server = Nobody /\ Ended.server = Nobody
    BY DEF NoConn, Ended
  <2> QED
    BY <2>1, NotifyAssumption DEF Stream
<1>3. \A x \in {NoConn, Ended} : x.got \in [Notice -> Nat] /\ x.state \notin {"open", "left"}
                                 /\ \A n \in Notice : x.got[n] = 0
  BY DEF NoConn, Ended
<1> QED
  BY <1>1, <1>2, <1>3 DEF Stream

\* A row is a row.
LEMMA RowKinds ==
  ASSUME NotifyShape, NEW n \in Notice
  PROVE  /\ NoNotice \notin NoticeRow
         /\ notice[n] # NoNotice => notice[n] \in NoticeRow
         /\ sent[n] \in Nat /\ \A s \in Server : channel[s][n] \in Nat /\ Said(s, n) \in Nat
<1>1. NoNotice \notin NoticeRow
  BY NotifyAssumption DEF NoNotice, NoticeRow
<1> QED
  BY <1>1 DEF NotifyShape, NotifyTypeOK, Said

\* A step after which streams, registrations and queues are among those before it, and
\* which leaves what the rows say of whom they are for.
LEMMA Quiet ==
  ASSUME NotifyInv, NotifyShape',
         \A c \in Conn : conn'[c] \in Stream =>
           /\ conn[c] \in Stream /\ conn'[c].got = conn[c].got
           /\ conn'[c].server = conn[c].server /\ conn'[c].tenant = conn[c].tenant
           /\ conn'[c].user = conn[c].user,
         \A s \in Server, t \in Company, u \in User, c \in Conn :
           c \in registry'[s][t][u] => c \in registry[s][t][u] /\ conn'[c] \in Stream,
         \A s \in Server, n \in Notice : channel'[s][n] <= channel[s][n],
         \A n \in Notice :
           /\ sent'[n] = sent[n]
           /\ stage[n] = "done" => stage'[n] = "done"
           /\ stage[n] = "none" => stage'[n] = "none"
           /\ notice'[n] = NoNotice => notice[n] = NoNotice
           /\ notice'[n].by = notice[n].by /\ notice'[n].tenant = notice[n].tenant
           /\ notice'[n].to = notice[n].to
  PROVE  NotifyInv'
<1>1. RegistryHonest' /\ TokensFit'
  BY DEF NotifyInv, RegistryHonest, TokensFit
<1>2. \A n \in Notice, s \in Server :
        /\ channel[s][n] \in Nat /\ channel'[s][n] \in Nat /\ sent[n] \in Nat
        /\ Said(s, n) \in Nat /\ Said(s, n)' \in Nat
  BY DEF NotifyInv, NotifyShape, NotifyTypeOK, Said
<1>3. QueuesSent'
  BY <1>2 DEF NotifyInv, QueuesSent
<1>4. HeardBound'
  <2> SUFFICES ASSUME NEW c \in Conn, NEW n \in Notice, conn'[c] \in Stream
               PROVE  conn'[c].got[n] + channel'[conn'[c].server][n] <= (Said(conn[c].server, n))'
    BY DEF HeardBound
  <2>1. PICK s \in Server : s = conn[c].server /\ s = conn'[c].server
    BY DEF Stream
  <2>2. conn[c].got[n] + channel[s][n] <= Said(s, n) /\ conn[c].got[n] \in Nat
    BY <2>1 DEF NotifyInv, HeardBound, Stream
  <2>3. Said(s, n) <= Said(s, n)'
    BY <1>2 DEF Said
  <2>4. (Said(conn[c].server, n))' = Said(s, n)'
    BY <2>1 DEF Said
  <2> QED
    BY <1>2, <2>1, <2>2, <2>3, <2>4
<1>5. RightEars'
  <2> SUFFICES ASSUME NEW c \in Conn, NEW n \in Notice, conn'[c].got[n] > 0
               PROVE  For(n, c)' /\ TenantOf[conn'[c].user] \in {notice'[n].tenant, Nobody}
    BY DEF RightEars
  <2>1. conn'[c] \in Stream
    <3>1. conn'[c] \in {NoConn, Ended} \union Stream
      BY DEF NotifyShape
    <3>2. NoConn.got[n] = 0 /\ Ended.got[n] = 0
      BY DEF NoConn, Ended
    <3> QED
      BY <3>1, <3>2
  <2>2. For(n, c) /\ TenantOf[conn[c].user] \in {notice[n].tenant, Nobody}
    BY <2>1 DEF NotifyInv, RightEars
  <2> QED
    BY <2>1, <2>2 DEF For
<1> QED
  BY <1>1, <1>3, <1>4, <1>5 DEF NotifyInv

-----------------------------------------------------------------------------
(* Connections *)

\* One entry of a table of connections is set.
LEMMA EntrySet ==
  ASSUME NEW f \in [Server -> [Company -> [User -> SUBSET Conn]]], NEW s \in Server,
         NEW t \in Company, NEW u \in User, NEW S \in SUBSET Conn
  PROVE  /\ [f EXCEPT ![s][t][u] = S] \in [Server -> [Company -> [User -> SUBSET Conn]]]
         /\ \A r \in Server, v \in Company, w \in User :
              [f EXCEPT ![s][t][u] = S][r][v][w]
                = IF r = s /\ v = t /\ w = u THEN S ELSE f[r][v][w]
<1> DEFINE h == [f[s][t] EXCEPT ![u] = S]
           g == [f[s] EXCEPT ![t] = h]
<1>1. h \in [User -> SUBSET Conn]
      /\ \A w \in User : h[w] = IF w = u THEN S ELSE f[s][t][w]
  OBVIOUS
<1>2. [f EXCEPT ![s][t][u] = S] = [f EXCEPT ![s] = g]
  OBVIOUS
<1> HIDE DEF h
<1>3. g \in [Company -> [User -> SUBSET Conn]]
      /\ \A v \in Company : g[v] = IF v = t THEN h ELSE f[s][v]
  BY <1>1
<1> HIDE DEF g
<1>4. [f EXCEPT ![s] = g] \in [Server -> [Company -> [User -> SUBSET Conn]]]
      /\ \A r \in Server : [f EXCEPT ![s] = g][r] = IF r = s THEN g ELSE f[r]
  BY <1>3
<1> QED
  BY <1>1, <1>2, <1>3, <1>4

Opened(t, s, u) == [NoConn EXCEPT !.tenant = t, !.user = u, !.server = s, !.state = "open"]

LEMMA NewStream ==
  ASSUME NEW s \in Server, NEW u \in User, NEW t \in Company
  PROVE  /\ Opened(t, s, u) \in Stream /\ Opened(t, s, u).user = u
         /\ Opened(t, s, u).server = s /\ Opened(t, s, u).tenant = t
         /\ \A n \in Notice : Opened(t, s, u).got[n] = 0
<1>1. NoConn \in [tenant : {Nobody}, user : {Nobody}, server : {Nobody}, state : {"none"},
                 beats : {0}, got : [Notice -> {0}]]
  BY DEF NoConn
<1> HIDE DEF NoConn
<1>2. 0 \in 0 .. Beats
  BY NotifyAssumption
<1>3. Opened(t, s, u) \in [tenant : {t}, user : {u}, server : {s}, state : {"open"},
                          beats : {0}, got : [Notice -> {0}]]
  BY <1>1 DEF Opened
<1> QED
  BY <1>2, <1>3 DEF Stream

LEMMA RegisterKeeps ==
  ASSUME NotifyInv, NEW c \in Conn, NEW s \in Server, NEW u \in User, NEW t \in Company,
         Register(c, s, u, t)
  PROVE  NotifyInv'
<1> DEFINE x == Opened(t, s, u)
<1>1. /\ x \in Stream /\ x.user = u /\ x.server = s /\ x.tenant = t
      /\ \A n \in Notice : x.got[n] = 0
  BY NewStream
<1>2. conn' = [conn EXCEPT ![c] = x] /\ TenantOf[u] \in {t, Nobody}
  BY DEF Register, Opened
<1> HIDE DEF x
<1>3. UNCHANGED <<notice, stage, after, channel, sent, missed, wired, hearing>>
  BY DEF Register, rowVars, wireVars
<1> DEFINE S == registry[s][t][u] \union {c}
<1>4. registry' = [registry EXCEPT ![s][t][u] = S] /\ S \in SUBSET Conn
      /\ registry \in [Server -> [Company -> [User -> SUBSET Conn]]]
  BY DEF Register, NotifyInv, NotifyShape, NotifyTypeOK
<1> HIDE DEF S
<1>5. conn'[c] = x /\ \A d \in Conn \ {c} : conn'[d] = conn[d]
  BY <1>2 DEF NotifyInv, NotifyShape
<1>6. NotifyShape'
  <2>1. conn' \in [Conn -> {NoConn, Ended} \union Stream]
    BY <1>1, <1>2 DEF NotifyInv, NotifyShape
  <2>2. registry' \in [Server -> [Company -> [User -> SUBSET Conn]]]
    BY <1>4, EntrySet
  <2> QED
    BY <1>3, <2>1, <2>2 DEF NotifyInv, NotifyShape, NotifyTypeOK
<1>7. ASSUME NEW r \in Server, NEW v \in Company, NEW w \in User
      PROVE  registry'[r][v][w] = IF r = s /\ v = t /\ w = u THEN registry[r][v][w] \union {c}
                                  ELSE registry[r][v][w]
  <2>1. registry'[r][v][w] = IF r = s /\ v = t /\ w = u THEN S ELSE registry[r][v][w]
    BY <1>4, EntrySet
  <2> QED
    BY <2>1 DEF S
<1>8. \A r \in Server, v \in Company, w \in User : c \notin registry[r][v][w]
  <2>1. conn[c] \notin Stream
    BY StreamKinds DEF Register, NotifyInv
  <2> QED
    BY <2>1 DEF NotifyInv, RegistryHonest
<1>9. RegistryHonest'
  <2> SUFFICES ASSUME NEW r \in Server, NEW v \in Company, NEW w \in User, NEW d \in Conn,
                      d \in registry'[r][v][w]
               PROVE  conn'[d] \in Stream /\ conn'[d].server = r /\ conn'[d].tenant = v
                      /\ conn'[d].user = w
    BY DEF RegistryHonest
  <2>1. CASE d = c
    <3>1. d \notin registry[r][v][w]
      BY <1>8, <2>1
    <3>2. registry'[r][v][w] = IF r = s /\ v = t /\ w = u THEN registry[r][v][w] \union {c}
                               ELSE registry[r][v][w]
      BY <1>7
    <3>3. r = s /\ v = t /\ w = u
      BY <3>1, <3>2
    <3> QED
      BY <1>1, <1>5, <2>1, <3>3
  <2>2. CASE d # c
    <3>1. d \in registry[r][v][w]
      BY <1>7, <2>2
    <3> QED
      BY <1>5, <2>2, <3>1 DEF NotifyInv, RegistryHonest
  <2> QED
    BY <2>1, <2>2
<1>10. TokensFit'
  BY <1>1, <1>2, <1>5 DEF NotifyInv, TokensFit
<1>11. QueuesSent'
  BY <1>3 DEF NotifyInv, QueuesSent
<1>12. HeardBound'
  <2> SUFFICES ASSUME NEW d \in Conn, NEW n \in Notice, conn'[d] \in Stream
               PROVE  conn'[d].got[n] + channel[conn'[d].server][n] <= (Said(conn[d].server, n))'
    BY <1>3 DEF HeardBound
  <2>1. (Said(conn[d].server, n))' = Said(conn'[d].server, n)
    BY <1>3 DEF Said
  <2>2. CASE d = c
    <3>1. sent[n] <= Said(s, n) /\ channel[s][n] <= sent[n]
          /\ channel[s][n] \in Nat /\ sent[n] \in Nat /\ Said(s, n) \in Nat
      BY RowKinds DEF NotifyInv, QueuesSent, Said
    <3> QED
      BY <1>1, <1>5, <2>1, <2>2, <3>1
  <2>3. CASE d # c
    BY <1>5, <2>1, <2>3 DEF NotifyInv, HeardBound
  <2> QED
    BY <2>2, <2>3
<1>13. RightEars'
  BY <1>1, <1>3, <1>5 DEF NotifyInv, RightEars, For
<1> QED
  BY <1>6, <1>9, <1>10, <1>11, <1>12, <1>13 DEF NotifyInv

LEMMA ClientLeavesKeeps ==
  ASSUME NotifyInv, NEW c \in Conn, ClientLeaves(c)
  PROVE  NotifyInv'
<1>1. UNCHANGED <<notice, stage, after, registry, channel, sent, missed, wired, hearing>>
      /\ conn[c].state = "open" /\ conn' = [conn EXCEPT ![c].state = "left"]
  BY DEF ClientLeaves, rowVars, wireVars
<1>2. conn[c] \in Stream
  BY <1>1, StreamKinds DEF NotifyInv
<1> DEFINE x == [conn[c] EXCEPT !.state = "left"]
<1>3. x \in Stream /\ x.server = conn[c].server /\ x.user = conn[c].user
      /\ x.tenant = conn[c].tenant /\ x.got = conn[c].got
  BY <1>2 DEF Stream
<1> HIDE DEF x
<1>4. conn' = [conn EXCEPT ![c] = x]
  BY <1>1 DEF x, NotifyInv, NotifyShape
<1>5. conn' \in [Conn -> {NoConn, Ended} \union Stream]
      /\ conn'[c] = x /\ \A d \in Conn \ {c} : conn'[d] = conn[d]
  BY <1>3, <1>4 DEF NotifyInv, NotifyShape
<1>6. NotifyShape'
  BY <1>1, <1>5 DEF NotifyInv, NotifyShape, NotifyTypeOK
<1>7. \A d \in Conn : conn'[d] \in Stream =>
           /\ conn[d] \in Stream /\ conn'[d].got = conn[d].got
           /\ conn'[d].server = conn[d].server /\ conn'[d].tenant = conn[d].tenant
           /\ conn'[d].user = conn[d].user
  BY <1>2, <1>3, <1>5
<1>8. \A s \in Server, t \in Company, u \in User, d \in Conn :
           d \in registry'[s][t][u] => d \in registry[s][t][u] /\ conn'[d] \in Stream
  BY <1>1, <1>3, <1>5 DEF NotifyInv, RegistryHonest
<1>9. \A s \in Server, n \in Notice : channel'[s][n] <= channel[s][n]
  BY <1>1, RowKinds DEF NotifyInv
<1> QED
  BY <1>1, <1>6, <1>7, <1>8, <1>9, Quiet

LEMMA ClosesKeeps ==
  ASSUME NotifyInv, NEW c \in Conn, Closes(c)
  PROVE  NotifyInv'
<1>1. UNCHANGED <<notice, stage, after, channel, sent, missed, wired, hearing>>
      /\ conn[c].state = "left" /\ conn' = [conn EXCEPT ![c] = Ended]
  BY DEF Closes, rowVars, wireVars
<1>2. conn[c] \in Stream
  BY <1>1, StreamKinds DEF NotifyInv
<1>3. conn' \in [Conn -> {NoConn, Ended} \union Stream]
      /\ conn'[c] = Ended /\ \A d \in Conn \ {c} : conn'[d] = conn[d]
  BY <1>1 DEF NotifyInv, NotifyShape
<1> DEFINE s == conn[c].server
           t == conn[c].tenant
           u == conn[c].user
<1>4. s \in Server /\ t \in Company /\ u \in User
  BY <1>2 DEF Stream
<1> DEFINE S == registry[s][t][u] \ {c}
<1>5. registry' = [registry EXCEPT ![s][t][u] = S] /\ S \in SUBSET Conn
      /\ registry \in [Server -> [Company -> [User -> SUBSET Conn]]]
  BY <1>4 DEF Closes, Unregister, NotifyInv, NotifyShape, NotifyTypeOK
<1> HIDE DEF S
<1>6. \A r \in Server, v \in Company, w \in User : c \in registry[r][v][w] => r = s /\ v = t /\ w = u
  BY DEF NotifyInv, RegistryHonest
<1> HIDE DEF s, t, u
<1>7. registry' \in [Server -> [Company -> [User -> SUBSET Conn]]]
      /\ \A r \in Server, v \in Company, w \in User :
           registry'[r][v][w] = IF r = s /\ v = t /\ w = u THEN registry[r][v][w] \ {c}
                                ELSE registry[r][v][w]
  <2>1. /\ registry' \in [Server -> [Company -> [User -> SUBSET Conn]]]
        /\ \A r \in Server, v \in Company, w \in User :
             registry'[r][v][w] = IF r = s /\ v = t /\ w = u THEN S ELSE registry[r][v][w]
    BY <1>4, <1>5, EntrySet
  <2>2. ASSUME NEW r \in Server, NEW v \in Company, NEW w \in User
        PROVE  registry'[r][v][w] = IF r = s /\ v = t /\ w = u THEN registry[r][v][w] \ {c}
                                    ELSE registry[r][v][w]
    <3>1. registry'[r][v][w] = IF r = s /\ v = t /\ w = u THEN S ELSE registry[r][v][w]
      BY <2>1
    <3> QED
      BY <3>1 DEF S
  <2> QED
    BY <2>1, <2>2
<1>8. NotifyShape'
  BY <1>1, <1>3, <1>7 DEF NotifyInv, NotifyShape, NotifyTypeOK
<1>9. \A d \in Conn : conn'[d] \in Stream =>
           /\ conn[d] \in Stream /\ conn'[d].got = conn[d].got
           /\ conn'[d].server = conn[d].server /\ conn'[d].tenant = conn[d].tenant
           /\ conn'[d].user = conn[d].user
  BY <1>3, StreamKinds DEF NotifyInv
<1>10. \A r \in Server, v \in Company, w \in User, d \in Conn :
           d \in registry'[r][v][w] => d \in registry[r][v][w] /\ conn'[d] \in Stream
  <2> SUFFICES ASSUME NEW r \in Server, NEW v \in Company, NEW w \in User, NEW d \in Conn,
                      d \in registry'[r][v][w]
               PROVE  d \in registry[r][v][w] /\ conn'[d] \in Stream
    OBVIOUS
  <2>1. d \in registry[r][v][w] /\ d # c
    <3>1. CASE r = s /\ v = t /\ w = u
      BY <1>7, <3>1
    <3>2. CASE ~(r = s /\ v = t /\ w = u)
      <4>1. d \in registry[r][v][w]
        BY <1>7, <3>2
      <4> QED
        BY <1>6, <3>2, <4>1
    <3> QED
      BY <3>1, <3>2
  <2> QED
    BY <1>3, <2>1 DEF NotifyInv, RegistryHonest
<1>11. \A r \in Server, n \in Notice : channel'[r][n] <= channel[r][n]
  BY <1>1, RowKinds DEF NotifyInv
<1> QED
  BY <1>1, <1>8, <1>9, <1>10, <1>11, Quiet

\* A stream at a beat of its server.
LEMMA BeatMeans ==
  ASSUME NEW x \in Stream, x.beats # Beats
  PROVE  LET y == [x EXCEPT !.beats = @ + 1]
         IN  /\ y \in Stream /\ y.server = x.server /\ y.tenant = x.tenant
             /\ y.user = x.user /\ y.got = x.got
BY NotifyAssumption DEF Stream

LEMMA HeartbeatKeeps ==
  ASSUME NotifyInv, NEW s \in Server, Heartbeat(s)
  PROVE  NotifyInv'
<1> DEFINE old == {c \in Registered(s) : conn[c].beats = Beats}
<1>1. /\ UNCHANGED <<notice, stage, after, channel, sent, missed, wired, hearing>>
      /\ conn' = [c \in Conn |->
           IF c \in old THEN Ended
           ELSE IF c \in Registered(s) THEN [conn[c] EXCEPT !.beats = @ + 1] ELSE conn[c]]
      /\ registry' = [registry EXCEPT ![s] = [t \in Company |-> [u \in User |-> registry[s][t][u] \ old]]]
  BY DEF Heartbeat, rowVars, wireVars
<1>2. old \subseteq Registered(s) /\ \A c \in Registered(s) \ old : conn[c].beats # Beats
  OBVIOUS
<1>3. \A c \in Registered(s) : c \in Conn /\ conn[c] \in Stream
  BY DEF Registered, NotifyInv, NotifyShape, NotifyTypeOK, RegistryHonest
<1> HIDE DEF old
<1>4. ASSUME NEW c \in Conn
      PROVE  /\ conn'[c] \in {NoConn, Ended} \union Stream
             /\ c \in old => conn'[c] = Ended
             /\ c \notin old /\ conn[c] \in Stream => conn'[c] \in Stream
             /\ conn'[c] \in Stream =>
                  /\ conn[c] \in Stream /\ conn'[c].got = conn[c].got
                  /\ conn'[c].server = conn[c].server /\ conn'[c].tenant = conn[c].tenant
                  /\ conn'[c].user = conn[c].user
  <2>1. CASE c \in old
    BY <1>1, <2>1, StreamKinds DEF NotifyInv
  <2>2. CASE c \in Registered(s) \ old
    BY <1>1, <1>2, <1>3, <2>2, BeatMeans
  <2>3. CASE c \notin Registered(s)
    <3>1. conn'[c] = conn[c] /\ c \notin old
      BY <1>1, <1>2, <2>3
    <3> QED
      BY <3>1 DEF NotifyInv, NotifyShape
  <2> QED
    BY <1>2, <2>1, <2>2, <2>3
<1>5. registry' \in [Server -> [Company -> [User -> SUBSET Conn]]]
      /\ \A r \in Server, t \in Company, u \in User :
           registry'[r][t][u] = IF r = s THEN registry[r][t][u] \ old ELSE registry[r][t][u]
  <2> DEFINE left == [t \in Company |-> [u \in User |-> registry[s][t][u] \ old]]
  <2>1. registry \in [Server -> [Company -> [User -> SUBSET Conn]]]
    BY DEF NotifyInv, NotifyShape, NotifyTypeOK
  <2>2. left \in [Company -> [User -> SUBSET Conn]]
        /\ \A t \in Company, u \in User : left[t][u] = registry[s][t][u] \ old
    BY <2>1
  <2>3. registry' = [registry EXCEPT ![s] = left]
    BY <1>1
  <2> HIDE DEF left
  <2> QED
    BY <2>1, <2>2, <2>3
<1>6. NotifyShape'
  <2>1. conn' \in [Conn -> {NoConn, Ended} \union Stream]
    BY <1>1, <1>4
  <2> QED
    BY <1>1, <1>5, <2>1 DEF NotifyInv, NotifyShape, NotifyTypeOK
<1>7. ASSUME NEW r \in Server, NEW t \in Company, NEW u \in User, NEW c \in Conn,
             c \in registry'[r][t][u]
      PROVE  c \in registry[r][t][u] /\ conn'[c] \in Stream
  <2>1. c \in registry[r][t][u]
    BY <1>5, <1>7
  <2>2. conn[c] \in Stream /\ conn[c].server = r
    BY <2>1 DEF NotifyInv, RegistryHonest
  <2>3. c \notin old
    <3>1. CASE r = s
      BY <1>5, <1>7, <3>1
    <3>2. CASE r # s
      <4>1. \A d \in Registered(s) : conn[d].server = s
        BY <1>3 DEF Registered, NotifyInv, NotifyShape, NotifyTypeOK, RegistryHonest
      <4> QED
        BY <1>2, <2>2, <3>2, <4>1
    <3> QED
      BY <3>1, <3>2
  <2> QED
    BY <1>4, <2>1, <2>2, <2>3
<1>8. \A r \in Server, n \in Notice : channel'[r][n] <= channel[r][n]
  BY <1>1, RowKinds DEF NotifyInv
<1> QED
  BY <1>1, <1>4, <1>6, <1>7, <1>8, Quiet

\* A step that leaves the connections alone.
LEMMA StreamsQuiet ==
  ASSUME NotifyInv, UNCHANGED <<conn, registry>>
  PROVE  /\ \A c \in Conn : conn'[c] \in Stream =>
              /\ conn[c] \in Stream /\ conn'[c].got = conn[c].got
              /\ conn'[c].server = conn[c].server /\ conn'[c].tenant = conn[c].tenant
              /\ conn'[c].user = conn[c].user
         /\ \A s \in Server, t \in Company, u \in User, c \in Conn :
              c \in registry'[s][t][u] => c \in registry[s][t][u] /\ conn'[c] \in Stream
BY DEF NotifyInv, RegistryHonest

LEMMA WireKeeps ==
  ASSUME NotifyInv, NEW s \in Server, Wire(s) \/ Subscribed(s)
  PROVE  NotifyInv'
<1>1. UNCHANGED <<notice, stage, after, conn, registry, channel, sent, missed>>
  BY DEF Wire, Subscribed, rowVars, wireVars
<1>2. hearing' \subseteq wired' /\ wired' \subseteq Server
  BY DEF Wire, Subscribed, NotifyInv, NotifyShape, NotifyTypeOK
<1>3. NotifyShape'
  BY <1>1, <1>2 DEF NotifyInv, NotifyShape, NotifyTypeOK
<1>4. \A r \in Server, n \in Notice : channel'[r][n] <= channel[r][n]
  BY <1>1, RowKinds DEF NotifyInv
<1> QED
  BY <1>1, <1>3, <1>4, StreamsQuiet, Quiet

LEMMA GoesDeafKeeps ==
  ASSUME NotifyInv, NEW s \in Server, GoesDeaf(s)
  PROVE  NotifyInv'
<1>1. UNCHANGED <<notice, stage, after, conn, registry, sent, wired>>
      /\ channel' = [channel EXCEPT ![s] = [n \in Notice |-> 0]]
      /\ hearing' \subseteq hearing /\ missed' = missed \union Unread(s)
  BY DEF GoesDeaf, rowVars
<1>2. channel' \in [Server -> [Notice -> Nat]]
      /\ \A r \in Server, n \in Notice : channel'[r][n] <= channel[r][n]
  BY <1>1 DEF NotifyInv, NotifyShape, NotifyTypeOK
<1>3. missed' \subseteq Notice \X Server
  BY <1>1 DEF NotifyInv, NotifyShape, NotifyTypeOK, Unread
<1>4. NotifyShape'
  BY <1>1, <1>2, <1>3 DEF NotifyInv, NotifyShape, NotifyTypeOK
<1> QED
  BY <1>1, <1>2, <1>4, StreamsQuiet, Quiet

LEMMA ServerDiesKeeps ==
  ASSUME NotifyInv, NEW s \in Server, ServerDies(s)
  PROVE  NotifyInv'
<1> DEFINE open == {n \in Notice : notice[n].by = s /\ stage[n] \in {"publish", "local"}}
<1>1. /\ UNCHANGED <<notice, after, sent>>
      /\ conn' = [c \in Conn |-> IF conn[c].server = s THEN Ended ELSE conn[c]]
      /\ registry' = [registry EXCEPT ![s] = [t \in Company |-> [u \in User |-> {}]]]
      /\ stage' = [n \in Notice |-> IF n \in open THEN "lost" ELSE stage[n]]
      /\ channel' = [channel EXCEPT ![s] = [n \in Notice |-> 0]]
      /\ missed' = missed \union Unread(s)
                     \union ({n \in open : stage[n] = "publish" /\ sent[n] = 0} \X Server)
      /\ wired' = wired \ {s} /\ hearing' = hearing \ {s}
  BY DEF ServerDies
<1>2. \A n \in open : stage[n] \in {"publish", "local"}
  OBVIOUS
<1>3. {n \in open : stage[n] = "publish" /\ sent[n] = 0} \subseteq Notice
  OBVIOUS
<1> HIDE DEF open
<1>4. channel' \in [Server -> [Notice -> Nat]]
      /\ \A r \in Server, n \in Notice : channel'[r][n] <= channel[r][n]
  BY <1>1 DEF NotifyInv, NotifyShape, NotifyTypeOK
<1>5. missed' \subseteq Notice \X Server
  BY <1>1, <1>3 DEF NotifyInv, NotifyShape, NotifyTypeOK, Unread
<1>6. stage' \in [Notice -> {"none", "publish", "local", "done", "lost"}]
      /\ \A n \in Notice : /\ stage[n] = "done" => stage'[n] = "done"
                           /\ stage[n] = "none" => stage'[n] = "none"
  BY <1>1, <1>2 DEF NotifyInv, NotifyShape, NotifyTypeOK
<1>7. conn' \in [Conn -> {NoConn, Ended} \union Stream]
      /\ \A c \in Conn : /\ conn'[c] \in Stream => conn'[c] = conn[c]
                         /\ conn[c].server # s => conn'[c] = conn[c]
  BY <1>1, StreamKinds DEF NotifyInv, NotifyShape
<1>8. registry' \in [Server -> [Company -> [User -> SUBSET Conn]]]
      /\ \A r \in Server, t \in Company, u \in User :
           registry'[r][t][u] = IF r = s THEN {} ELSE registry[r][t][u]
  BY <1>1 DEF NotifyInv, NotifyShape, NotifyTypeOK
<1>9. hearing' \subseteq wired' /\ wired' \subseteq Server
  BY <1>1 DEF NotifyInv, NotifyShape, NotifyTypeOK
<1>10. NotifyShape'
  BY <1>1, <1>4, <1>5, <1>6, <1>7, <1>8, <1>9 DEF NotifyInv, NotifyShape, NotifyTypeOK
<1>11. ASSUME NEW r \in Server, NEW t \in Company, NEW u \in User, NEW c \in Conn,
             c \in registry'[r][t][u]
      PROVE  c \in registry[r][t][u] /\ conn'[c] \in Stream
  <2>1. r # s /\ c \in registry[r][t][u]
    BY <1>8, <1>11
  <2>2. conn[c] \in Stream /\ conn[c].server = r
    BY <2>1 DEF NotifyInv, RegistryHonest
  <2> QED
    BY <1>7, <2>1, <2>2
<1> QED
  BY <1>1, <1>4, <1>6, <1>7, <1>10, <1>11, Quiet

-----------------------------------------------------------------------------
(* Reading, and time *)

LEMMA RowsChange ==
  ASSUME NotifyInv, UNCHANGED <<stage, after, conn, registry, channel, sent, missed, wired, hearing>>,
         notice' \in [Notice -> {NoNotice} \union NoticeRow],
         \A n \in Notice : /\ notice'[n] = NoNotice => notice[n] = NoNotice
                           /\ notice'[n].by = notice[n].by /\ notice'[n].to = notice[n].to
                           /\ notice'[n].tenant = notice[n].tenant
  PROVE  NotifyInv'
<1>1. NotifyShape'
  BY DEF NotifyInv, NotifyShape, NotifyTypeOK
<1>2. \A r \in Server, n \in Notice : channel'[r][n] <= channel[r][n]
  BY RowKinds DEF NotifyInv
<1> QED
  BY <1>1, <1>2, StreamsQuiet, Quiet

\* A row of which only the marks change.
LEMMA MarksChange ==
  ASSUME NEW x \in NoticeRow
  PROVE  /\ \A y \in {[x EXCEPT !.read = TRUE], [x EXCEPT !.past = TRUE]} :
              /\ y \in NoticeRow
              /\ y.by = x.by /\ y.to = x.to /\ y.tenant = x.tenant
         /\ [x EXCEPT !.past = TRUE].past
         /\ [x EXCEPT !.read = TRUE].read
BY DEF NoticeRow

LEMMA MarkAsReadKeeps ==
  ASSUME NotifyInv, NEW u \in User, NEW ns \in SUBSET Notice, MarkAsRead(u, ns)
  PROVE  NotifyInv'
<1>1. UNCHANGED <<stage, after, conn, registry, channel, sent, missed, wired, hearing>>
      /\ notice' = [n \in Notice |-> IF n \in Readable(u) \intersect ns
                                 THEN [notice[n] EXCEPT !.read = TRUE] ELSE notice[n]]
  BY DEF MarkAsRead, wireVars
<1>2. \A n \in Readable(u) : notice[n] \in NoticeRow
  BY RowKinds, NotifyAssumption DEF Readable, OwnNotices, NotifyInv, NoNotice
<1>3. ASSUME NEW n \in Notice
      PROVE  /\ notice'[n] \in {NoNotice} \union NoticeRow
             /\ notice'[n] = NoNotice => notice[n] = NoNotice
             /\ notice'[n].by = notice[n].by /\ notice'[n].to = notice[n].to
             /\ notice'[n].tenant = notice[n].tenant
  <2>1. CASE n \in Readable(u) \intersect ns
    <3>1. notice'[n] = [notice[n] EXCEPT !.read = TRUE] /\ notice[n] \in NoticeRow
      BY <1>1, <1>2, <2>1
    <3>2. NoNotice \notin NoticeRow
      BY RowKinds DEF NotifyInv
    <3> QED
      BY <3>1, <3>2, MarksChange
  <2>2. CASE n \notin Readable(u) \intersect ns
    <3>1. notice'[n] = notice[n]
      BY <1>1, <2>2
    <3> QED
      BY <3>1 DEF NotifyInv, NotifyShape, NotifyTypeOK
  <2> QED
    BY <2>1, <2>2
<1>4. notice' \in [Notice -> {NoNotice} \union NoticeRow]
  BY <1>1, <1>3
<1> QED
  BY <1>1, <1>3, <1>4, RowsChange

LEMMA NoticeExpiresKeeps ==
  ASSUME NotifyInv, NEW n \in Notice, NoticeExpires(n)
  PROVE  NotifyInv'
<1>1. UNCHANGED <<stage, after, conn, registry, channel, sent, missed, wired, hearing>>
      /\ notice[n] # NoNotice /\ notice' = [notice EXCEPT ![n].past = TRUE]
  BY DEF NoticeExpires, wireVars
<1>2. notice[n] \in NoticeRow /\ NoNotice \notin NoticeRow
  BY <1>1, RowKinds DEF NotifyInv
<1> DEFINE x == [notice[n] EXCEPT !.past = TRUE]
<1>3. x \in NoticeRow /\ x.by = notice[n].by /\ x.to = notice[n].to /\ x.tenant = notice[n].tenant
  BY <1>2, MarksChange
<1>4. notice' = [notice EXCEPT ![n] = x]
  BY <1>1
<1> HIDE DEF x
<1>5. notice' \in [Notice -> {NoNotice} \union NoticeRow]
      /\ notice'[n] = x /\ \A m \in Notice \ {n} : notice'[m] = notice[m]
  BY <1>3, <1>4 DEF NotifyInv, NotifyShape, NotifyTypeOK
<1> QED
  BY <1>1, <1>2, <1>3, <1>5, RowsChange

-----------------------------------------------------------------------------
(* What Redis carries and servers write *)

LEMMA PublishedKeeps ==
  ASSUME NotifyInv, NEW n \in Notice, Published(n), notice[n] # NoNotice,
         UNCHANGED <<notice, after, conn, registry, wired, hearing>>,
         stage' = stage \/ (stage[n] = "publish" /\ stage' = [stage EXCEPT ![n] = "local"])
  PROVE  NotifyInv'
<1>1. /\ channel' = [s \in Server |-> IF s \in hearing THEN [channel[s] EXCEPT ![n] = @ + 1]
                                  ELSE channel[s]]
      /\ missed' = missed \union ({n} \X (Server \ hearing))
      /\ sent' = [sent EXCEPT ![n] = @ + 1]
  BY DEF Published
<1>2. /\ channel \in [Server -> [Notice -> Nat]] /\ sent \in [Notice -> Nat]
      /\ stage \in [Notice -> {"none", "publish", "local", "done", "lost"}]
  BY DEF NotifyInv, NotifyShape, NotifyTypeOK
<1>3. /\ channel' \in [Server -> [Notice -> Nat]]
      /\ \A s \in Server, m \in Notice : channel'[s][m] <= channel[s][m] + (IF m = n THEN 1 ELSE 0)
  <2>1. ASSUME NEW s \in Server
        PROVE  /\ channel'[s] \in [Notice -> Nat]
               /\ \A m \in Notice : channel'[s][m] <= channel[s][m] + (IF m = n THEN 1 ELSE 0)
    <3>1. CASE s \in hearing
      BY <1>1, <1>2, <3>1
    <3>2. CASE s \notin hearing
      BY <1>1, <1>2, <3>2
    <3> QED
      BY <3>1, <3>2
  <2>2. channel' = [s \in Server |-> channel'[s]]
    BY <1>1
  <2> QED
    BY <2>1, <2>2
<1>4. sent' \in [Notice -> Nat] /\ \A m \in Notice : sent'[m] = sent[m] + (IF m = n THEN 1 ELSE 0)
  BY <1>1, <1>2
<1>5. stage' \in [Notice -> {"none", "publish", "local", "done", "lost"}]
      /\ \A m \in Notice : /\ stage'[m] = "done" <=> stage[m] = "done"
                           /\ m # n => stage'[m] = stage[m]
  BY <1>2
<1>6. missed' \subseteq Notice \X Server
  BY <1>1 DEF NotifyInv, NotifyShape, NotifyTypeOK
<1>7. NotifyShape'
  BY <1>3, <1>4, <1>5, <1>6 DEF NotifyInv, NotifyShape, NotifyTypeOK
<1>8. RegistryHonest' /\ TokensFit' /\ RightEars'
  BY DEF NotifyInv, RegistryHonest, TokensFit, RightEars, For
<1>9. QueuesSent'
  <2>1. ASSUME NEW s \in Server, NEW m \in Notice
        PROVE  channel'[s][m] <= sent'[m]
    <3>1. channel[s][m] <= sent[m] /\ channel[s][m] \in Nat /\ sent[m] \in Nat
          /\ channel'[s][m] \in Nat
      BY <1>2, <1>3 DEF NotifyInv, QueuesSent
    <3> QED
      BY <1>3, <1>4, <3>1
  <2>2. \A m \in Notice : notice'[m] = NoNotice => stage'[m] = "none" /\ sent'[m] = 0
    BY <1>2, <1>4, <1>5 DEF NotifyInv, QueuesSent
  <2> QED
    BY <2>1, <2>2 DEF QueuesSent
<1>10. HeardBound'
  <2> SUFFICES ASSUME NEW c \in Conn, NEW m \in Notice, conn[c] \in Stream
               PROVE  conn[c].got[m] + channel'[conn[c].server][m] <= (Said(conn[c].server, m))'
    BY DEF HeardBound
  <2>1. PICK s \in Server : s = conn[c].server
    BY DEF Stream
  <2>2. conn[c].got[m] + channel[s][m] <= Said(s, m) /\ conn[c].got[m] \in Nat
    BY <2>1 DEF NotifyInv, HeardBound, Stream
  <2>3. Said(s, m)' = Said(s, m) + (IF m = n THEN 1 ELSE 0)
    BY <1>2, <1>4, <1>5 DEF Said
  <2>4. (Said(conn[c].server, m))' = Said(s, m)' /\ Said(s, m) \in Nat
    BY <1>2, <2>1 DEF Said
  <2>5. channel'[s][m] <= channel[s][m] + (IF m = n THEN 1 ELSE 0)
        /\ channel[s][m] \in Nat /\ channel'[s][m] \in Nat
    BY <1>2, <1>3
  <2> QED
    BY <2>1, <2>2, <2>3, <2>4, <2>5
<1> QED
  BY <1>7, <1>8, <1>9, <1>10 DEF NotifyInv

LEMMA PublishKeeps ==
  ASSUME NotifyInv, NEW n \in Notice, Publish(n) \/ PublishUnanswered(n)
  PROVE  NotifyInv'
<1>1. Published(n) /\ stage[n] = "publish" /\ UNCHANGED <<notice, after, conn, registry, wired, hearing>>
      /\ (stage' = stage \/ stage' = [stage EXCEPT ![n] = "local"])
  BY DEF Publish, PublishUnanswered, Due, rowVars
<1>2. notice[n] # NoNotice
  BY <1>1 DEF NotifyInv, QueuesSent
<1> QED
  BY <1>1, <1>2, PublishedKeeps

LEMMA PublishFailsKeeps ==
  ASSUME NotifyInv, NEW n \in Notice, PublishFails(n)
  PROVE  NotifyInv'
<1>1. /\ stage[n] = "publish" /\ stage' = [stage EXCEPT ![n] = "local"]
      /\ UNCHANGED <<notice, after, conn, registry, channel, sent, wired, hearing>>
      /\ missed' = IF sent[n] = 0 THEN missed \union ({n} \X Server) ELSE missed
  BY DEF PublishFails, Due
<1>2. missed' \subseteq Notice \X Server
  BY <1>1 DEF NotifyInv, NotifyShape, NotifyTypeOK
<1>3. stage' \in [Notice -> {"none", "publish", "local", "done", "lost"}]
      /\ \A m \in Notice : /\ stage[m] = "done" => stage'[m] = "done"
                           /\ stage[m] = "none" => stage'[m] = "none"
  BY <1>1 DEF NotifyInv, NotifyShape, NotifyTypeOK
<1>4. NotifyShape'
  BY <1>1, <1>2, <1>3 DEF NotifyInv, NotifyShape, NotifyTypeOK
<1>5. \A r \in Server, m \in Notice : channel'[r][m] <= channel[r][m]
  BY <1>1, RowKinds DEF NotifyInv
<1> QED
  BY <1>1, <1>3, <1>4, <1>5, StreamsQuiet, Quiet

\* A stream that hears a notice once more.
LEMMA OneMore ==
  ASSUME NEW x \in Stream, NEW n \in Notice
  PROVE  /\ [x EXCEPT !.got[n] = @ + 1] \in Stream
         /\ [x EXCEPT !.got[n] = @ + 1].server = x.server
         /\ [x EXCEPT !.got[n] = @ + 1].tenant = x.tenant
         /\ [x EXCEPT !.got[n] = @ + 1].user = x.user
         /\ [x EXCEPT !.got[n] = @ + 1].got = [x.got EXCEPT ![n] = @ + 1]
BY DEF Stream

\* Who a notice is written to has a stream on that server and is one it is for.
LEMMA StreamsFit ==
  ASSUME NotifyInv, NEW s \in Server, NEW n \in Notice, notice[n] # NoNotice,
         NEW c \in Streams(s, n)
  PROVE  /\ c \in Conn /\ conn[c] \in Stream /\ conn[c].server = s /\ For(n, c)
         /\ TenantOf[conn[c].user] \in {notice[n].tenant, Nobody}
<1>1. PICK u \in User : notice[n].to \in {u, Everyone} /\ c \in registry[s][notice[n].tenant][u]
  BY DEF Streams
<1>2. notice[n].tenant \in Company
  BY RowKinds DEF NotifyInv, NoticeRow
<1>3. c \in Conn
  BY <1>1, <1>2 DEF NotifyInv, NotifyShape, NotifyTypeOK
<1>4. conn[c] \in Stream /\ conn[c].server = s /\ conn[c].tenant = notice[n].tenant
      /\ conn[c].user = u
  BY <1>1, <1>2, <1>3 DEF NotifyInv, RegistryHonest
<1> QED
  BY <1>1, <1>3, <1>4 DEF For, NotifyInv, TokensFit

\* Streams that are written to, and what they have heard and may still hear.
LEMMA WrittenKeeps ==
  ASSUME NotifyInv, NEW s \in Server, NEW n \in Notice, notice[n] # NoNotice,
         conn' = Written(s, n),
         UNCHANGED <<notice, after, registry, sent, missed, wired, hearing>>,
         stage' \in [Notice -> {"none", "publish", "local", "done", "lost"}],
         channel' \in [Server -> [Notice -> Nat]],
         \A m \in Notice : stage[m] = "none" => stage'[m] = "none",
         \A r \in Server, m \in Notice :
           /\ channel'[r][m] <= channel[r][m]
           /\ channel'[r][m] + Said(r, m) + (IF r = s /\ m = n THEN 1 ELSE 0)
                <= channel[r][m] + Said(r, m)'
  PROVE  NotifyInv'
<1>1. ASSUME NEW c \in Conn
      PROVE  /\ conn'[c] \in {NoConn, Ended} \union Stream
             /\ conn[c] \in Stream => conn'[c] \in Stream
             /\ conn'[c] \in Stream =>
                  /\ conn[c] \in Stream /\ conn'[c].server = conn[c].server
                  /\ conn'[c].tenant = conn[c].tenant /\ conn'[c].user = conn[c].user
             /\ \/ conn'[c] = conn[c]
                \/ /\ c \in Streams(s, n) /\ conn'[c] \in Stream /\ conn'[c].server = s
                   /\ \A m \in Notice : conn'[c].got[m] = conn[c].got[m] + (IF m = n THEN 1 ELSE 0)
  <2>1. CASE c \in Streams(s, n) /\ conn[c].state = "open"
    <3>1. conn[c] \in Stream /\ conn[c].server = s
      BY <2>1, StreamsFit
    <3>2. conn'[c] = [conn[c] EXCEPT !.got[n] = @ + 1]
      BY <2>1 DEF Written
    <3>3. conn[c].got \in [Notice -> Nat]
      BY <3>1 DEF Stream
    <3>4. /\ conn'[c] \in Stream /\ conn'[c].server = conn[c].server
          /\ conn'[c].tenant = conn[c].tenant /\ conn'[c].user = conn[c].user
          /\ conn'[c].got = [conn[c].got EXCEPT ![n] = @ + 1]
      <4>1. PICK x \in Stream : x = conn[c]
        BY <3>1
      <4> DEFINE y == [x EXCEPT !.got[n] = @ + 1]
      <4>2. /\ y \in Stream /\ y.server = x.server /\ y.tenant = x.tenant /\ y.user = x.user
            /\ y.got = [x.got EXCEPT ![n] = @ + 1]
        BY OneMore
      <4>3. conn'[c] = y
        BY <3>2, <4>1
      <4> HIDE DEF y
      <4> QED
        BY <4>1, <4>2, <4>3
    <3>5. \A m \in Notice : conn'[c].got[m] = conn[c].got[m] + (IF m = n THEN 1 ELSE 0)
      BY <3>3, <3>4
    <3> QED
      BY <2>1, <3>1, <3>4, <3>5
  <2>2. CASE ~(c \in Streams(s, n) /\ conn[c].state = "open")
    <3>1. conn'[c] = conn[c]
      BY <2>2 DEF Written
    <3> QED
      BY <3>1 DEF NotifyInv, NotifyShape
  <2> QED
    BY <2>1, <2>2
<1>2. NotifyShape'
  <2>1. conn' \in [Conn -> {NoConn, Ended} \union Stream]
    BY <1>1 DEF Written
  <2> QED
    BY <2>1 DEF NotifyInv, NotifyShape, NotifyTypeOK
<1>3. RegistryHonest' /\ TokensFit'
  BY <1>1 DEF NotifyInv, RegistryHonest, TokensFit
<1>4. QueuesSent'
  <2>1. ASSUME NEW r \in Server, NEW m \in Notice
        PROVE  channel'[r][m] <= sent'[m]
    <3>1. channel[r][m] <= sent[m] /\ channel[r][m] \in Nat /\ sent[m] \in Nat
          /\ channel'[r][m] \in Nat
      BY RowKinds DEF NotifyInv, QueuesSent
    <3> QED
      BY <3>1
  <2> QED
    BY <2>1 DEF NotifyInv, QueuesSent
<1>5. HeardBound'
  <2> SUFFICES ASSUME NEW c \in Conn, NEW m \in Notice, conn'[c] \in Stream
               PROVE  conn'[c].got[m] + channel'[conn'[c].server][m] <= (Said(conn[c].server, m))'
    BY DEF HeardBound
  <2>1. PICK r \in Server : r = conn[c].server /\ r = conn'[c].server
    BY <1>1 DEF Stream
  <2>2. conn[c].got[m] + channel[r][m] <= Said(r, m) /\ conn[c].got[m] \in Nat
    BY <1>1, <2>1 DEF NotifyInv, HeardBound, Stream
  <2>3. conn'[c].got[m] <= conn[c].got[m] + (IF r = s /\ m = n THEN 1 ELSE 0)
        /\ conn'[c].got[m] \in Nat
    <3>1. conn'[c].got[m] \in Nat
      BY DEF Stream
    <3> QED
      BY <1>1, <2>1, <2>2, <3>1
  <2>4. channel'[r][m] + Said(r, m) + (IF r = s /\ m = n THEN 1 ELSE 0)
          <= channel[r][m] + Said(r, m)'
    OBVIOUS
  <2>5. /\ channel[r][m] \in Nat /\ channel'[r][m] \in Nat /\ Said(r, m) \in Nat
        /\ Said(r, m)' \in Nat
    <3>1. channel[r][m] \in Nat /\ Said(r, m) \in Nat /\ sent[m] \in Nat
      BY RowKinds DEF NotifyInv
    <3> QED
      BY <3>1 DEF Said
  <2>6. (Said(conn[c].server, m))' = Said(r, m)'
    BY <2>1 DEF Said
  <2> QED
    BY <2>1, <2>2, <2>3, <2>4, <2>5, <2>6
<1>6. RightEars'
  <2> SUFFICES ASSUME NEW c \in Conn, NEW m \in Notice, conn'[c].got[m] > 0
               PROVE  For(m, c)' /\ TenantOf[conn'[c].user] \in {notice[m].tenant, Nobody}
    BY DEF RightEars
  <2>1. CASE conn'[c] = conn[c]
    BY <2>1 DEF NotifyInv, RightEars, For
  <2>2. CASE conn'[c] # conn[c]
    <3>1. /\ c \in Streams(s, n) /\ conn'[c] \in Stream
          /\ \A k \in Notice : conn'[c].got[k] = conn[c].got[k] + (IF k = n THEN 1 ELSE 0)
          /\ conn'[c].tenant = conn[c].tenant /\ conn'[c].user = conn[c].user
      BY <1>1, <2>2
    <3>2. For(m, c) /\ TenantOf[conn[c].user] \in {notice[m].tenant, Nobody}
      <4>1. CASE m = n
        BY <3>1, <4>1, StreamsFit
      <4>2. CASE m # n
        <5>1. conn[c].got[m] \in Nat
          BY StreamKinds DEF NotifyInv
        <5>2. conn[c].got[m] > 0
          BY <3>1, <4>2, <5>1
        <5> QED
          BY <5>2 DEF NotifyInv, RightEars
      <4> QED
        BY <4>1, <4>2
    <3> QED
      BY <3>1, <3>2 DEF For
  <2> QED
    BY <2>1, <2>2
<1> QED
  BY <1>2, <1>3, <1>4, <1>5, <1>6 DEF NotifyInv

LEMMA WriteLocalKeeps ==
  ASSUME NotifyInv, NEW n \in Notice, WriteLocal(n)
  PROVE  NotifyInv'
<1>1. /\ stage[n] = "local" /\ conn' = Written(notice[n].by, n)
      /\ stage' = [stage EXCEPT ![n] = "done"]
      /\ UNCHANGED <<notice, after, registry, channel, sent, missed, wired, hearing>>
  BY DEF WriteLocal, wireVars
<1>2. notice[n] # NoNotice
  BY <1>1 DEF NotifyInv, QueuesSent
<1>3. PICK s \in Server : s = notice[n].by
  BY <1>2, RowKinds DEF NotifyInv, NoticeRow
<1>4. /\ stage \in [Notice -> {"none", "publish", "local", "done", "lost"}]
      /\ channel \in [Server -> [Notice -> Nat]] /\ sent \in [Notice -> Nat]
  BY DEF NotifyInv, NotifyShape, NotifyTypeOK
<1>5. stage' \in [Notice -> {"none", "publish", "local", "done", "lost"}]
      /\ stage'[n] = "done" /\ \A m \in Notice \ {n} : stage'[m] = stage[m]
  BY <1>1, <1>4
<1>6. ASSUME NEW r \in Server, NEW m \in Notice
      PROVE  /\ channel'[r][m] <= channel[r][m]
             /\ channel'[r][m] + Said(r, m) + (IF r = s /\ m = n THEN 1 ELSE 0)
                  <= channel[r][m] + Said(r, m)'
  <2>1. Said(r, m)' = Said(r, m) + (IF r = s /\ m = n THEN 1 ELSE 0)
    BY <1>1, <1>3, <1>4, <1>5 DEF Said
  <2>2. channel[r][m] \in Nat /\ channel'[r][m] = channel[r][m] /\ Said(r, m) \in Nat
    BY <1>1, <1>4 DEF Said
  <2> QED
    BY <2>1, <2>2
<1> QED
  BY <1>1, <1>2, <1>3, <1>4, <1>5, <1>6, WrittenKeeps

LEMMA HandleRedisMessageKeeps ==
  ASSUME NotifyInv, NEW s \in Server, NEW n \in Notice, HandleRedisMessage(s, n)
  PROVE  NotifyInv'
<1>1. /\ channel[s][n] > 0 /\ conn' = Written(s, n)
      /\ channel' = [channel EXCEPT ![s][n] = @ - 1]
      /\ UNCHANGED <<notice, stage, after, registry, sent, missed, wired, hearing>>
  BY DEF HandleRedisMessage, rowVars
<1>2. /\ stage \in [Notice -> {"none", "publish", "local", "done", "lost"}]
      /\ channel \in [Server -> [Notice -> Nat]] /\ sent \in [Notice -> Nat]
  BY DEF NotifyInv, NotifyShape, NotifyTypeOK
<1>3. notice[n] # NoNotice
  <2>1. channel[s][n] <= sent[n] /\ channel[s][n] \in Nat /\ sent[n] \in Nat
    BY <1>2 DEF NotifyInv, QueuesSent
  <2> QED
    BY <1>1, <2>1 DEF NotifyInv, QueuesSent
<1>4. channel' \in [Server -> [Notice -> Nat]]
      /\ \A r \in Server, m \in Notice :
           channel'[r][m] = channel[r][m] - (IF r = s /\ m = n THEN 1 ELSE 0)
  BY <1>1, <1>2
<1>5. ASSUME NEW r \in Server, NEW m \in Notice
      PROVE  /\ channel'[r][m] <= channel[r][m]
             /\ channel'[r][m] + Said(r, m) + (IF r = s /\ m = n THEN 1 ELSE 0)
                  <= channel[r][m] + Said(r, m)'
  <2>1. Said(r, m)' = Said(r, m) /\ Said(r, m) \in Nat
    BY <1>1, <1>2 DEF Said
  <2>2. channel[r][m] \in Nat
    BY <1>2
  <2> QED
    BY <1>4, <2>1, <2>2
<1> QED
  BY <1>1, <1>2, <1>3, <1>4, <1>5, WrittenKeeps

-----------------------------------------------------------------------------
(* Sending *)

\* What is new is silent still.
LEMMA SavingKeeps ==
  ASSUME NotifyInv, NEW s \in Server, NEW t \in Company, NEW N \in SUBSET Notice,
         NEW to \in [N -> User \union {Everyone}],
         \A n \in N : notice[n] = NoNotice,
         notice' = [n \in Notice |-> IF n \in N THEN NewNotice(s, t, to[n]) ELSE notice[n]],
         stage' = [n \in Notice |-> IF n \in N THEN "publish" ELSE stage[n]],
         after' \in [Notice -> Notice \union {Nobody}],
         UNCHANGED <<conn, registry, channel, sent, missed, wired, hearing>>
  PROVE  NotifyInv'
<1>1. ASSUME NEW n \in N
      PROVE  NewNotice(s, t, to[n]) \in NoticeRow
  BY DEF NewNotice, NoNotice, NoticeRow
<1>2. NoNotice \notin NoticeRow
  BY NotifyAssumption DEF NoNotice, NoticeRow
<1>3. /\ stage \in [Notice -> {"none", "publish", "local", "done", "lost"}]
      /\ notice \in [Notice -> {NoNotice} \union NoticeRow]
      /\ channel \in [Server -> [Notice -> Nat]] /\ sent \in [Notice -> Nat]
  BY DEF NotifyInv, NotifyShape, NotifyTypeOK
<1>4. ASSUME NEW n \in Notice
      PROVE  /\ notice'[n] \in {NoNotice} \union NoticeRow
             /\ n \in N => notice'[n] \in NoticeRow /\ stage'[n] = "publish"
             /\ n \notin N => notice'[n] = notice[n] /\ stage'[n] = stage[n]
  BY <1>1, <1>3
<1>5. NotifyShape'
  <2>1. notice' \in [Notice -> {NoNotice} \union NoticeRow]
    BY <1>4
  <2>2. stage' \in [Notice -> {"none", "publish", "local", "done", "lost"}]
    BY <1>3
  <2> QED
    BY <2>1, <2>2 DEF NotifyInv, NotifyShape, NotifyTypeOK
<1>6. \A n \in N : stage[n] = "none" /\ sent[n] = 0
  BY DEF NotifyInv, QueuesSent
<1>7. RegistryHonest' /\ TokensFit'
  BY DEF NotifyInv, RegistryHonest, TokensFit
<1>8. QueuesSent'
  BY <1>2, <1>4 DEF NotifyInv, QueuesSent
<1>9. HeardBound'
  <2> SUFFICES ASSUME NEW c \in Conn, NEW n \in Notice, conn[c] \in Stream
               PROVE  conn[c].got[n] + channel[conn[c].server][n] <= (Said(conn[c].server, n))'
    BY DEF HeardBound
  <2>1. PICK r \in Server : r = conn[c].server
    BY DEF Stream
  <2>2. conn[c].got[n] + channel[r][n] <= Said(r, n)
    BY <2>1 DEF NotifyInv, HeardBound
  <2>3. Said(r, n)' = Said(r, n)
    <3>1. CASE n \in N
      <4>1. Said(r, n) = 0 /\ Said(r, n)' = 0
        BY <1>4, <1>6, <3>1 DEF Said
      <4> QED
        BY <4>1
    <3>2. CASE n \notin N
      BY <1>4, <3>2 DEF Said
    <3> QED
      BY <3>1, <3>2
  <2>4. (Said(conn[c].server, n))' = Said(r, n)'
    BY <2>1 DEF Said
  <2> QED
    BY <2>1, <2>2, <2>3, <2>4
<1>10. RightEars'
  <2> SUFFICES ASSUME NEW c \in Conn, NEW n \in Notice, conn[c].got[n] > 0
               PROVE  For(n, c)' /\ TenantOf[conn[c].user] \in {notice'[n].tenant, Nobody}
    BY DEF RightEars
  <2>1. n \notin N
    <3>1. conn[c] \in Stream
      BY StreamKinds DEF NotifyInv
    <3>2. PICK r \in Server : r = conn[c].server
      BY <3>1 DEF Stream
    <3>3. conn[c].got[n] + channel[r][n] <= Said(r, n) /\ conn[c].got[n] \in Nat
          /\ channel[r][n] \in Nat
      BY <1>3, <3>1, <3>2 DEF NotifyInv, HeardBound, Stream
    <3>4. n \in N => Said(r, n) = 0
      BY <1>6 DEF Said
    <3> QED
      BY <3>3, <3>4
  <2> QED
    BY <1>4, <2>1 DEF NotifyInv, RightEars, For
<1> QED
  BY <1>5, <1>7, <1>8, <1>9, <1>10 DEF NotifyInv

LEMMA SaveNoticesKeeps ==
  ASSUME NotifyInv, NEW s \in Server, NEW t \in Company, NEW k \in Nat, NEW ns \in [1 .. k -> Notice],
         NEW to \in [Range(ns) -> User \union {Everyone}], SaveNotices(s, t, ns, to)
  PROVE  NotifyInv'
<1> DEFINE N == Range(ns)
           Later(n) == \E i \in DOMAIN ns : i > 1 /\ n = ns[i]
           At(n) == CHOOSE i \in DOMAIN ns : i > 1 /\ n = ns[i]
<1>1. /\ \A i \in DOMAIN ns : notice[ns[i]] = NoNotice
      /\ notice' = [n \in Notice |-> IF n \in N THEN NewNotice(s, t, to[n]) ELSE notice[n]]
      /\ stage' = [n \in Notice |-> IF n \in N THEN "publish" ELSE stage[n]]
      /\ after' = [n \in Notice |-> IF Later(n) THEN ns[At(n) - 1] ELSE after[n]]
      /\ UNCHANGED <<conn, registry, channel, sent, missed, wired, hearing>>
  BY DEF SaveNotices, wireVars
<1>2. N \in SUBSET Notice /\ \A n \in N : notice[n] = NoNotice
  BY <1>1 DEF Range
<1>3. ASSUME NEW n \in Notice, Later(n)
      PROVE  ns[At(n) - 1] \in Notice
  <2>1. At(n) \in 1 .. k /\ At(n) > 1
    BY <1>3
  <2> HIDE DEF At
  <2>2. At(n) - 1 \in 1 .. k
    BY <2>1
  <2> QED
    BY <2>2
<1> HIDE DEF N, Later, At
<1>4. after' \in [Notice -> Notice \union {Nobody}]
  BY <1>1, <1>3 DEF NotifyInv, NotifyShape, NotifyTypeOK
<1>5. to \in [N -> User \union {Everyone}]
  BY DEF N
<1> QED
  BY <1>1, <1>2, <1>4, <1>5, SavingKeeps

LEMMA SendAllKeeps ==
  ASSUME NotifyInv, NEW s \in Server, NEW t \in Company, NEW n \in Notice, SendAll(s, t, n)
  PROVE  NotifyInv'
<1>1. PICK ns \in [1 .. 1 -> Notice] : ns = <<n>>
  <2>1. <<n>> \in Seq(Notice) /\ Len(<<n>>) = 1
    OBVIOUS
  <2>2. <<n>> \in [1 .. 1 -> Notice]
    BY <2>1
  <2> QED
    BY <2>2
<1>2. Range(ns) = {n}
  BY <1>1 DEF Range
<1>3. [m \in {n} |-> Everyone] \in [Range(ns) -> User \union {Everyone}]
  BY <1>2
<1>4. SaveNotices(s, t, ns, [m \in {n} |-> Everyone])
  BY <1>1 DEF SendAll
<1> QED
  BY <1>3, <1>4, SaveNoticesKeeps

LEMMA SendToUsersKeeps ==
  ASSUME NotifyInv, NEW s \in Server, NEW t \in Company, NEW ns \in Lists,
         NEW to \in [Range(ns) -> User], SendToUsers(s, t, ns, to), IsFiniteSet(Notice)
  PROVE  NotifyInv'
<1>1. PICK k \in Nat : ns \in [1 .. k -> Notice]
  BY FS_CardinalityType DEF Lists
<1>2. to \in [Range(ns) -> User \union {Everyone}]
  OBVIOUS
<1> QED
  BY <1>1, <1>2, SaveNoticesKeeps DEF SendToUsers

-----------------------------------------------------------------------------
(* Every step *)

LEMMA NotifyInvHolds ==
  ASSUME IsFiniteSet(Notice)
  PROVE  NotifySpec => []NotifyInv
<1>1. NotifyInit => NotifyInv
  <2> SUFFICES ASSUME NotifyInit
               PROVE  NotifyInv
    OBVIOUS
  <2>1. \A c \in Conn, n \in Notice : conn[c] = NoConn /\ conn[c].got[n] = 0
    BY DEF NotifyInit, NoConn
  <2>2. NotifyShape
    <3>1. 0 \in Nat
      OBVIOUS
    <3> QED
      BY <3>1 DEF NotifyInit, NotifyShape, NotifyTypeOK
  <2>3. NoConn \notin Stream
    BY NotifyAssumption DEF NoConn, Stream
  <2> QED
    BY <2>1, <2>2, <2>3
       DEF NotifyInit, NotifyInv, RegistryHonest, TokensFit, QueuesSent, HeardBound, RightEars
<1>2. ASSUME NotifyInv, [NotifyNext]_notifyVars
      PROVE  NotifyInv'
  <2>1. ASSUME NEW c \in Conn, \/ ClientLeaves(c) \/ Closes(c)
                               \/ \E s \in Server, u \in User, t \in Company : Register(c, s, u, t)
        PROVE  NotifyInv'
    BY <1>2, <2>1, RegisterKeeps, ClientLeavesKeeps, ClosesKeeps
  <2>2. ASSUME NEW s \in Server, NEW t \in Company,
               \/ \E n \in Notice : SendAll(s, t, n)
               \/ \E ns \in Lists : \E to \in [Range(ns) -> User] : SendToUsers(s, t, ns, to)
        PROVE  NotifyInv'
    BY <1>2, <2>2, SendAllKeeps, SendToUsersKeeps
  <2>3. ASSUME NEW n \in Notice,
               \/ Publish(n) \/ PublishUnanswered(n) \/ PublishFails(n) \/ WriteLocal(n)
               \/ NoticeExpires(n) \/ \E s \in Server : HandleRedisMessage(s, n)
        PROVE  NotifyInv'
    BY <1>2, <2>3, PublishKeeps, PublishFailsKeeps, WriteLocalKeeps, NoticeExpiresKeeps,
       HandleRedisMessageKeeps
  <2>4. ASSUME NEW s \in Server,
               Heartbeat(s) \/ Wire(s) \/ Subscribed(s) \/ GoesDeaf(s) \/ ServerDies(s)
        PROVE  NotifyInv'
    BY <1>2, <2>4, HeartbeatKeeps, WireKeeps, GoesDeafKeeps, ServerDiesKeeps
  <2>5. ASSUME NEW u \in User, MarkAsRead(u, Notice) \/ \E n \in Notice : MarkAsRead(u, {n})
        PROVE  NotifyInv'
    <3>1. PICK ns \in SUBSET Notice : MarkAsRead(u, ns)
      BY <2>5
    <3> QED
      BY <1>2, <3>1, MarkAsReadKeeps
  <2>6. CASE UNCHANGED notifyVars
    <3>1. UNCHANGED <<notice, stage, after, conn, registry, channel, sent, missed, wired, hearing>>
      BY <2>6 DEF notifyVars, rowVars, wireVars
    <3>2. notice' \in [Notice -> {NoNotice} \union NoticeRow]
      BY <1>2, <3>1 DEF NotifyInv, NotifyShape, NotifyTypeOK
    <3> QED
      BY <1>2, <3>1, <3>2, RowsChange
  <2> QED
    BY <1>2, <2>1, <2>2, <2>3, <2>4, <2>5, <2>6 DEF NotifyNext
<1> QED
  BY <1>1, <1>2, PTL DEF NotifySpec

\* Only the reader's own notices leave an unread list, but for those that expire.
LEMMA ReadingIsOnesOwn ==
  ASSUME NotifyInv, IsFiniteSet(Notice), NotifyNext, NEW u \in User, NEW n \in Notice,
         n \in FindByUser(u, TRUE), n \notin FindByUser(u, TRUE)', ~notice'[n].past
  PROVE  UnreadCount(u)' < UnreadCount(u)
<1>1. /\ notice[n] # NoNotice /\ ~notice[n].read /\ notice[n].to \in {u, Everyone}
      /\ notice[n].tenant = TenantOf[u]
  BY NotifyAssumption DEF FindByUser, NoNotice
<1>2. notice'[n] # notice[n] /\ notice' # notice
  BY DEF FindByUser
<1>3. PICK v \in User, ns \in SUBSET Notice : MarkAsRead(v, ns)
  <2>1. ~ \E c \in Conn : \/ ClientLeaves(c) \/ Closes(c)
                          \/ \E s \in Server, w \in User, t \in Company : Register(c, s, w, t)
    BY <1>2 DEF ClientLeaves, Closes, Register, rowVars
  <2>2. ~ \E s \in Server : Heartbeat(s) \/ Wire(s) \/ Subscribed(s) \/ GoesDeaf(s) \/ ServerDies(s)
    BY <1>2 DEF Heartbeat, Wire, Subscribed, GoesDeaf, ServerDies, rowVars
  <2>3. ~ \E m \in Notice : \/ Publish(m) \/ PublishUnanswered(m) \/ PublishFails(m) \/ WriteLocal(m)
                            \/ \E s \in Server : HandleRedisMessage(s, m)
    BY <1>2 DEF Publish, PublishUnanswered, PublishFails, WriteLocal, HandleRedisMessage, rowVars
  <2>4. ASSUME NEW m \in Notice, NoticeExpires(m)
        PROVE  FALSE
    <3>1. notice' = [notice EXCEPT ![m].past = TRUE] /\ notice[m] \in NoticeRow
      BY <2>4, RowKinds DEF NoticeExpires, NotifyInv
    <3>2. [notice[m] EXCEPT !.past = TRUE].past
      BY <3>1, MarksChange
    <3>3. notice'[m] = [notice[m] EXCEPT !.past = TRUE] /\ (m # n => notice'[n] = notice[n])
      BY <3>1 DEF NotifyInv, NotifyShape, NotifyTypeOK
    <3> QED
      BY <1>2, <3>2, <3>3
  <2>5. ~ \E s \in Server, t \in Company :
          \/ \E m \in Notice : SendAll(s, t, m)
          \/ \E ns \in Lists : \E to \in [Range(ns) -> User] : SendToUsers(s, t, ns, to)
    <3>1. ASSUME NEW s, NEW t, NEW ns, NEW to, SaveNotices(s, t, ns, to)
          PROVE  FALSE
      <4>1. n \notin Range(ns)
        BY <1>1, <3>1 DEF SaveNotices, Range
      <4> QED
        BY <1>2, <3>1, <4>1 DEF SaveNotices
    <3> QED
      BY <3>1 DEF SendAll, SendToUsers
  <2> QED
    BY <2>1, <2>2, <2>3, <2>4, <2>5 DEF NotifyNext
<1> DEFINE Open == {m \in OwnNotices(u) : ~notice[m].read}
<1>4. notice' = [m \in Notice |-> IF m \in Readable(v) \intersect ns
                                 THEN [notice[m] EXCEPT !.read = TRUE] ELSE notice[m]]
  BY <1>3 DEF MarkAsRead
<1>5. n \in OwnNotices(v) /\ v = u
  <2>1. n \in OwnNotices(v)
    BY <1>2, <1>4 DEF Readable
  <2> QED
    BY <1>1, <2>1, NotifyAssumption DEF OwnNotices
<1>6. ASSUME NEW m \in Notice
      PROVE  /\ notice'[m].to = u => notice[m].to = u
             /\ notice'[m].tenant = notice[m].tenant
             /\ ~notice'[m].read => ~notice[m].read
             /\ m = n => notice'[m].read
  <2>1. CASE m \in Readable(v) \intersect ns
    <3>1. notice'[m] = [notice[m] EXCEPT !.read = TRUE]
      BY <1>4, <2>1
    <3>2. notice[m] \in NoticeRow
      BY <1>5, <2>1, RowKinds, NotifyAssumption DEF Readable, OwnNotices, NotifyInv, NoNotice
    <3> QED
      BY <3>1, <3>2, MarksChange
  <2>2. CASE m \notin Readable(v) \intersect ns
    <3>1. notice'[m] = notice[m]
      BY <1>4, <2>2
    <3> QED
      BY <1>2, <3>1
  <2> QED
    BY <2>1, <2>2
<1>7. Open' \subseteq Open \ {n} /\ n \in Open
  BY <1>1, <1>5, <1>6 DEF OwnNotices
<1>8. IsFiniteSet(Open)
  BY FS_Subset DEF OwnNotices
<1>9. IsFiniteSet(Open \ {n}) /\ Cardinality(Open \ {n}) = Cardinality(Open) - 1
      /\ Cardinality(Open) \in Nat
  BY <1>7, <1>8, FS_RemoveElement, FS_CardinalityType
<1>10. Cardinality(Open') <= Cardinality(Open \ {n}) /\ Cardinality(Open') \in Nat
  BY <1>7, <1>9, FS_Subset, FS_CardinalityType
<1>11. UnreadCount(u) = Cardinality(Open) /\ UnreadCount(u)' = Cardinality(Open')
  BY DEF UnreadCount
<1> HIDE DEF Open
<1> QED
  BY <1>9, <1>10, <1>11

(* For any number of companies, users, servers and streams, and finitely many notices: a   *)
(* notice is heard only on streams of those it is for, opened for its own tenant by users  *)
(* whose token is of that tenant or of none, and by each as often as Redis published it,   *)
(* once more on the server that sends; however publications, retries, lost messages,       *)
(* deaf subscribers, disconnects and crashes are interleaved.  And what leaves a user's    *)
(* unread list has expired, or that user's own count falls (publishToRedis,                *)
(* handleRedisMessage, markAsRead).                                                        *)
THEOREM NoticesReachTheRightEars ==
  ASSUME IsFiniteSet(Notice)
  PROVE  NotifySpec => NoticesFit
<1>1. NotifyInv => NotifyTypeOK /\ RightEars /\ HeardAsSent
  <2> SUFFICES ASSUME NotifyInv, NEW c \in Conn, NEW n \in Notice, conn[c].state \in {"open", "left"}
               PROVE  conn[c].got[n] <= sent[n] + (IF conn[c].server = notice[n].by THEN 1 ELSE 0)
    BY DEF NotifyInv, NotifyShape, HeardAsSent
  <2>1. conn[c] \in Stream
    BY StreamKinds DEF NotifyInv
  <2>2. PICK s \in Server : s = conn[c].server
    BY <2>1 DEF Stream
  <2>3. conn[c].got[n] + channel[s][n] <= Said(s, n) /\ conn[c].got[n] \in Nat
        /\ channel[s][n] \in Nat /\ sent[n] \in Nat
    BY <2>1, <2>2, RowKinds DEF NotifyInv, HeardBound, Stream
  <2> QED
    BY <2>2, <2>3 DEF Said
<1>2. ASSUME NotifyInv, [NotifyNext]_notifyVars
      PROVE  [\A u \in User, n \in Notice :
                n \in FindByUser(u, TRUE) /\ n \notin FindByUser(u, TRUE)' /\ ~notice'[n].past
                  => UnreadCount(u)' < UnreadCount(u)]_notifyVars
  BY <1>2, ReadingIsOnesOwn
<1>3. NotifySpec => []NotifyInv
  BY NotifyInvHolds
<1> QED
  BY <1>1, <1>2, <1>3, PTL DEF NotifySpec, NoticesFit, UnreadStays

-----------------------------------------------------------------------------
(* Lamps *)

At(k) == chore[k].kind[1]

LightsShape == LightsTypeOK /\ chore \in [Chore -> {NoChore} \union ChoreType]

\* What a chore is about, and which chores end searches.
Sensible(k) ==
  /\ chore[k].alone \subseteq chore[k].about
  /\ \A cmd \in chore[k].plan : cmd.lamp \in chore[k].about
  /\ At(k) = "read" => chore[k].plan = {} /\ KindOf(k) # "blink"
  /\ At(k) = "look" => KindOf(k) \in {"sync", "refresh"}
  /\ chore[k].ends => KindOf(k) = "revert"

\* What a lamp is to show, once the search that a chore ends has ended.
Owed(k, l) == IF search[l] # {} /\ ~chore[k].ends THEN "blink" ELSE BaseColour(bind[l].place)
Shown(l) == IF search[l] # {} THEN "blink" ELSE BaseColour(bind[l].place)

\* A chore knows what is due on a lamp that it has to itself.
Right(k, l) ==
  /\ KindOf(k) = "revert" =>
       /\ chore[k].place = bind[l].place /\ search[l] \subseteq {bind[l].place}
       /\ chore[k].ends \/ search[l] = {}
  /\ bind[l].enabled => \A cmd \in chore[k].plan : cmd.lamp = l =>
       cmd.colour = IF At(k) = "look" THEN BaseColour(bind[l].place) ELSE Owed(k, l)

\* A chore will still tell a lamp what to show.
Tells(k, l) ==
  /\ KindOf(k) = "refresh" /\ At(k) # "send" => search[l] = {}
  /\ At(k) = "read" \/ \E cmd \in chore[k].plan : cmd.lamp = l

Claimed(l) == l \in fresh /\ UpToDate(ControllerOf[l]) /\ bind[l].enabled

\* A lamp that is vouched for shows what it should, or a chore will tell it.
Served(l) ==
  Claimed(l) =>
    /\ \A k \in Chore : l \in chore[k].about => shows[l] = Owed(k, l) \/ Tells(k, l)
    /\ (\A k \in Chore : l \notin chore[k].about) => shows[l] = Shown(l)

\* Who has a lamp alone is alone with it, and a lamp is vouched for only by such chores.
ChoresApart ==
  \A k \in Chore, l \in Lamp :
    /\ l \in chore[k].alone => Right(k, l) /\ \A j \in Chore \ {k} : l \notin chore[j].about
    /\ l \in fresh /\ l \in chore[k].about => l \in chore[k].alone

LightsInv ==
  LightsShape /\ (\A k \in Chore : Sensible(k)) /\ ChoresApart /\ \A l \in Lamp : Served(l)

-----------------------------------------------------------------------------
\* No stock colour blinks.
LEMMA ColoursAreSteady ==
  ASSUME NEW x
  PROVE  BaseColour(x) \in Colour /\ BaseColour(x) # "blink"
BY DEF BaseColour, Colour

LEMMA ColoursStay ==
  ASSUME UNCHANGED avail, NEW x
  PROVE  BaseColour(x)' = BaseColour(x)
BY DEF BaseColour, StockColour, Total

\* A booking changes the colours of the places that refreshBaseColorsForStockChange
\* refreshes, and of no others.
LEMMA OnlyAffectedChange ==
  ASSUME LightsShape, NEW g \in Good, NEW p \in Place, NEW n,
         avail' = [avail EXCEPT ![g][p] = n], NEW x, x \notin AffectedPlaces(g, p)
  PROVE  BaseColour(x)' = BaseColour(x)
<1>1. x \notin Stores[g]
  BY DEF AffectedPlaces
<1>2. \A h \in Good : h # g => avail'[h] = avail[h]
  BY DEF LightsShape, LightsTypeOK
<1>3. ASSUME NEW h \in Good, h # g
      PROVE  StockColour(h, x)' = StockColour(h, x)
  <2>1. avail'[h] = avail[h]
    BY <1>2, <1>3
  <2>2. Total(h)' = Total(h)
    BY <2>1 DEF Total
  <2> QED
    BY <2>2 DEF StockColour
<1>4. {h \in Good : x \in Stores[h] /\ avail'[h][x] > 0}
        = {h \in Good : x \in Stores[h] /\ avail[h][x] > 0}
  BY <1>1, <1>2
<1>5. \A h \in {j \in Good : x \in Stores[j] /\ avail[j][x] > 0} : h \in Good /\ h # g
  BY <1>1
<1> DEFINE found == {StockColour(h, x) : h \in {j \in Good : x \in Stores[j] /\ avail[j][x] > 0}}
<1>6. {StockColour(h, x)' : h \in {j \in Good : x \in Stores[j] /\ avail'[j][x] > 0}} = found
  BY <1>3, <1>4, <1>5
<1>7. found' = found
  BY <1>6
<1> QED
  BY <1>7 DEF BaseColour

LEMMA ShapeFields ==
  ASSUME LightsInv
  PROVE  /\ LightsShape /\ avail \in [Good -> [Place -> 0 .. MaxAvail]] /\ bind \in [Lamp -> Binding]
         /\ device \in [Controller -> {"none", "ONLINE", "OFFLINE"}]
         /\ shows \in [Lamp -> Colour] /\ search \in [Lamp -> SUBSET Place]
         /\ chore \in [Chore -> {NoChore} \union ChoreType]
         /\ fresh \subseteq Lamp /\ live \subseteq Controller /\ hello \subseteq live
         /\ known \subseteq Controller
BY DEF LightsInv, LightsShape, LightsTypeOK

LEMMA ShapeKept ==
  ASSUME avail' \in [Good -> [Place -> 0 .. MaxAvail]], bind' \in [Lamp -> Binding],
         device' \in [Controller -> {"none", "ONLINE", "OFFLINE"}],
         shows' \in [Lamp -> Colour], search' \in [Lamp -> SUBSET Place],
         chore' \in [Chore -> {NoChore} \union ChoreType],
         fresh' \subseteq Lamp, live' \subseteq Controller, hello' \subseteq live',
         known' \subseteq Controller
  PROVE  LightsShape'
BY DEF LightsShape, LightsTypeOK

LEMMA ChoreFields ==
  ASSUME NEW x \in {NoChore} \union ChoreType
  PROVE  /\ x.about \subseteq Lamp /\ x.plan \subseteq Command /\ x.ends \in BOOLEAN
         /\ x.alone \subseteq Lamp
         /\ x = NoChore => x.kind[1] = "none" /\ x.kind[2] = "none" /\ x.about = {} /\ x.plan = {}
                           /\ x.alone = {} /\ x.ends = FALSE
         /\ x # NoChore => /\ x \in ChoreType /\ x.kind[1] \in {"read", "look", "send"}
                           /\ x.kind[2] \in {"sync", "refresh", "revert", "blink"}
<1>1. NoChore.kind[1] = "none" /\ NoChore.kind[2] = "none" /\ NoChore.about = {}
      /\ NoChore.plan = {} /\ NoChore.alone = {} /\ NoChore.ends = FALSE
  BY DEF NoChore
<1>2. CASE x = NoChore
  BY <1>1, <1>2
<1>3. CASE x \in ChoreType
  <2>1. x.kind \in {"read", "look", "send"} \X {"sync", "refresh", "revert", "blink"}
        /\ x.about \subseteq Lamp /\ x.plan \subseteq Command /\ x.ends \in BOOLEAN
        /\ x.alone \subseteq Lamp
    BY <1>3 DEF ChoreType
  <2>2. x.kind[1] \in {"read", "look", "send"} /\ x.kind[2] \in {"sync", "refresh", "revert", "blink"}
    BY <2>1
  <2>3. x # NoChore
    BY <1>1, <2>2
  <2> QED
    BY <1>3, <2>1, <2>2, <2>3
<1> QED
  BY <1>2, <1>3

\* A chore that loses lamps it had to itself.
Shared(x, S) == [x EXCEPT !.alone = @ \ S]

LEMMA SharedMeans ==
  ASSUME NEW x \in {NoChore} \union ChoreType, NEW S
  PROVE  /\ Shared(x, S) \in {NoChore} \union ChoreType
         /\ Shared(x, S).kind = x.kind /\ Shared(x, S).about = x.about
         /\ Shared(x, S).place = x.place /\ Shared(x, S).ends = x.ends
         /\ Shared(x, S).plan = x.plan /\ Shared(x, S).alone = x.alone \ S
<1>1. CASE x = NoChore
  <2>1. Shared(x, S) = NoChore
    <3>1. {} \ S = {}
      OBVIOUS
    <3>2. NoChore.alone = {}
      BY DEF NoChore
    <3>3. Shared(x, S) = [NoChore EXCEPT !.alone = {}]
      BY <1>1, <3>1, <3>2 DEF Shared
    <3> QED
      BY <3>3 DEF NoChore
  <2>2. x.alone = {} /\ x.alone \ S = {}
    BY <1>1 DEF NoChore
  <2> QED
    BY <1>1, <2>1, <2>2
<1>2. CASE x \in ChoreType
  BY <1>2 DEF Shared, ChoreType
<1> QED
  BY <1>1, <1>2

-----------------------------------------------------------------------------
(* How steps keep the invariant *)

\* A step that leaves bindings, stock, searches and chores alone.
LEMMA LampsQuiet ==
  ASSUME LightsInv, LightsShape', UNCHANGED <<avail, bind, search, chore, fresh>>,
         \A l \in fresh : UpToDate(ControllerOf[l])' /\ bind[l].enabled =>
           /\ UpToDate(ControllerOf[l])
           /\ \/ shows'[l] = shows[l]
              \/ /\ \A k \in Chore : shows[l] # Owed(k, l)
                 /\ shows[l] # Shown(l)
  PROVE  LightsInv'
<1>1. \A k \in Chore : Sensible(k)'
  BY DEF LightsInv, Sensible, At, KindOf
<1>2. \A l : Shown(l)' = Shown(l) /\ \A k : Owed(k, l)' = Owed(k, l)
  BY ColoursStay DEF Owed, Shown
<1>3. \A l, k : Tells(k, l)' = Tells(k, l)
  BY DEF Tells, At, KindOf
<1>4. \A k, l : Right(k, l)' = Right(k, l)
  <2>1. \A x : BaseColour(x)' = BaseColour(x)
    BY ColoursStay
  <2> QED
    BY <1>2, <2>1 DEF Right, At, KindOf
<1>5. ChoresApart'
  BY <1>4 DEF LightsInv, ChoresApart
<1>6. ASSUME NEW l \in Lamp
      PROVE  Served(l)'
  BY <1>2, <1>3 DEF LightsInv, Served, Claimed
<1> QED
  BY <1>1, <1>5, <1>6 DEF LightsInv

\* The view of a lamp that a step does not touch: what the chores about it know and will
\* tell is the same.
SameChore(k, l) ==
  /\ chore'[k].kind = chore[k].kind /\ chore'[k].about = chore[k].about
  /\ chore'[k].place = chore[k].place /\ chore'[k].ends = chore[k].ends
  /\ chore'[k].plan = chore[k].plan
  /\ l \in chore'[k].alone <=> l \in chore[k].alone

LEMMA Untouched ==
  ASSUME NEW l \in Lamp, bind'[l] = bind[l], search'[l] = search[l],
         bind[l].enabled => BaseColour(bind[l].place)' = BaseColour(bind[l].place),
         NEW k \in Chore, SameChore(k, l)
  PROVE  /\ Right(k, l) => Right(k, l)'
         /\ Tells(k, l) => Tells(k, l)'
         /\ bind[l].enabled => Owed(k, l)' = Owed(k, l) /\ Shown(l)' = Shown(l)
<1>1. At(k)' = At(k) /\ KindOf(k)' = KindOf(k)
  BY DEF At, KindOf, SameChore
<1>3. bind[l].enabled => Owed(k, l)' = Owed(k, l) /\ Shown(l)' = Shown(l)
  BY DEF Owed, Shown, SameChore
<1>4. Right(k, l) => Right(k, l)'
  BY <1>1, <1>3 DEF Right, SameChore
<1>5. Tells(k, l) => Tells(k, l)'
  BY <1>1 DEF Tells, SameChore
<1> QED
  BY <1>3, <1>4, <1>5

\* A step after which nobody vouches for the lamps it is about.
LEMMA UntoldKeeps ==
  ASSUME LightsInv, LightsShape', NEW S, Untold(S), UNCHANGED <<avail, device, live, hello, known>>,
         \A l \in Lamp \ S : bind'[l] = bind[l] /\ search'[l] = search[l] /\ shows'[l] = shows[l]
  PROVE  LightsInv'
<1>1. /\ fresh' = fresh \ S
      /\ \A k \in Chore : chore'[k] = Shared(chore[k], S)
  BY DEF Untold, Shared
<1>2. ASSUME NEW k \in Chore
      PROVE  /\ chore'[k].kind = chore[k].kind /\ chore'[k].about = chore[k].about
             /\ chore'[k].place = chore[k].place /\ chore'[k].ends = chore[k].ends
             /\ chore'[k].plan = chore[k].plan /\ chore'[k].alone = chore[k].alone \ S
  BY <1>1, ShapeFields, SharedMeans
<1>3. ASSUME NEW k \in Chore
      PROVE  Sensible(k)'
  <2>1. Sensible(k)
    BY DEF LightsInv
  <2>2. At(k)' = At(k) /\ KindOf(k)' = KindOf(k)
    BY <1>2 DEF At, KindOf
  <2> QED
    BY <1>2, <2>1, <2>2 DEF Sensible
<1>4. ASSUME NEW l \in Lamp, l \notin S, NEW k \in Chore
      PROVE  /\ SameChore(k, l) /\ bind'[l] = bind[l] /\ shows'[l] = shows[l]
             /\ Right(k, l) => Right(k, l)'
             /\ Tells(k, l) => Tells(k, l)'
             /\ bind[l].enabled => Owed(k, l)' = Owed(k, l)
  <2>1. SameChore(k, l)
    BY <1>2, <1>4 DEF SameChore
  <2>2. bind'[l] = bind[l] /\ search'[l] = search[l] /\ shows'[l] = shows[l]
    BY <1>4
  <2>3. BaseColour(bind[l].place)' = BaseColour(bind[l].place)
    BY <2>2, ColoursStay
  <2> QED
    BY <2>1, <2>2, <2>3, Untouched
<1>5. ChoresApart'
  <2> SUFFICES ASSUME NEW k \in Chore, NEW l \in Lamp
               PROVE  /\ l \in chore'[k].alone =>
                           Right(k, l)' /\ \A j \in Chore \ {k} : l \notin chore'[j].about
                      /\ l \in fresh' /\ l \in chore'[k].about => l \in chore'[k].alone
    BY DEF ChoresApart
  <2>1. CASE l \in S
    BY <1>1, <1>2, <2>1
  <2>2. CASE l \notin S
    BY <1>1, <1>2, <1>4, <2>2 DEF LightsInv, ChoresApart
  <2> QED
    BY <2>1, <2>2
<1>6. ASSUME NEW l \in Lamp
      PROVE  Served(l)'
  <2> SUFFICES ASSUME Claimed(l)'
               PROVE  /\ \A k \in Chore : l \in chore'[k].about =>
                           shows'[l] = Owed(k, l)' \/ Tells(k, l)'
                      /\ (\A k \in Chore : l \notin chore'[k].about) => shows'[l] = Shown(l)'
    BY DEF Served
  <2>1. l \notin S /\ l \in fresh
    BY <1>1 DEF Claimed
  <2>2. bind'[l] = bind[l] /\ search'[l] = search[l] /\ shows'[l] = shows[l]
    BY <2>1
  <2>3. Claimed(l)
    BY <2>1, <2>2 DEF Claimed, UpToDate
  <2>4. Shown(l)' = Shown(l)
    <3>1. BaseColour(bind[l].place)' = BaseColour(bind[l].place)
      BY <2>2, ColoursStay
    <3> QED
      BY <2>2, <3>1 DEF Shown
  <2>5. bind[l].enabled
    BY <2>3 DEF Claimed
  <2>6. ASSUME NEW k \in Chore, l \in chore'[k].about
        PROVE  shows'[l] = Owed(k, l)' \/ Tells(k, l)'
    <3>1. shows[l] = Owed(k, l) \/ Tells(k, l)
      BY <1>2, <2>3, <2>6 DEF LightsInv, Served
    <3> QED
      BY <1>4, <2>1, <2>2, <2>5, <3>1
  <2>7. ASSUME \A k \in Chore : l \notin chore'[k].about
        PROVE  shows'[l] = Shown(l)'
    <3>1. shows[l] = Shown(l)
      BY <1>2, <2>3, <2>7 DEF LightsInv, Served
    <3> QED
      BY <2>2, <2>4, <3>1
  <2> QED
    BY <2>6, <2>7
<1> QED
  BY <1>3, <1>5, <1>6 DEF LightsInv

\* What a chore is when it begins.
Begun(kind, about, place, ends, plan, alone) ==
  [kind |-> kind, about |-> about, place |-> place, ends |-> ends, plan |-> plan, alone |-> alone]

InUse(about, amiss) == about \intersect (amiss \union UNION {chore[j].about : j \in Chore})

LEMMA BegunFields ==
  ASSUME NEW kind, NEW about, NEW place, NEW ends, NEW plan, NEW alone
  PROVE  LET x == Begun(kind, about, place, ends, plan, alone)
         IN  /\ x.kind = kind /\ x.about = about /\ x.place = place /\ x.ends = ends
             /\ x.plan = plan /\ x.alone = alone
BY DEF Begun

LEMMA BegunShape ==
  ASSUME LightsInv, NEW k \in Chore,
         NEW p \in {"read", "look", "send"}, NEW d \in {"sync", "refresh", "revert", "blink"},
         NEW about \in SUBSET Lamp, NEW place \in Place \union {NoPlace}, NEW ends \in BOOLEAN,
         NEW plan \in SUBSET Command, NEW amiss,
         Begin(k, <<p, d>>, about, place, ends, plan, amiss)
  PROVE  /\ chore' \in [Chore -> {NoChore} \union ChoreType]
         /\ fresh' \subseteq Lamp
<1>0. PICK kind : kind = <<p, d>>
  OBVIOUS
<1>1. /\ fresh' = fresh \ InUse(about, amiss)
      /\ chore'[k] = Begun(kind, about, place, ends, plan, about \ InUse(about, amiss))
      /\ \A j \in Chore \ {k} : chore'[j] = Shared(chore[j], about)
      /\ chore' = [j \in Chore |-> chore'[j]]
  <2>1. Begin(k, kind, about, place, ends, plan, amiss)
    BY <1>0
  <2> QED
    BY <2>1 DEF Begin, InUse, Shared, Begun
<1>2. chore'[k] \in ChoreType
  <2>1. about \ InUse(about, amiss) \in SUBSET Lamp
    OBVIOUS
  <2>2. kind \in {"read", "look", "send"} \X {"sync", "refresh", "revert", "blink"}
    BY <1>0
  <2> QED
    BY <1>1, <2>1, <2>2 DEF Begun, ChoreType
<1>3. \A j \in Chore \ {k} : chore'[j] \in {NoChore} \union ChoreType
  BY <1>1, ShapeFields, SharedMeans
<1> QED
  BY <1>1, <1>2, <1>3, ShapeFields

\* A step that begins a chore; it changes nothing for lamps the chore is not about.
LEMMA BeginKeeps ==
  ASSUME LightsInv, LightsShape', NEW k \in Chore,
         NEW p \in {"read", "send"}, NEW d \in {"sync", "refresh", "revert", "blink"},
         NEW about \in SUBSET Lamp, NEW place, NEW ends \in BOOLEAN,
         NEW plan \in SUBSET Command, NEW amiss,
         Begin(k, <<p, d>>, about, place, ends, plan, amiss), UNCHANGED bind,
         \A cmd \in plan : cmd.lamp \in about, p = "read" => plan = {} /\ d # "blink", ends => d = "revert",
         \A l \in Lamp \ about :
           /\ search'[l] = search[l] /\ shows'[l] = shows[l]
           /\ bind[l].enabled => BaseColour(bind[l].place)' = BaseColour(bind[l].place)
           /\ UpToDate(ControllerOf[l])' => UpToDate(ControllerOf[l]),
         \A l \in about \ amiss :
           Right(k, l)' /\ (Claimed(l)' => shows'[l] = Owed(k, l)' \/ Tells(k, l)')
  PROVE  LightsInv'
<1>0. PICK kind : kind = <<p, d>>
  OBVIOUS
<1> DEFINE U == InUse(about, amiss)
<1>1. /\ chore[k] = NoChore /\ fresh' = fresh \ U
      /\ chore'[k] = Begun(<<p, d>>, about, place, ends, plan, about \ U)
      /\ \A j \in Chore \ {k} : chore'[j] = Shared(chore[j], about)
  <2>1. Begin(k, kind, about, place, ends, plan, amiss)
    BY <1>0
  <2>2. /\ chore[k] = NoChore /\ fresh' = fresh \ InUse(about, amiss)
        /\ chore'[k] = Begun(kind, about, place, ends, plan, about \ InUse(about, amiss))
        /\ \A j \in Chore \ {k} : chore'[j] = Shared(chore[j], about)
    BY <2>1 DEF Begin, InUse, Shared, Begun
  <2> QED
    BY <1>0, <2>2
<1>2. ASSUME NEW l \in about, l \notin U
      PROVE  l \notin amiss /\ \A j \in Chore : l \notin chore[j].about
  BY <1>2 DEF InUse
<1>3. ASSUME NEW j \in Chore, j # k
      PROVE  /\ chore'[j].kind = chore[j].kind /\ chore'[j].about = chore[j].about
             /\ chore'[j].place = chore[j].place /\ chore'[j].ends = chore[j].ends
             /\ chore'[j].plan = chore[j].plan /\ chore'[j].alone = chore[j].alone \ about
  BY <1>1, <1>3, ShapeFields, SharedMeans
<1> U \subseteq about
  BY DEF InUse
<1> HIDE DEF U
<1>4. /\ chore'[k].kind = <<p, d>> /\ chore'[k].about = about /\ chore'[k].ends = ends
      /\ chore'[k].plan = plan /\ chore'[k].alone = about \ U
  BY <1>1, BegunFields
<1>5. ASSUME NEW j \in Chore
      PROVE  Sensible(j)'
  <2>1. CASE j = k
    <3>1. At(k)' = p /\ KindOf(k)' = d
      BY <1>4 DEF At, KindOf
    <3> QED
      BY <1>4, <2>1, <3>1 DEF Sensible
  <2>2. CASE j # k
    <3>1. Sensible(j)
      BY DEF LightsInv
    <3>2. At(j)' = At(j) /\ KindOf(j)' = KindOf(j)
      BY <1>3, <2>2 DEF At, KindOf
    <3> QED
      BY <1>3, <2>2, <3>1, <3>2 DEF Sensible
  <2> QED
    BY <2>1, <2>2
<1>6. ASSUME NEW l \in Lamp, l \notin about, NEW j \in Chore, j # k
      PROVE  /\ Right(j, l) => Right(j, l)'
             /\ Tells(j, l) => Tells(j, l)'
             /\ bind[l].enabled => Owed(j, l)' = Owed(j, l) /\ Shown(l)' = Shown(l)
  <2>1. SameChore(j, l)
    BY <1>3, <1>6 DEF SameChore
  <2>2. bind'[l] = bind[l] /\ search'[l] = search[l]
        /\ (bind[l].enabled => BaseColour(bind[l].place)' = BaseColour(bind[l].place))
    BY <1>6
  <2> QED
    BY <2>1, <2>2, Untouched
<1>7. ChoresApart'
  <2> SUFFICES ASSUME NEW j \in Chore, NEW l \in Lamp
               PROVE  /\ l \in chore'[j].alone =>
                           Right(j, l)' /\ \A i \in Chore \ {j} : l \notin chore'[i].about
                      /\ l \in fresh' /\ l \in chore'[j].about => l \in chore'[j].alone
    BY DEF ChoresApart
  <2>1. CASE j = k
    <3>1. ASSUME l \in about \ U
          PROVE  Right(k, l)' /\ \A i \in Chore \ {k} : l \notin chore'[i].about
      BY <1>2, <1>3, <3>1
    <3> QED
      BY <1>1, <1>4, <2>1, <3>1
  <2>2. CASE j # k /\ l \in about
    <3>1. l \in fresh' => l \notin U
      BY <1>1
    <3>2. l \notin U => l \notin chore'[j].about
      BY <1>2, <1>3, <2>2
    <3> QED
      BY <1>3, <2>2, <3>1, <3>2
  <2>3. CASE j # k /\ l \notin about
    <3>1. /\ l \in chore[j].alone => Right(j, l) /\ \A i \in Chore \ {j} : l \notin chore[i].about
          /\ l \in fresh /\ l \in chore[j].about => l \in chore[j].alone
      BY DEF LightsInv, ChoresApart
    <3>2. \A i \in Chore : l \in chore'[i].about => l \in chore[i].about
      BY <1>3, <1>4, <2>3
    <3> QED
      BY <1>1, <1>3, <1>6, <2>3, <3>1, <3>2
  <2> QED
    BY <2>1, <2>2, <2>3
<1>8. ASSUME NEW l \in Lamp
      PROVE  Served(l)'
  <2> SUFFICES ASSUME Claimed(l)'
               PROVE  /\ \A j \in Chore : l \in chore'[j].about =>
                           shows'[l] = Owed(j, l)' \/ Tells(j, l)'
                      /\ (\A j \in Chore : l \notin chore'[j].about) => shows'[l] = Shown(l)'
    BY DEF Served
  <2>1. l \in fresh /\ l \notin U
    BY <1>1 DEF Claimed
  <2>2. CASE l \in about
    <3>1. \A j \in Chore : l \in chore'[j].about => j = k
      BY <1>2, <1>3, <2>1, <2>2
    <3>2. shows'[l] = Owed(k, l)' \/ Tells(k, l)'
      BY <1>2, <2>1, <2>2
    <3>3. l \in chore'[k].about
      BY <1>4, <2>2
    <3> QED
      BY <3>1, <3>2, <3>3
  <2>3. CASE l \notin about
    <3>1. bind[l].enabled /\ shows'[l] = shows[l] /\ Claimed(l)
      BY <2>1, <2>3 DEF Claimed
    <3>2. l \notin chore[k].about /\ l \notin chore'[k].about
      <4>1. NoChore.about = {}
        BY DEF NoChore
      <4> QED
        BY <1>1, <1>4, <2>3, <4>1
    <3>3. ASSUME NEW j \in Chore, l \in chore'[j].about
          PROVE  shows'[l] = Owed(j, l)' \/ Tells(j, l)'
      <4>1. j # k /\ l \in chore[j].about
        BY <1>3, <3>2, <3>3
      <4>2. shows[l] = Owed(j, l) \/ Tells(j, l)
        BY <3>1, <4>1 DEF LightsInv, Served
      <4> QED
        BY <1>6, <2>3, <3>1, <4>1, <4>2
    <3>4. ASSUME \A j \in Chore : l \notin chore'[j].about
          PROVE  shows'[l] = Shown(l)'
      <4>1. \A j \in Chore : l \notin chore[j].about
        BY <1>3, <3>2, <3>4
      <4>2. shows[l] = Shown(l)
        BY <3>1, <4>1 DEF LightsInv, Served
      <4>3. Shown(l)' = Shown(l)
        <5>1. BaseColour(bind[l].place)' = BaseColour(bind[l].place) /\ search'[l] = search[l]
          BY <2>3, <3>1
        <5> QED
          BY <5>1 DEF Shown
      <4> QED
        BY <3>1, <4>2, <4>3
    <3> QED
      BY <3>3, <3>4
  <2> QED
    BY <2>2, <2>3
<1> QED
  BY <1>5, <1>7, <1>8 DEF LightsInv

\* The same for a chore that ends no search and will tell its lamps what is true.
LEMMA StartKeeps ==
  ASSUME LightsInv, LightsShape', NEW k \in Chore,
         NEW p \in {"read", "send"}, NEW d \in {"sync", "refresh", "revert", "blink"},
         NEW about \in SUBSET Lamp, NEW plan \in SUBSET Command,
         NEW no \in BOOLEAN, no = FALSE,
         Begin(k, <<p, d>>, about, NoPlace, no, plan, {}), UNCHANGED bind,
         \A cmd \in plan : cmd.lamp \in about, p = "read" => plan = {} /\ d # "blink",
         \A l \in Lamp \ about :
           /\ search'[l] = search[l] /\ shows'[l] = shows[l]
           /\ bind[l].enabled => BaseColour(bind[l].place)' = BaseColour(bind[l].place)
           /\ UpToDate(ControllerOf[l])' => UpToDate(ControllerOf[l]),
         \A l \in about :
           Right(k, l)' /\ (Claimed(l)' => shows'[l] = Owed(k, l)' \/ Tells(k, l)')
  PROVE  LightsInv'
<1>1. PICK none : none = {}
  OBVIOUS
<1>2. Begin(k, <<p, d>>, about, NoPlace, no, plan, none)
  BY <1>1
<1>3. \A l \in about \ none :
        Right(k, l)' /\ (Claimed(l)' => shows'[l] = Owed(k, l)' \/ Tells(k, l)')
  OBVIOUS
<1> QED
  BY <1>2, <1>3, BeginKeeps

\* A step of one chore; it changes nothing for lamps the chore is not about.
LEMMA ChoreKeeps ==
  ASSUME LightsInv, LightsShape', NEW k \in Chore,
         \A j \in Chore \ {k} : chore'[j] = chore[j],
         UNCHANGED <<avail, bind, device, live, hello, known>>,
         chore'[k].about \subseteq chore[k].about,
         chore'[k].alone = chore[k].alone \intersect chore'[k].about,
         Sensible(k)',
         \A l \in Lamp \ chore[k].about :
           search'[l] = search[l] /\ shows'[l] = shows[l] /\ (l \in fresh' => l \in fresh),
         \A l \in chore[k].about : l \in fresh' => l \in chore[k].alone,
         \A l \in chore'[k].alone : Right(k, l)',
         \A l \in chore[k].about : Claimed(l)' =>
           /\ l \in chore'[k].about => shows'[l] = Owed(k, l)' \/ Tells(k, l)'
           /\ l \notin chore'[k].about => shows'[l] = Shown(l)'
  PROVE  LightsInv'
<1>1. ASSUME NEW j \in Chore
      PROVE  Sensible(j)'
  <2>1. CASE j = k
    BY <2>1
  <2>2. CASE j # k
    <3>1. Sensible(j)
      BY DEF LightsInv
    <3> QED
      BY <2>2, <3>1 DEF Sensible, At, KindOf
  <2> QED
    BY <2>1, <2>2
<1>2. ASSUME NEW l \in Lamp, l \notin chore[k].about, NEW j \in Chore, j # k
      PROVE  /\ Right(j, l) => Right(j, l)'
             /\ Tells(j, l) => Tells(j, l)'
             /\ bind[l].enabled => Owed(j, l)' = Owed(j, l)
  <2>1. SameChore(j, l)
    BY <1>2 DEF SameChore
  <2>2. BaseColour(bind[l].place)' = BaseColour(bind[l].place)
    BY ColoursStay
  <2>3. bind'[l] = bind[l] /\ search'[l] = search[l]
    BY <1>2
  <2> QED
    BY <2>1, <2>2, <2>3, Untouched
<1>3. ChoresApart'
  <2> SUFFICES ASSUME NEW j \in Chore, NEW l \in Lamp
               PROVE  /\ l \in chore'[j].alone =>
                           Right(j, l)' /\ \A i \in Chore \ {j} : l \notin chore'[i].about
                      /\ l \in fresh' /\ l \in chore'[j].about => l \in chore'[j].alone
    BY DEF ChoresApart
  <2>1. \A i \in Chore : /\ l \in chore[i].alone => \A h \in Chore \ {i} : l \notin chore[h].about
                         /\ l \in fresh /\ l \in chore[i].about => l \in chore[i].alone
    BY DEF LightsInv, ChoresApart
  <2>2. \A i \in Chore : l \in chore'[i].about => l \in chore[i].about
    OBVIOUS
  <2>3. CASE j = k
    BY <2>1, <2>2, <2>3
  <2>4. CASE j # k /\ l \in chore[k].about
    <3>1. l \notin chore'[j].alone
      BY <2>1, <2>4
    <3>2. l \in fresh' => l \notin chore'[j].about
      BY <2>1, <2>4
    <3> QED
      BY <3>1, <3>2
  <2>5. CASE j # k /\ l \notin chore[k].about
    <3>1. l \in chore[j].alone => Right(j, l)
      BY DEF LightsInv, ChoresApart
    <3> QED
      BY <1>2, <2>1, <2>2, <2>5, <3>1
  <2> QED
    BY <2>3, <2>4, <2>5
<1>4. ASSUME NEW l \in Lamp
      PROVE  Served(l)'
  <2> SUFFICES ASSUME Claimed(l)'
               PROVE  /\ \A j \in Chore : l \in chore'[j].about =>
                           shows'[l] = Owed(j, l)' \/ Tells(j, l)'
                      /\ (\A j \in Chore : l \notin chore'[j].about) => shows'[l] = Shown(l)'
    BY DEF Served
  <2>1. l \in fresh'
    BY DEF Claimed
  <2>2. CASE l \in chore[k].about
    <3>1. \A j \in Chore : l \in chore'[j].about => j = k
      BY <2>1, <2>2 DEF LightsInv, ChoresApart
    <3> QED
      BY <2>2, <3>1
  <2>3. CASE l \notin chore[k].about
    <3>1. bind[l].enabled /\ shows'[l] = shows[l] /\ Claimed(l)
      BY <2>1, <2>3 DEF Claimed, UpToDate
    <3>2. ASSUME NEW j \in Chore, l \in chore'[j].about
          PROVE  shows'[l] = Owed(j, l)' \/ Tells(j, l)'
      <4>1. j # k /\ l \in chore[j].about
        BY <2>3, <3>2
      <4>2. shows[l] = Owed(j, l) \/ Tells(j, l)
        BY <3>1, <4>1 DEF LightsInv, Served
      <4> QED
        BY <1>2, <2>3, <3>1, <4>1, <4>2
    <3>3. ASSUME \A j \in Chore : l \notin chore'[j].about
          PROVE  shows'[l] = Shown(l)'
      <4>1. \A j \in Chore : l \notin chore[j].about
        BY <2>3, <3>3
      <4>2. shows[l] = Shown(l)
        BY <3>1, <4>1 DEF LightsInv, Served
      <4>3. BaseColour(bind[l].place)' = BaseColour(bind[l].place) /\ search'[l] = search[l]
        BY <2>3, ColoursStay
      <4> QED
        BY <3>1, <4>2, <4>3 DEF Shown
    <3> QED
      BY <3>2, <3>3
  <2> QED
    BY <2>2, <2>3
<1> QED
  BY <1>1, <1>3, <1>4 DEF LightsInv

-----------------------------------------------------------------------------
(* Controllers and lamps *)

LEMMA SweepOfflineKeeps ==
  ASSUME LightsInv, NEW c \in Controller, SweepOffline(c)
  PROVE  LightsInv'
<1>1. LightsShape'
  BY DEF SweepOffline, LightsInv, LightsShape, LightsTypeOK
<1>2. \A d \in Controller : device'[d] = "ONLINE" => device[d] = "ONLINE"
  BY DEF SweepOffline, LightsInv, LightsShape, LightsTypeOK
<1>3. \A l \in fresh : UpToDate(ControllerOf[l])' => UpToDate(ControllerOf[l])
  BY <1>2, LightsAssumption DEF SweepOffline, UpToDate, LightsInv, LightsShape, LightsTypeOK
<1> QED
  BY <1>1, <1>3, LampsQuiet DEF SweepOffline

LEMMA ControllerKeeps ==
  ASSUME LightsInv, NEW c \in Controller, SaveController(c) \/ RemoveController(c)
  PROVE  LightsInv'
<1>1. LightsShape'
  BY DEF SaveController, RemoveController, LightsInv, LightsShape, LightsTypeOK
<1>2. \A d \in Controller : device'[d] = "ONLINE" => device[d] = "ONLINE"
  BY DEF SaveController, RemoveController, LightsInv, LightsShape, LightsTypeOK
<1>3. \A l \in fresh : UpToDate(ControllerOf[l])' => UpToDate(ControllerOf[l])
  BY <1>2, LightsAssumption
     DEF SaveController, RemoveController, UpToDate, LightsInv, LightsShape, LightsTypeOK
<1> QED
  BY <1>1, <1>3, LampsQuiet DEF SaveController, RemoveController

LEMMA GoesDownKeeps ==
  ASSUME LightsInv, NEW c \in Controller, GoesDown(c)
  PROVE  LightsInv'
<1>1. LightsShape'
  BY DEF GoesDown, LightsInv, LightsShape, LightsTypeOK
<1>2. \A l \in fresh : UpToDate(ControllerOf[l])' => UpToDate(ControllerOf[l])
  BY DEF GoesDown, UpToDate
<1> QED
  BY <1>1, <1>2, LampsQuiet DEF GoesDown

LEMMA ComesUpKeeps ==
  ASSUME LightsInv, NEW c \in Controller, ComesUp(c)
  PROVE  LightsInv'
<1>1. LightsShape'
  BY DEF ComesUp, LightsInv, LightsShape, LightsTypeOK, Colour
<1>2. \A l \in fresh : UpToDate(ControllerOf[l])' => UpToDate(ControllerOf[l]) /\ ControllerOf[l] # c
  BY DEF ComesUp, UpToDate
<1>3. \A l \in fresh : ControllerOf[l] # c => shows'[l] = shows[l]
  BY DEF ComesUp, LightsInv, LightsShape, LightsTypeOK
<1> QED
  BY <1>1, <1>2, <1>3, LampsQuiet DEF ComesUp

\* What nobody vouches for keeps its shape.
LEMMA UntoldShape ==
  ASSUME LightsInv, NEW S, Untold(S)
  PROVE  chore' \in [Chore -> {NoChore} \union ChoreType] /\ fresh' \subseteq Lamp
<1>1. chore' = [k \in Chore |-> Shared(chore[k], S)] /\ fresh' = fresh \ S
  BY DEF Untold, Shared
<1>2. \A k \in Chore : Shared(chore[k], S) \in {NoChore} \union ChoreType
  BY ShapeFields, SharedMeans
<1> QED
  BY <1>1, <1>2, ShapeFields

\* A lamp that blinks without a search does not show what is due.
LEMMA LampTimesOutKeeps ==
  ASSUME LightsInv, NEW l \in Lamp, LampTimesOut(l)
  PROVE  LightsInv'
<1>1. /\ shows[l] = "blink" /\ shows' = [shows EXCEPT ![l] = "off"]
      /\ UNCHANGED <<avail, bind, device, live, hello, search, known>>
      /\ IF search[l] # {} THEN Untold({l}) ELSE UNCHANGED <<chore, fresh>>
  BY DEF LampTimesOut
<1>2. shows' \in [Lamp -> Colour] /\ \A m \in Lamp \ {l} : shows'[m] = shows[m]
  BY <1>1, ShapeFields DEF Colour
<1>3. CASE search[l] # {}
  <2>1. Untold({l})
    BY <1>1, <1>3
  <2>2. chore' \in [Chore -> {NoChore} \union ChoreType] /\ fresh' \subseteq Lamp
    BY <2>1, UntoldShape
  <2>3. LightsShape'
    BY <1>1, <1>2, <2>2, ShapeFields, ShapeKept
  <2> QED
    BY <1>1, <1>2, <2>1, <2>3, UntoldKeeps
<1>4. CASE search[l] = {}
  <2>1. UNCHANGED <<chore, fresh>>
    BY <1>1, <1>4
  <2>2. LightsShape'
    BY <1>1, <1>2, <2>1, ShapeFields, ShapeKept
  <2>3. shows[l] # Shown(l) /\ \A k \in Chore : shows[l] # Owed(k, l)
    BY <1>1, <1>4, ColoursAreSteady DEF Shown, Owed
  <2>4. \A m \in fresh : UpToDate(ControllerOf[m])' => UpToDate(ControllerOf[m])
    BY <1>1 DEF UpToDate
  <2> QED
    BY <1>1, <1>2, <2>1, <2>2, <2>3, <2>4, ShapeFields, LampsQuiet
<1> QED
  BY <1>3, <1>4

LEMMA ReboundKeeps ==
  ASSUME LightsInv, NEW S \in SUBSET Lamp, NEW new \in [Lamp -> Binding], Rebound(S, new)
  PROVE  LightsInv'
<1>1. /\ bind' = [l \in Lamp |-> IF l \in S THEN new[l] ELSE bind[l]] /\ Untold(S)
      /\ UNCHANGED <<avail, device, live, hello, shows, search, known>>
  BY DEF Rebound
<1>2. bind' \in [Lamp -> Binding] /\ \A l \in Lamp \ S : bind'[l] = bind[l]
  BY <1>1, ShapeFields
<1>3. LightsShape'
  BY <1>1, <1>2, UntoldShape, ShapeFields, ShapeKept
<1> QED
  BY <1>1, <1>2, <1>3, UntoldKeeps

LEMMA SaveBindingKeeps ==
  ASSUME LightsInv, NEW was \in Lamp \union {NoLamp}, NEW l \in Lamp, NEW p \in Place,
         NEW enabled \in BOOLEAN, SaveBinding(was, l, p, enabled)
  PROVE  LightsInv'
<1> DEFINE S == {was, l} \ {NoLamp}
           new == [m \in Lamp |-> IF m = l THEN [place |-> p, enabled |-> enabled] ELSE Unbound]
<1>1. S \in SUBSET Lamp /\ new \in [Lamp -> Binding]
  BY DEF Unbound, Binding
<1>2. Rebound(S, new)
  BY DEF SaveBinding
<1> HIDE DEF S, new
<1> QED
  BY <1>1, <1>2, ReboundKeeps

LEMMA RemoveBindingKeeps ==
  ASSUME LightsInv, NEW l \in Lamp, RemoveBinding(l)
  PROVE  LightsInv'
<1> DEFINE S == {l}
           new == [m \in Lamp |-> Unbound]
<1>1. S \in SUBSET Lamp /\ new \in [Lamp -> Binding]
  BY DEF Unbound, Binding
<1>2. Rebound(S, new)
  BY DEF RemoveBinding
<1> HIDE DEF S, new
<1> QED
  BY <1>1, <1>2, ReboundKeeps

LEMMA LightsCrashKeeps ==
  ASSUME LightsInv, LightsCrash
  PROVE  LightsInv'
<1>1. /\ chore' = [k \in Chore |-> NoChore] /\ known' = {}
      /\ UNCHANGED <<avail, bind, device, live, hello, shows, search, fresh>>
  BY DEF LightsCrash
<1>2. LightsShape'
  <2>1. chore' \in [Chore -> {NoChore} \union ChoreType]
    BY <1>1
  <2> QED
    BY <1>1, <2>1, ShapeFields, ShapeKept
<1>3. /\ NoChore.kind[1] = "none" /\ NoChore.about = {} /\ NoChore.alone = {} /\ NoChore.plan = {}
      /\ NoChore.ends = FALSE
  BY DEF NoChore
<1>4. \A k \in Chore : chore'[k] = NoChore
  BY <1>1
<1>5. \A k \in Chore : Sensible(k)'
  BY <1>3, <1>4 DEF Sensible, At, KindOf
<1>6. ChoresApart'
  BY <1>3, <1>4 DEF ChoresApart
<1>7. \A l \in Lamp : Served(l)'
  BY <1>1 DEF Served, Claimed, UpToDate
<1> QED
  BY <1>2, <1>5, <1>6, <1>7 DEF LightsInv

-----------------------------------------------------------------------------
(* Chores begin *)

\* A chore that has still to read will tell its lamps what it finds.
LEMMA NewRead ==
  ASSUME LightsInv, NEW k \in Chore, NEW d, NEW about, NEW place, NEW ends, NEW amiss,
         Begin(k, <<"read", d>>, about, place, ends, {}, amiss), NEW l \in Lamp
  PROVE  /\ d # "revert" => Right(k, l)'
         /\ place = bind'[l].place /\ search'[l] \subseteq {place} /\ (ends \/ search'[l] = {})
              => Right(k, l)'
         /\ d # "refresh" \/ search'[l] = {} => Tells(k, l)'
<1>1. /\ chore'[k].kind = <<"read", d>> /\ chore'[k].plan = {} /\ chore'[k].place = place
      /\ chore'[k].ends = ends
  BY ShapeFields DEF Begin
<1>2. At(k)' = "read" /\ KindOf(k)' = d
  BY <1>1 DEF At, KindOf
<1> QED
  BY <1>1, <1>2 DEF Right, Tells

LEMMA StockChangeKeeps ==
  ASSUME LightsInv, NEW k \in Chore, NEW g \in Good, NEW p \in Place,
         NEW n \in 0 .. MaxAvail, StockChange(k, g, p, n)
  PROVE  LightsInv'
<1>1. PICK a \in SUBSET Lamp : a = BoundLamps(AffectedPlaces(g, p))
  BY DEF BoundLamps
<1>0. PICK no \in BOOLEAN : no = FALSE
  OBVIOUS
<1>2. /\ avail' = [avail EXCEPT ![g][p] = n]
      /\ Begin(k, <<"read", "refresh">>, a, NoPlace, no, {}, {})
      /\ UNCHANGED <<bind, device, live, hello, shows, search, known>>
  BY <1>0, <1>1 DEF StockChange
<1>3. chore' \in [Chore -> {NoChore} \union ChoreType] /\ fresh' \subseteq Lamp
  <2>1. NoPlace \in Place \union {NoPlace} /\ {} \in SUBSET Command
    OBVIOUS
  <2> QED
    BY <1>2, <2>1, BegunShape
<1>4. avail' \in [Good -> [Place -> 0 .. MaxAvail]]
  BY <1>2, ShapeFields
<1>5. LightsShape'
  BY <1>2, <1>3, <1>4, ShapeFields, ShapeKept
<1>6. ASSUME NEW l \in Lamp \ a
      PROVE  /\ search'[l] = search[l] /\ shows'[l] = shows[l]
             /\ bind[l].enabled => BaseColour(bind[l].place)' = BaseColour(bind[l].place)
             /\ UpToDate(ControllerOf[l])' => UpToDate(ControllerOf[l])
  <2>1. bind[l].enabled => bind[l].place \notin AffectedPlaces(g, p)
    BY <1>1 DEF BoundLamps
  <2>2. ASSUME NEW x, x \notin AffectedPlaces(g, p)
        PROVE  BaseColour(x)' = BaseColour(x)
    BY <1>2, <2>2, ShapeFields, OnlyAffectedChange
  <2>3. bind[l].enabled => BaseColour(bind[l].place)' = BaseColour(bind[l].place)
    <3>1. PICK x : x = bind[l].place /\ x = bind'[l].place
      BY <1>2
    <3>2. x \notin AffectedPlaces(g, p) => BaseColour(x)' = BaseColour(x)
      BY <2>2
    <3> QED
      BY <2>1, <3>1, <3>2
  <2> QED
    BY <1>2, <2>3 DEF UpToDate
<1>7. ASSUME NEW l \in a
      PROVE  Right(k, l)' /\ (Claimed(l)' => shows'[l] = Owed(k, l)' \/ Tells(k, l)')
  <2>1. Right(k, l)' /\ (search'[l] = {} => Tells(k, l)')
    BY <1>2, NewRead
  <2>2. ASSUME Claimed(l)', search'[l] # {}
        PROVE  shows'[l] = Owed(k, l)'
    <3>1. chore[k] = NoChore /\ fresh' = fresh \ InUse(a, {}) /\ chore'[k].ends = FALSE
      BY <1>0, <1>2, ShapeFields DEF Begin, InUse
    <3>2. l \in fresh /\ l \notin InUse(a, {}) /\ Claimed(l)
      BY <1>2, <2>2, <3>1 DEF Claimed, UpToDate
    <3>3. \A j \in Chore : l \notin chore[j].about
      BY <3>2 DEF InUse
    <3>4. shows[l] = Shown(l)
      BY <3>2, <3>3 DEF LightsInv, Served
    <3> QED
      BY <1>2, <2>2, <3>1, <3>4 DEF Shown, Owed
  <2> QED
    BY <2>1, <2>2
<1>8. \A l \in a : Right(k, l)' /\ (Claimed(l)' => shows'[l] = Owed(k, l)' \/ Tells(k, l)')
  BY <1>7
<1>9. PICK plan \in SUBSET Command : plan = {}
  OBVIOUS
<1>10. Begin(k, <<"read", "refresh">>, a, NoPlace, no, plan, {}) /\ \A cmd \in plan : cmd.lamp \in a
  BY <1>2, <1>9
<1> QED
  BY <1>0, <1>2, <1>5, <1>6, <1>8, <1>9, <1>10, StartKeeps

\* A chore for all lamps of a controller, which may be up to date from now on.
LEMMA SyncKeeps ==
  ASSUME LightsInv, LightsShape', NEW k \in Chore, NEW c \in Controller,
         Begin(k, <<"read", "sync">>, OfController(c), NoPlace, FALSE, {}, {}),
         UNCHANGED <<avail, bind, shows, search>>,
         \A d \in Controller \ {c} : UpToDate(d)' => UpToDate(d)
  PROVE  LightsInv'
<1>1. PICK a \in SUBSET Lamp : a = OfController(c)
  BY DEF OfController
<1>0. PICK no \in BOOLEAN : no = FALSE
  OBVIOUS
<1>5. Begin(k, <<"read", "sync">>, a, NoPlace, no, {}, {})
  BY <1>0, <1>1
<1>2. ASSUME NEW l \in Lamp \ a
      PROVE  /\ search'[l] = search[l] /\ shows'[l] = shows[l]
             /\ bind[l].enabled => BaseColour(bind[l].place)' = BaseColour(bind[l].place)
             /\ UpToDate(ControllerOf[l])' => UpToDate(ControllerOf[l])
  <2>1. ControllerOf[l] \in Controller \ {c}
    BY <1>1, LightsAssumption DEF OfController
  <2>2. BaseColour(bind[l].place)' = BaseColour(bind[l].place)
    BY ColoursStay
  <2> QED
    BY <2>1, <2>2
<1>3. \A l \in a : Right(k, l)' /\ (Claimed(l)' => shows'[l] = Owed(k, l)' \/ Tells(k, l)')
  BY <1>5, NewRead
<1>4. PICK plan \in SUBSET Command : plan = {}
  OBVIOUS
<1>6. Begin(k, <<"read", "sync">>, a, NoPlace, no, plan, {}) /\ \A cmd \in plan : cmd.lamp \in a
  BY <1>4, <1>5
<1> QED
  BY <1>0, <1>2, <1>3, <1>4, <1>5, <1>6, StartKeeps

LEMMA SyncShape ==
  ASSUME LightsInv, NEW k \in Chore, NEW c \in Controller,
         Begin(k, <<"read", "sync">>, OfController(c), NoPlace, FALSE, {}, {})
  PROVE  chore' \in [Chore -> {NoChore} \union ChoreType] /\ fresh' \subseteq Lamp
<1>1. NoPlace \in Place \union {NoPlace} /\ {} \in SUBSET Command /\ FALSE \in BOOLEAN
      /\ OfController(c) \in SUBSET Lamp
  BY DEF OfController
<1> QED
  BY <1>1, BegunShape

LEMMA RefreshKeeps ==
  ASSUME LightsInv, NEW k \in Chore, NEW c \in Controller, Refresh(k, c)
  PROVE  LightsInv'
<1>1. /\ Begin(k, <<"read", "sync">>, OfController(c), NoPlace, FALSE, {}, {})
      /\ UNCHANGED <<avail, bind, device, live, hello, shows, search, known>>
  BY DEF Refresh
<1>2. LightsShape'
  BY <1>1, SyncShape, ShapeFields, ShapeKept
<1>3. \A d \in Controller \ {c} : UpToDate(d)' => UpToDate(d)
  BY <1>1 DEF UpToDate
<1> QED
  BY <1>1, <1>2, <1>3, SyncKeeps

LEMMA DeviceEventKeeps ==
  ASSUME LightsInv, NEW k \in Chore, NEW c \in Controller, DeviceEvent(k, c)
  PROVE  LightsInv'
<1>1. /\ c \in live /\ device' = [device EXCEPT ![c] = "ONLINE"] /\ hello' = hello \ {c}
      /\ UNCHANGED <<avail, bind, live, shows, search>>
      /\ IF NeedsSync(c)
         THEN /\ known' = known \union {c}
              /\ Begin(k, <<"read", "sync">>, OfController(c), NoPlace, FALSE, {}, {})
         ELSE chore[k] = NoChore /\ UNCHANGED <<known, chore, fresh>>
  BY DEF DeviceEvent
<1>2. device' \in [Controller -> {"none", "ONLINE", "OFFLINE"}] /\ hello' \subseteq live'
      /\ \A d \in Controller \ {c} : device'[d] = device[d]
  BY <1>1, ShapeFields
<1>3. CASE NeedsSync(c)
  <2>1. known' = known \union {c}
        /\ Begin(k, <<"read", "sync">>, OfController(c), NoPlace, FALSE, {}, {})
    BY <1>1, <1>3
  <2>2. LightsShape'
    BY <1>1, <1>2, <2>1, SyncShape, ShapeFields, ShapeKept
  <2>3. \A d \in Controller \ {c} : UpToDate(d)' => UpToDate(d)
    BY <1>1, <1>2, <2>1 DEF UpToDate
  <2> QED
    BY <1>1, <2>1, <2>2, <2>3, SyncKeeps
<1>4. CASE ~NeedsSync(c)
  <2>1. UNCHANGED <<known, chore, fresh>> /\ device' = device /\ hello' = hello
    BY <1>1, <1>4, ShapeFields DEF NeedsSync
  <2>2. LightsShape'
    BY <1>1, <2>1, ShapeFields, ShapeKept
  <2>3. \A l \in fresh : UpToDate(ControllerOf[l])' => UpToDate(ControllerOf[l])
    BY <1>1, <2>1 DEF UpToDate
  <2> QED
    BY <1>1, <2>1, <2>2, <2>3, LampsQuiet
<1> QED
  BY <1>3, <1>4

LEMMA SearchBeginsKeeps ==
  ASSUME LightsInv, NEW k \in Chore, NEW l \in Lamp, SearchBegins(k, l)
  PROVE  LightsInv'
<1>0. PICK no \in BOOLEAN : no = FALSE
  OBVIOUS
<1> DEFINE cmd == [lamp |-> l, colour |-> "blink"]
<1>1. /\ search' = [search EXCEPT ![l] = @ \union {bind[l].place}]
      /\ \E g \in Good : bind[l].place \in Stores[g]
      /\ Begin(k, <<"send", "blink">>, {l}, NoPlace, no, {cmd}, {})
      /\ UNCHANGED <<avail, bind, device, live, hello, shows, known>>
  BY <1>0 DEF SearchBegins
<1>2. cmd \in Command /\ cmd.lamp = l /\ cmd.colour = "blink"
  BY DEF Command, Colour
<1> HIDE DEF cmd
<1>3. bind[l].place \in Place
  BY <1>1, LightsAssumption
<1>4. search' \in [Lamp -> SUBSET Place] /\ search'[l] # {}
      /\ \A m \in Lamp \ {l} : search'[m] = search[m]
  BY <1>1, <1>3, ShapeFields
<1>5. NoPlace \in Place \union {NoPlace} /\ {cmd} \in SUBSET Command /\ FALSE \in BOOLEAN
      /\ {l} \in SUBSET Lamp
  BY <1>2
<1>6. chore' \in [Chore -> {NoChore} \union ChoreType] /\ fresh' \subseteq Lamp
  BY <1>1, <1>5, BegunShape
<1>7. LightsShape'
  BY <1>1, <1>4, <1>6, ShapeFields, ShapeKept
<1>8. ASSUME NEW m \in Lamp \ {l}
      PROVE  /\ search'[m] = search[m] /\ shows'[m] = shows[m]
             /\ bind[m].enabled => BaseColour(bind[m].place)' = BaseColour(bind[m].place)
             /\ UpToDate(ControllerOf[m])' => UpToDate(ControllerOf[m])
  BY <1>1, <1>4, ColoursStay DEF UpToDate
<1>9. \A m \in {l} : Right(k, m)' /\ (Claimed(m)' => shows'[m] = Owed(k, m)' \/ Tells(k, m)')
  <2>1. /\ chore'[k].kind = <<"send", "blink">> /\ chore'[k].plan = {cmd}
        /\ chore'[k].ends = FALSE
    BY <1>0, <1>1, ShapeFields DEF Begin
  <2>2. At(k)' = "send" /\ KindOf(k)' = "blink"
    BY <2>1 DEF At, KindOf
  <2>3. Owed(k, l)' = "blink"
    BY <1>4, <2>1 DEF Owed
  <2>4. Right(k, l)'
    BY <1>2, <2>1, <2>2, <2>3 DEF Right
  <2>5. Tells(k, l)'
    BY <1>2, <2>1, <2>2 DEF Tells
  <2> QED
    BY <2>4, <2>5
<1>10. \A x \in {cmd} : x.lamp \in {l}
  BY <1>2
<1>11. PICK a \in SUBSET Lamp, plan \in SUBSET Command : a = {l} /\ plan = {cmd}
  BY <1>5
<1>12. Begin(k, <<"send", "blink">>, a, NoPlace, no, plan, {}) /\ UNCHANGED bind
  BY <1>1, <1>11
<1>13. \A m \in a : Right(k, m)' /\ (Claimed(m)' => shows'[m] = Owed(k, m)' \/ Tells(k, m)')
  BY <1>9, <1>11
<1>14. \A x \in plan : x.lamp \in a
  BY <1>10, <1>11
<1>15. \A m \in Lamp \ a :
           /\ search'[m] = search[m] /\ shows'[m] = shows[m]
           /\ bind[m].enabled => BaseColour(bind[m].place)' = BaseColour(bind[m].place)
           /\ UpToDate(ControllerOf[m])' => UpToDate(ControllerOf[m])
  BY <1>8, <1>11
<1> QED
  BY <1>0, <1>7, <1>12, <1>13, <1>14, <1>15, StartKeeps

\* A chore that reverts one lamp.
LEMMA RevertKeeps ==
  ASSUME LightsInv, NEW k \in Chore, NEW l \in Lamp, NEW p \in Place \union {NoPlace},
         NEW ends \in BOOLEAN, NEW amiss, Begin(k, <<"read", "revert">>, {l}, p, ends, {}, amiss),
         UNCHANGED <<avail, bind, device, live, hello, known>>,
         search' \in [Lamp -> SUBSET Place], shows' \in [Lamp -> Colour],
         \A m \in Lamp \ {l} : search'[m] = search[m] /\ shows'[m] = shows[m],
         l \notin amiss => bind[l].place = p /\ search'[l] \subseteq {p} /\ (ends \/ search'[l] = {})
  PROVE  LightsInv'
<1>1. {} \in SUBSET Command /\ {l} \in SUBSET Lamp /\ \A x \in {} : x.lamp \in {l}
  OBVIOUS
<1>2. chore' \in [Chore -> {NoChore} \union ChoreType] /\ fresh' \subseteq Lamp
  BY <1>1, BegunShape
<1>3. LightsShape'
  BY <1>2, ShapeFields, ShapeKept
<1>4. ASSUME NEW m \in Lamp \ {l}
      PROVE  /\ search'[m] = search[m] /\ shows'[m] = shows[m]
             /\ bind[m].enabled => BaseColour(bind[m].place)' = BaseColour(bind[m].place)
             /\ UpToDate(ControllerOf[m])' => UpToDate(ControllerOf[m])
  BY ColoursStay DEF UpToDate
<1>5. \A m \in {l} \ amiss : Right(k, m)' /\ (Claimed(m)' => shows'[m] = Owed(k, m)' \/ Tells(k, m)')
  BY NewRead
<1> QED
  BY <1>1, <1>3, <1>4, <1>5, BeginKeeps

LEMMA SearchEndsKeeps ==
  ASSUME LightsInv, NEW k \in Chore, NEW l \in Lamp, NEW p \in Place, SearchEnds(k, l, p)
  PROVE  LightsInv'
<1>1. /\ Begin(k, <<"read", "revert">>, {l}, p, TRUE, {}, Astray(l, p))
      /\ UNCHANGED <<avail, bind, device, live, hello, shows, search, known>>
  BY DEF SearchEnds
<1>2. l \notin Astray(l, p) => bind[l].place = p /\ search'[l] \subseteq {p}
  BY <1>1 DEF Astray
<1> QED
  BY <1>1, <1>2, ShapeFields, RevertKeeps

\* A search ends for a lamp that nobody vouches for any longer.
LEMMA LetGoKeeps ==
  ASSUME LightsInv, NEW l \in Lamp, Untold({l}), UNCHANGED <<avail, bind, device, live, hello, known>>,
         search' \in [Lamp -> SUBSET Place], shows' \in [Lamp -> Colour],
         \A m \in Lamp \ {l} : search'[m] = search[m] /\ shows'[m] = shows[m]
  PROVE  LightsInv'
<1>1. LightsShape'
  BY UntoldShape, ShapeFields, ShapeKept
<1> QED
  BY <1>1, UntoldKeeps

LEMMA SearchDroppedKeeps ==
  ASSUME LightsInv, NEW l \in Lamp, NEW p \in Place, SearchDropped(l, p)
  PROVE  LightsInv'
<1>1. /\ search' = [search EXCEPT ![l] = @ \ {p}] /\ Untold({l})
      /\ UNCHANGED <<avail, bind, device, live, hello, shows, known>>
  BY DEF SearchDropped
<1>2. search' \in [Lamp -> SUBSET Place] /\ \A m \in Lamp \ {l} : search'[m] = search[m]
  BY <1>1, ShapeFields
<1> QED
  BY <1>1, <1>2, ShapeFields, LetGoKeeps

LEMMA SearchExpiresKeeps ==
  ASSUME LightsInv, NEW k \in Chore, NEW l \in Lamp, NEW p \in Place, SearchExpires(k, l, p)
  PROVE  LightsInv'
<1>1. /\ search' = [search EXCEPT ![l] = @ \ {p}]
      /\ UNCHANGED <<avail, bind, device, live, hello, shows, known>>
      /\ \/ Begin(k, <<"read", "revert">>, {l}, p, FALSE, {}, Astray(l, p))
         \/ Untold({l})
  BY DEF SearchExpires
<1>2. search' \in [Lamp -> SUBSET Place] /\ search'[l] = search[l] \ {p}
      /\ \A m \in Lamp \ {l} : search'[m] = search[m]
  BY <1>1, ShapeFields
<1>3. l \notin Astray(l, p) => bind[l].place = p /\ search'[l] \subseteq {p} /\ search'[l] = {}
  BY <1>2 DEF Astray
<1>4. CASE Begin(k, <<"read", "revert">>, {l}, p, FALSE, {}, Astray(l, p))
  BY <1>1, <1>2, <1>3, <1>4, ShapeFields, RevertKeeps
<1>5. CASE Untold({l})
  BY <1>1, <1>2, <1>5, ShapeFields, LetGoKeeps
<1> QED
  BY <1>1, <1>4, <1>5

LEMMA CalibrateKeeps ==
  ASSUME LightsInv, NEW k \in Chore, NEW l \in Lamp, Calibrate(k, l)
  PROVE  LightsInv'
<1> DEFINE p == bind[l].place
           amiss == Astray(l, p) \union IF search[l] # {} THEN {l} ELSE {}
<1>1. /\ UNCHANGED <<avail, bind, device, live, hello, search, known>>
      /\ shows' = IF ControllerOf[l] \in live THEN [shows EXCEPT ![l] = "blink"] ELSE shows
      /\ \/ Begin(k, <<"read", "revert">>, {l}, p, FALSE, {}, amiss)
         \/ Untold({l})
  BY DEF Calibrate
<1>2. shows' \in [Lamp -> Colour] /\ \A m \in Lamp \ {l} : shows'[m] = shows[m]
  BY <1>1, ShapeFields DEF Colour
<1>3. p \in Place \union {NoPlace}
  BY ShapeFields DEF Binding
<1>4. l \notin amiss => search'[l] = {}
  BY <1>1
<1> HIDE DEF amiss
<1>5. CASE Begin(k, <<"read", "revert">>, {l}, p, FALSE, {}, amiss)
  BY <1>1, <1>2, <1>3, <1>4, <1>5, ShapeFields, RevertKeeps
<1>6. CASE Untold({l})
  BY <1>1, <1>2, <1>6, ShapeFields, LetGoKeeps
<1> QED
  BY <1>1, <1>5, <1>6

-----------------------------------------------------------------------------
(* A chore goes on *)

\* What a step of a chore makes of its record.
HavingRead(x, s, a, q) == [x EXCEPT !.kind = s, !.about = a, !.alone = @ \intersect a, !.plan = q]
HavingLooked(x, s, q) == [x EXCEPT !.kind = s, !.plan = q]
HavingSent(x, q) == [x EXCEPT !.plan = q]
WithChore(k, x) == [chore EXCEPT ![k] = x]

LEMMA HavingReadMeans ==
  ASSUME NEW x \in ChoreType, NEW s, NEW a, NEW q
  PROVE  LET y == HavingRead(x, s, a, q)
         IN  /\ y.kind = s /\ y.about = a /\ y.alone = x.alone \intersect a /\ y.plan = q
             /\ y.place = x.place /\ y.ends = x.ends
             /\ /\ s \in {"read", "look", "send"} \X {"sync", "refresh", "revert", "blink"}
                /\ a \subseteq Lamp /\ q \subseteq Command
                => y \in ChoreType
BY DEF HavingRead, ChoreType

LEMMA HavingLookedMeans ==
  ASSUME NEW x \in ChoreType, NEW s, NEW q
  PROVE  LET y == HavingLooked(x, s, q)
         IN  /\ y.kind = s /\ y.about = x.about /\ y.alone = x.alone /\ y.plan = q
             /\ y.place = x.place /\ y.ends = x.ends
             /\ /\ s \in {"read", "look", "send"} \X {"sync", "refresh", "revert", "blink"}
                /\ q \subseteq Command
                => y \in ChoreType
BY DEF HavingLooked, ChoreType

LEMMA HavingSentMeans ==
  ASSUME NEW x \in ChoreType, NEW q
  PROVE  LET y == HavingSent(x, q)
         IN  /\ y.kind = x.kind /\ y.about = x.about /\ y.alone = x.alone /\ y.plan = q
             /\ y.place = x.place /\ y.ends = x.ends
             /\ q \subseteq Command => y \in ChoreType
BY DEF HavingSent, ChoreType

LEMMA WithChoreMeans ==
  ASSUME LightsInv, NEW k \in Chore, NEW x, chore' = WithChore(k, x)
  PROVE  /\ chore'[k] = x /\ \A j \in Chore \ {k} : chore'[j] = chore[j]
         /\ x \in {NoChore} \union ChoreType => chore' \in [Chore -> {NoChore} \union ChoreType]
BY ShapeFields DEF WithChore

LEMMA ReadFields ==
  ASSUME LightsInv, NEW k \in Chore, Read(k)
  PROVE  \E a \in SUBSET chore[k].about : \E q \in SUBSET Command :
         /\ LightsShape'
         /\ chore'[k].about = a /\ chore'[k].alone = chore[k].alone \intersect a
         /\ chore'[k].plan = q
         /\ chore'[k].place = chore[k].place /\ chore'[k].ends = chore[k].ends
         /\ At(k)' = IF KindOf(k) = "revert" THEN "send" ELSE "look"
         /\ KindOf(k)' = KindOf(k) /\ At(k) = "read" /\ chore[k] \in ChoreType
         /\ \A j \in Chore \ {k} : chore'[j] = chore[j]
         /\ \A l \in chore[k].about : l \in a <=>
              \/ KindOf(k) = "revert"
              \/ bind[l].enabled /\ (KindOf(k) = "sync" \/ device[ControllerOf[l]] = "ONLINE")
         /\ \A cmd \in q : cmd.lamp \in a /\ cmd.colour =
              BaseColour(IF KindOf(k) = "revert" THEN chore[k].place ELSE bind[cmd.lamp].place)
         /\ \A l \in a : \E cmd \in q : cmd.lamp = l
<1>1. chore[k] # NoChore /\ At(k) = "read"
  BY DEF Read, Phase, At
<1>2. chore[k] \in ChoreType /\ chore[k].about \subseteq Lamp /\ KindOf(k) \in {"sync", "refresh", "revert", "blink"}
  BY <1>1, ShapeFields, ChoreFields DEF KindOf
<1> DEFINE revert == KindOf(k) = "revert"
           a == {l \in chore[k].about :
                   \/ revert
                   \/ bind[l].enabled /\ (KindOf(k) = "sync" \/ device[ControllerOf[l]] = "ONLINE")}
           colour(l) == BaseColour(IF revert THEN chore[k].place ELSE bind[l].place)
           q == {[lamp |-> l, colour |-> colour(l)] : l \in a}
           s == <<IF revert THEN "send" ELSE "look", KindOf(k)>>
<1>3. chore' = [chore EXCEPT ![k].kind = s, ![k].about = a, ![k].alone = @ \intersect a, ![k].plan = q]
  BY DEF Read
<1>4. \A l : colour(l) \in Colour
  BY ColoursAreSteady
<1>5. /\ a \in SUBSET chore[k].about
      /\ \A l \in chore[k].about : l \in a <=>
              \/ revert
              \/ bind[l].enabled /\ (KindOf(k) = "sync" \/ device[ControllerOf[l]] = "ONLINE")
  OBVIOUS
<1>6. s \in {"read", "look", "send"} \X {"sync", "refresh", "revert", "blink"}
      /\ s[1] = (IF revert THEN "send" ELSE "look") /\ s[2] = KindOf(k)
  BY <1>2
<1>7. q \in SUBSET Command
  <2> HIDE DEF colour, a
  <2> QED
    BY <1>2, <1>4, <1>5 DEF Command
<1>8. /\ \A cmd \in q : cmd.lamp \in a /\ cmd.colour = colour(cmd.lamp)
      /\ \A l \in a : \E cmd \in q : cmd.lamp = l
  <2> HIDE DEF colour, a
  <2>1. ASSUME NEW l \in a
        PROVE  \E cmd \in q : cmd.lamp = l
    <3>1. [lamp |-> l, colour |-> colour(l)] \in q
      OBVIOUS
    <3>2. [lamp |-> l, colour |-> colour(l)].lamp = l
      OBVIOUS
    <3> HIDE DEF q
    <3> QED
      BY <3>1, <3>2
  <2>2. \A cmd \in q : cmd.lamp \in a /\ cmd.colour = colour(cmd.lamp)
    OBVIOUS
  <2> QED
    BY <2>1, <2>2
<1> HIDE DEF a, q, s, colour
<1>9. chore' = WithChore(k, HavingRead(chore[k], s, a, q))
  BY <1>3 DEF HavingRead, WithChore
<1>10. HavingRead(chore[k], s, a, q) \in ChoreType
  BY <1>2, <1>5, <1>6, <1>7, HavingReadMeans
<1>11. /\ chore'[k] = HavingRead(chore[k], s, a, q)
       /\ chore' \in [Chore -> {NoChore} \union ChoreType]
       /\ \A j \in Chore \ {k} : chore'[j] = chore[j]
  BY <1>9, <1>10, WithChoreMeans
<1>12. /\ chore'[k].kind = s /\ chore'[k].about = a /\ chore'[k].alone = chore[k].alone \intersect a
       /\ chore'[k].plan = q /\ chore'[k].place = chore[k].place /\ chore'[k].ends = chore[k].ends
  BY <1>2, <1>11, HavingReadMeans
<1>13. LightsShape'
  <2>1. UNCHANGED <<avail, bind, device, live, hello, shows, search, known, fresh>>
    BY DEF Read
  <2> QED
    BY <1>11, <2>1, ShapeFields, ShapeKept
<1>14. At(k)' = (IF KindOf(k) = "revert" THEN "send" ELSE "look") /\ KindOf(k)' = KindOf(k)
  BY <1>6, <1>12 DEF At, KindOf
<1>15. \A cmd \in q : cmd.lamp \in a /\ cmd.colour =
         BaseColour(IF KindOf(k) = "revert" THEN chore[k].place ELSE bind[cmd.lamp].place)
  BY <1>8 DEF colour
<1> QED
  BY <1>1, <1>2, <1>5, <1>7, <1>8, <1>11, <1>12, <1>13, <1>14, <1>15

LEMMA ReadKeeps ==
  ASSUME LightsInv, NEW k \in Chore, Read(k)
  PROVE  LightsInv'
<1>1. PICK a \in SUBSET chore[k].about : \E q \in SUBSET Command :
         /\ LightsShape'
         /\ chore'[k].about = a /\ chore'[k].alone = chore[k].alone \intersect a
         /\ chore'[k].plan = q
         /\ chore'[k].place = chore[k].place /\ chore'[k].ends = chore[k].ends
         /\ At(k)' = IF KindOf(k) = "revert" THEN "send" ELSE "look"
         /\ KindOf(k)' = KindOf(k) /\ At(k) = "read" /\ chore[k] \in ChoreType
         /\ \A j \in Chore \ {k} : chore'[j] = chore[j]
         /\ \A l \in chore[k].about : l \in a <=>
              \/ KindOf(k) = "revert"
              \/ bind[l].enabled /\ (KindOf(k) = "sync" \/ device[ControllerOf[l]] = "ONLINE")
         /\ \A cmd \in q : cmd.lamp \in a /\ cmd.colour =
              BaseColour(IF KindOf(k) = "revert" THEN chore[k].place ELSE bind[cmd.lamp].place)
         /\ \A l \in a : \E cmd \in q : cmd.lamp = l
  BY ReadFields
<1>2. UNCHANGED <<avail, bind, device, live, hello, shows, search, known, fresh>>
  BY DEF Read
<1>3. Sensible(k) /\ \A l \in Lamp : l \in chore[k].alone => Right(k, l)
  BY DEF LightsInv, ChoresApart
<1>4. chore[k].about \subseteq Lamp /\ chore[k].alone \subseteq chore[k].about
      /\ KindOf(k) \in {"sync", "refresh", "revert"}
  <2>1. chore[k] \in {NoChore} \union ChoreType /\ chore[k] # NoChore
    <3>1. NoChore.kind[1] = "none"
      BY DEF NoChore
    <3> QED
      BY <1>1, <3>1, ShapeFields DEF At
  <2>2. chore[k].about \subseteq Lamp /\ KindOf(k) \in {"sync", "refresh", "revert", "blink"}
    BY <2>1, ChoreFields DEF KindOf
  <2> QED
    BY <1>1, <1>3, <2>2 DEF Sensible
<1>5. \A l : Owed(k, l)' = Owed(k, l) /\ Shown(l)' = Shown(l)
  BY <1>1, <1>2, ColoursStay DEF Owed, Shown
<1>6. Sensible(k)'
  BY <1>1, <1>3, <1>4 DEF Sensible
<1>7. ASSUME NEW l \in chore'[k].alone
      PROVE  Right(k, l)'
  <2>1. Right(k, l) /\ l \in a
    BY <1>1, <1>3, <1>4
  <2>2. ASSUME bind[l].enabled, NEW cmd \in chore'[k].plan, cmd.lamp = l
        PROVE  cmd.colour = IF At(k)' = "look" THEN BaseColour(bind[l].place) ELSE Owed(k, l)
    <3>1. cmd.colour = BaseColour(IF KindOf(k) = "revert" THEN chore[k].place ELSE bind[l].place)
      BY <1>1, <2>2
    <3>2. CASE KindOf(k) = "revert"
      <4>1. cmd.colour = BaseColour(bind[l].place) /\ Owed(k, l) = BaseColour(bind[l].place)
        BY <2>1, <3>1, <3>2 DEF Right, Owed
      <4> QED
        BY <4>1
    <3>3. CASE KindOf(k) # "revert"
      BY <1>1, <3>1, <3>3
    <3> QED
      BY <3>2, <3>3
  <2>3. BaseColour(bind[l].place)' = BaseColour(bind[l].place)
    BY <1>2, ColoursStay
  <2>4. bind'[l].enabled => \A cmd \in chore'[k].plan : cmd.lamp = l =>
          cmd.colour = IF At(k)' = "look" THEN BaseColour(bind[l].place)' ELSE Owed(k, l)'
    BY <1>2, <1>5, <2>2, <2>3
  <2>5. KindOf(k)' = "revert" =>
          /\ chore'[k].place = bind'[l].place /\ search'[l] \subseteq {bind'[l].place}
          /\ chore'[k].ends \/ search'[l] = {}
    BY <1>1, <1>2, <2>1 DEF Right
  <2> QED
    BY <2>4, <2>5 DEF Right
<1>8. ASSUME NEW l \in chore[k].about, Claimed(l)'
      PROVE  l \in a /\ (shows'[l] = Owed(k, l)' \/ Tells(k, l)')
  <2>1. Claimed(l) /\ l \in fresh
    BY <1>2, <1>8 DEF Claimed, UpToDate
  <2>2. l \in a
    BY <1>1, <1>4, <2>1 DEF Claimed, UpToDate
  <2>3. shows[l] = Owed(k, l) \/ Tells(k, l)
    BY <1>4, <2>1 DEF LightsInv, Served
  <2>4. Tells(k, l) => Tells(k, l)'
    BY <1>1, <1>2, <2>2 DEF Tells
  <2> QED
    BY <1>2, <1>5, <2>2, <2>3, <2>4
<1>9. \A l \in chore[k].about : l \in fresh' => l \in chore[k].alone
  BY <1>2, <1>4 DEF LightsInv, ChoresApart
<1> QED
  BY <1>1, <1>2, <1>6, <1>7, <1>8, <1>9, ChoreKeeps

\* What a search makes of a command.
LEMMA PlannedIs ==
  ASSUME NEW d \in {"sync", "refresh"}, NEW cmd \in Command
  PROVE  /\ search[cmd.lamp] = {} => Planned(d, cmd) = {cmd}
         /\ search[cmd.lamp] # {} /\ d = "sync"
              => Planned(d, cmd) = {[lamp |-> cmd.lamp, colour |-> "blink"]}
         /\ search[cmd.lamp] # {} /\ d = "refresh" => Planned(d, cmd) = {}
<1>1. [cmd EXCEPT !.colour = "blink"] = [lamp |-> cmd.lamp, colour |-> "blink"]
  BY DEF Command
<1>2. ASSUME search[cmd.lamp] = {}
      PROVE  Planned(d, cmd) = {cmd}
  BY <1>2 DEF Planned
<1>3. ASSUME search[cmd.lamp] # {}, d = "sync"
      PROVE  Planned(d, cmd) = {[lamp |-> cmd.lamp, colour |-> "blink"]}
  <2>1. Planned(d, cmd) = {[cmd EXCEPT !.colour = "blink"]}
    BY <1>3 DEF Planned
  <2> QED
    BY <1>1, <2>1, Zenon
<1>4. ASSUME search[cmd.lamp] # {}, d = "refresh"
      PROVE  Planned(d, cmd) = {}
  BY <1>4 DEF Planned
<1> QED
  BY <1>2, <1>3, <1>4

LEMMA PlannedMeans ==
  ASSUME NEW d \in {"sync", "refresh"}, NEW cmd \in Command, NEW c, c \in Planned(d, cmd)
  PROVE  /\ c \in Command /\ c.lamp = cmd.lamp
         /\ c.colour = IF search[cmd.lamp] = {} THEN cmd.colour ELSE "blink"
<1>1. [lamp |-> cmd.lamp, colour |-> "blink"] \in Command
  BY DEF Command, Colour
<1>2. CASE search[cmd.lamp] = {}
  BY <1>2, PlannedIs
<1>3. CASE search[cmd.lamp] # {}
  <2>1. c = [lamp |-> cmd.lamp, colour |-> "blink"]
    BY <1>3, PlannedIs
  <2> QED
    BY <1>1, <1>3, <2>1
<1> QED
  BY <1>2, <1>3

LEMMA PlannedIsSome ==
  ASSUME NEW d \in {"sync", "refresh"}, NEW cmd \in Command,
         d = "refresh" => search[cmd.lamp] = {}
  PROVE  \E c : c \in Planned(d, cmd)
BY PlannedIs

LEMMA LookFields ==
  ASSUME LightsInv, NEW k \in Chore, Look(k)
  PROVE  /\ LightsShape'
         /\ chore'[k].about = chore[k].about /\ chore'[k].alone = chore[k].alone
         /\ chore'[k].place = chore[k].place /\ chore'[k].ends = chore[k].ends
         /\ At(k)' = "send" /\ KindOf(k)' = KindOf(k) /\ At(k) = "look" /\ chore[k] \in ChoreType
         /\ KindOf(k) \in {"sync", "refresh"} /\ chore[k].plan \subseteq Command
         /\ \A j \in Chore \ {k} : chore'[j] = chore[j]
         /\ \A c : c \in chore'[k].plan <=> \E cmd \in chore[k].plan : c \in Planned(KindOf(k), cmd)
<1>1. chore[k] # NoChore /\ At(k) = "look"
  BY DEF Look, Phase, At
<1>2. chore[k] \in ChoreType /\ chore[k].plan \subseteq Command
  BY <1>1, ShapeFields, ChoreFields
<1>3. KindOf(k) \in {"sync", "refresh"}
  BY <1>1 DEF LightsInv, Sensible
<1> DEFINE q == UNION {Planned(KindOf(k), cmd) : cmd \in chore[k].plan}
           s == <<"send", KindOf(k)>>
<1>4. chore' = [chore EXCEPT ![k].kind = s, ![k].plan = q]
  BY DEF Look
<1>5. \A c : c \in q <=> \E cmd \in chore[k].plan : c \in Planned(KindOf(k), cmd)
  OBVIOUS
<1>6. s \in {"read", "look", "send"} \X {"sync", "refresh", "revert", "blink"}
      /\ s[1] = "send" /\ s[2] = KindOf(k)
  BY <1>3
<1> HIDE DEF q, s
<1>7. q \subseteq Command
  BY <1>2, <1>3, <1>5, PlannedMeans
<1>8. chore' = WithChore(k, HavingLooked(chore[k], s, q))
  BY <1>4 DEF HavingLooked, WithChore
<1>9. HavingLooked(chore[k], s, q) \in ChoreType
  BY <1>2, <1>6, <1>7, HavingLookedMeans
<1>10. /\ chore'[k] = HavingLooked(chore[k], s, q)
       /\ chore' \in [Chore -> {NoChore} \union ChoreType]
       /\ \A j \in Chore \ {k} : chore'[j] = chore[j]
  BY <1>8, <1>9, WithChoreMeans
<1>11. /\ chore'[k].kind = s /\ chore'[k].about = chore[k].about /\ chore'[k].alone = chore[k].alone
       /\ chore'[k].plan = q /\ chore'[k].place = chore[k].place /\ chore'[k].ends = chore[k].ends
  BY <1>2, <1>10, HavingLookedMeans
<1>12. LightsShape'
  <2>1. UNCHANGED <<avail, bind, device, live, hello, shows, search, known, fresh>>
    BY DEF Look
  <2> QED
    BY <1>10, <2>1, ShapeFields, ShapeKept
<1>13. At(k)' = "send" /\ KindOf(k)' = KindOf(k)
  BY <1>6, <1>11 DEF At, KindOf
<1> QED
  BY <1>1, <1>2, <1>3, <1>5, <1>10, <1>11, <1>12, <1>13

LEMMA LookKeeps ==
  ASSUME LightsInv, NEW k \in Chore, Look(k)
  PROVE  LightsInv'
<1> DEFINE q == chore'[k].plan
<1>1. /\ LightsShape'
      /\ chore'[k].about = chore[k].about /\ chore'[k].alone = chore[k].alone
      /\ chore'[k].place = chore[k].place /\ chore'[k].ends = chore[k].ends
      /\ At(k)' = "send" /\ KindOf(k)' = KindOf(k) /\ At(k) = "look" /\ chore[k] \in ChoreType
      /\ KindOf(k) \in {"sync", "refresh"} /\ chore[k].plan \subseteq Command
      /\ \A j \in Chore \ {k} : chore'[j] = chore[j]
      /\ \A c : c \in q <=> \E cmd \in chore[k].plan : c \in Planned(KindOf(k), cmd)
  BY LookFields
<1>2. UNCHANGED <<avail, bind, device, live, hello, shows, search, known, fresh>>
  BY DEF Look
<1>3. Sensible(k) /\ (\A l \in Lamp : l \in chore[k].alone => Right(k, l))
      /\ \A l \in Lamp : l \in fresh /\ l \in chore[k].about => l \in chore[k].alone
  BY DEF LightsInv, ChoresApart
<1>4. chore[k].about \subseteq Lamp /\ chore[k].alone \subseteq chore[k].about /\ ~chore[k].ends
  <2>1. chore[k].about \subseteq Lamp /\ chore[k].ends \in BOOLEAN
    BY <1>1, ShapeFields, ChoreFields
  <2> QED
    BY <1>1, <1>3, <2>1 DEF Sensible
<1>5. \A l : Owed(k, l)' = Owed(k, l) /\ Shown(l)' = Shown(l)
  BY <1>1, <1>2, ColoursStay DEF Owed, Shown
<1> HIDE DEF q
<1>6. ASSUME NEW c \in q
      PROVE  \E cmd \in chore[k].plan :
               c.lamp = cmd.lamp /\ c.colour = IF search[cmd.lamp] = {} THEN cmd.colour ELSE "blink"
  BY <1>1, <1>6, PlannedMeans
<1>7. Sensible(k)'
  <2>1. \A c \in q : c.lamp \in chore[k].about
    BY <1>3, <1>6 DEF Sensible
  <2>2. /\ chore'[k].alone \subseteq chore'[k].about
        /\ \A cmd \in chore'[k].plan : cmd.lamp \in chore'[k].about
        /\ ~chore'[k].ends
    BY <1>1, <1>4, <2>1 DEF q
  <2> QED
    BY <1>1, <2>2 DEF Sensible
<1>8. ASSUME NEW l \in chore'[k].alone
      PROVE  Right(k, l)'
  <2>1. Right(k, l)
    BY <1>1, <1>3, <1>4
  <2>2. ASSUME bind[l].enabled, NEW c \in q, c.lamp = l
        PROVE  c.colour = Owed(k, l)
    <3>1. PICK cmd \in chore[k].plan :
            c.lamp = cmd.lamp /\ c.colour = IF search[cmd.lamp] = {} THEN cmd.colour ELSE "blink"
      BY <1>6, <2>2
    <3>2. cmd.colour = BaseColour(bind[l].place)
      BY <1>1, <2>1, <2>2, <3>1 DEF Right
    <3> QED
      BY <1>4, <2>2, <3>1, <3>2 DEF Owed
  <2>3. bind'[l].enabled => \A c \in chore'[k].plan : c.lamp = l =>
          c.colour = IF At(k)' = "look" THEN BaseColour(bind[l].place)' ELSE Owed(k, l)'
    BY <1>1, <1>2, <1>5, <2>2 DEF q
  <2>4. KindOf(k)' # "revert"
    BY <1>1
  <2> QED
    BY <2>3, <2>4 DEF Right
<1>9. ASSUME NEW l \in chore[k].about, Claimed(l)'
      PROVE  shows'[l] = Owed(k, l)' \/ Tells(k, l)'
  <2>1. Claimed(l)
    BY <1>2, <1>9 DEF Claimed, UpToDate
  <2>2. shows[l] = Owed(k, l) \/ Tells(k, l)
    BY <1>4, <2>1 DEF LightsInv, Served
  <2>3. ASSUME Tells(k, l)
        PROVE  Tells(k, l)'
    <3>1. PICK cmd \in chore[k].plan : cmd.lamp = l
      BY <1>1, <2>3 DEF Tells
    <3>2. KindOf(k) = "refresh" => search[cmd.lamp] = {}
      BY <1>1, <2>3, <3>1 DEF Tells
    <3>3. PICK c : c \in Planned(KindOf(k), cmd)
      BY <1>1, <3>1, <3>2, PlannedIsSome
    <3>4. c \in q /\ c.lamp = l
      BY <1>1, <3>1, <3>3, PlannedMeans
    <3> QED
      BY <1>1, <3>4 DEF Tells, q
  <2> QED
    BY <1>2, <1>5, <2>2, <2>3
<1> QED
  BY <1>1, <1>2, <1>3, <1>4, <1>7, <1>8, <1>9, ChoreKeeps

LEMMA PushKeeps ==
  ASSUME LightsInv, NEW k \in Chore, Push(k)
  PROVE  LightsInv'
<1>1. chore[k] # NoChore /\ At(k) = "send" /\ UNCHANGED <<avail, bind, device, live, hello, search, known>>
  BY DEF Push, Phase, At
<1>2. chore[k] \in ChoreType /\ chore[k].plan \subseteq Command /\ chore[k].about \subseteq Lamp
  BY <1>1, ShapeFields, ChoreFields
<1>3. PICK cmd \in chore[k].plan :
        /\ shows' = IF ControllerOf[cmd.lamp] \in live
                    THEN [shows EXCEPT ![cmd.lamp] = cmd.colour] ELSE shows
        /\ chore' = [chore EXCEPT ![k].plan = @ \ {cmd}]
        /\ fresh' = IF cmd.lamp \in chore[k].alone THEN fresh \union {cmd.lamp}
                    ELSE fresh \ {cmd.lamp}
  BY DEF Push
<1>4. Sensible(k) /\ (\A l \in Lamp : l \in chore[k].alone => Right(k, l))
      /\ \A l \in Lamp : l \in fresh /\ l \in chore[k].about => l \in chore[k].alone
  BY DEF LightsInv, ChoresApart
<1> DEFINE m == cmd.lamp
           q == chore[k].plan \ {cmd}
<1>5. m \in Lamp /\ m \in chore[k].about /\ cmd.colour \in Colour /\ chore[k].alone \subseteq chore[k].about
  BY <1>2, <1>4 DEF Sensible, Command
<1>6. chore' = WithChore(k, HavingSent(chore[k], q))
  BY <1>3 DEF WithChore, HavingSent
<1>7. q \subseteq Command /\ q \subseteq chore[k].plan
      /\ \A x \in chore[k].plan : x.lamp # m => x \in q
  BY <1>2
<1> HIDE DEF q
<1>8. HavingSent(chore[k], q) \in ChoreType
  BY <1>2, <1>7, HavingSentMeans
<1>9. /\ chore'[k] = HavingSent(chore[k], q)
      /\ chore' \in [Chore -> {NoChore} \union ChoreType]
      /\ \A j \in Chore \ {k} : chore'[j] = chore[j]
  BY <1>6, <1>8, WithChoreMeans
<1>10. /\ chore'[k].kind = chore[k].kind /\ chore'[k].about = chore[k].about
       /\ chore'[k].alone = chore[k].alone /\ chore'[k].plan = q
       /\ chore'[k].place = chore[k].place /\ chore'[k].ends = chore[k].ends
  BY <1>2, <1>9, HavingSentMeans
<1>11. /\ shows' \in [Lamp -> Colour] /\ \A l \in Lamp \ {m} : shows'[l] = shows[l]
       /\ ControllerOf[m] \in live => shows'[m] = cmd.colour
  BY <1>3, <1>5, ShapeFields
<1>12. /\ fresh' \subseteq Lamp /\ \A l \in Lamp \ {m} : l \in fresh' <=> l \in fresh
       /\ m \in fresh' => m \in chore[k].alone
  BY <1>3, <1>5, ShapeFields
<1>13. LightsShape'
  BY <1>1, <1>9, <1>11, <1>12, ShapeFields, ShapeKept
<1>14. At(k)' = "send" /\ KindOf(k)' = KindOf(k)
  BY <1>1, <1>10 DEF At, KindOf
<1>15. \A l : Owed(k, l)' = Owed(k, l)
  BY <1>1, <1>10, ColoursStay DEF Owed
<1>16. Sensible(k)'
  BY <1>4, <1>7, <1>10, <1>14 DEF Sensible
<1>17. ASSUME NEW l \in chore'[k].alone
       PROVE  Right(k, l)'
  <2>1. Right(k, l)
    BY <1>2, <1>4, <1>5, <1>10
  <2> QED
    BY <1>1, <1>7, <1>10, <1>14, <1>15, <2>1 DEF Right
<1>18. ASSUME NEW l \in chore[k].about, Claimed(l)'
       PROVE  shows'[l] = Owed(k, l)' \/ Tells(k, l)'
  <2>1. CASE l = m
    <3>1. m \in chore[k].alone /\ bind[m].enabled /\ ControllerOf[m] \in live
      BY <1>1, <1>12, <1>18, <2>1 DEF Claimed, UpToDate
    <3>2. cmd.colour = Owed(k, m)
      BY <1>1, <1>4, <1>5, <3>1 DEF Right
    <3> QED
      BY <1>11, <1>15, <2>1, <3>1, <3>2
  <2>2. CASE l # m
    <3>1. Claimed(l) /\ shows'[l] = shows[l]
      BY <1>1, <1>2, <1>11, <1>12, <1>18, <2>2 DEF Claimed, UpToDate
    <3>2. shows[l] = Owed(k, l) \/ Tells(k, l)
      BY <1>2, <3>1 DEF LightsInv, Served
    <3>3. Tells(k, l) => Tells(k, l)'
      BY <1>1, <1>7, <1>10, <1>14, <2>2 DEF Tells
    <3> QED
      BY <1>15, <3>1, <3>2, <3>3
  <2> QED
    BY <2>1, <2>2
<1>19. \A l \in chore[k].about : l \in fresh' => l \in chore[k].alone
  BY <1>2, <1>4, <1>12
<1>20. \A l \in Lamp \ chore[k].about :
         search'[l] = search[l] /\ shows'[l] = shows[l] /\ (l \in fresh' => l \in fresh)
  BY <1>1, <1>5, <1>11, <1>12
<1>21. chore'[k].alone = chore[k].alone \intersect chore'[k].about
       /\ chore'[k].about \subseteq chore[k].about
  BY <1>5, <1>10
<1> QED
  BY <1>1, <1>9, <1>10, <1>13, <1>16, <1>17, <1>18, <1>19, <1>20, <1>21, ChoreKeeps

LEMMA DoneKeeps ==
  ASSUME LightsInv, NEW k \in Chore, Done(k)
  PROVE  LightsInv'
<1>1. /\ chore[k] # NoChore /\ At(k) = "send" /\ chore[k].plan = {}
      /\ UNCHANGED <<avail, bind, device, live, hello, shows, known, fresh>>
      /\ chore' = WithChore(k, NoChore)
      /\ search' = [l \in Lamp |-> IF chore[k].ends /\ l \in chore[k].about
                                   THEN search[l] \ {chore[k].place} ELSE search[l]]
  BY DEF Done, Phase, At, WithChore
<1>2. chore[k] \in ChoreType /\ chore[k].about \subseteq Lamp
  BY <1>1, ShapeFields, ChoreFields
<1>3. Sensible(k) /\ (\A l \in Lamp : l \in chore[k].alone => Right(k, l))
      /\ \A l \in Lamp : l \in fresh /\ l \in chore[k].about => l \in chore[k].alone
  BY DEF LightsInv, ChoresApart
<1>4. /\ chore'[k] = NoChore /\ chore' \in [Chore -> {NoChore} \union ChoreType]
      /\ \A j \in Chore \ {k} : chore'[j] = chore[j]
  BY <1>1, WithChoreMeans
<1>5. /\ NoChore.kind[1] = "none" /\ NoChore.about = {} /\ NoChore.alone = {} /\ NoChore.plan = {}
      /\ NoChore.ends = FALSE
  BY DEF NoChore
<1>6. search' \in [Lamp -> SUBSET Place]
  BY <1>1, ShapeFields
<1>7. LightsShape'
  BY <1>1, <1>4, <1>6, ShapeFields, ShapeKept
<1>8. Sensible(k)'
  BY <1>4, <1>5 DEF Sensible, At, KindOf
<1>9. ASSUME NEW l \in chore[k].about, Claimed(l)'
      PROVE  shows'[l] = Shown(l)'
  <2>1. Claimed(l) /\ l \in chore[k].alone /\ l \in Lamp
    BY <1>1, <1>2, <1>3, <1>9 DEF Claimed, UpToDate
  <2>2. shows[l] = Owed(k, l)
    BY <1>1, <2>1, <1>9 DEF LightsInv, Served, Tells
  <2>3. BaseColour(bind[l].place)' = BaseColour(bind[l].place)
    BY <1>1, ColoursStay
  <2>4. CASE chore[k].ends
    <3>1. KindOf(k) = "revert"
      BY <1>3, <2>4 DEF Sensible
    <3>2. chore[k].place = bind[l].place /\ search[l] \subseteq {bind[l].place}
      BY <1>3, <2>1, <3>1 DEF Right
    <3>3. search'[l] = {}
      BY <1>1, <1>9, <2>1, <2>4, <3>2
    <3> QED
      BY <1>1, <2>2, <2>3, <2>4, <3>3 DEF Owed, Shown
  <2>5. CASE ~chore[k].ends
    <3>1. search'[l] = search[l]
      BY <1>1, <2>1, <2>5
    <3> QED
      BY <1>1, <2>2, <2>3, <2>5, <3>1 DEF Owed, Shown
  <2> QED
    BY <2>4, <2>5
<1>10. \A l \in Lamp \ chore[k].about :
         search'[l] = search[l] /\ shows'[l] = shows[l] /\ (l \in fresh' => l \in fresh)
  BY <1>1
<1>11. \A l \in chore[k].about : l \in fresh' => l \in chore[k].alone
  BY <1>1, <1>2, <1>3
<1>12. /\ chore'[k].about \subseteq chore[k].about
       /\ chore'[k].alone = chore[k].alone \intersect chore'[k].about
       /\ \A l \in chore'[k].alone : Right(k, l)'
       /\ \A l \in chore[k].about : l \notin chore'[k].about
  BY <1>4, <1>5
<1> QED
  BY <1>1, <1>4, <1>7, <1>8, <1>9, <1>10, <1>11, <1>12, ChoreKeeps

-----------------------------------------------------------------------------
LEMMA LightsInvStarts == LightsInit => LightsInv
<1> SUFFICES ASSUME LightsInit
             PROVE  LightsInv
  OBVIOUS
<1>1. /\ NoChore.kind[1] = "none" /\ NoChore.about = {} /\ NoChore.alone = {} /\ NoChore.plan = {}
      /\ NoChore.ends = FALSE
  BY DEF NoChore
<1>2. \A k \in Chore : chore[k] = NoChore
  BY DEF LightsInit
<1>3. LightsShape
  BY LightsAssumption DEF LightsInit, LightsShape, LightsTypeOK, Unbound, Binding, Colour
<1>4. \A k \in Chore : Sensible(k)
  BY <1>1, <1>2 DEF Sensible, At, KindOf
<1>5. ChoresApart
  BY <1>1, <1>2 DEF ChoresApart
<1>6. \A l \in Lamp : Served(l)
  BY DEF LightsInit, Served, Claimed
<1> QED
  BY <1>3, <1>4, <1>5, <1>6 DEF LightsInv

LEMMA LightsInvKept == LightsInv /\ [LightsNext]_lightVars => LightsInv'
<1> SUFFICES ASSUME LightsInv, [LightsNext]_lightVars
             PROVE  LightsInv'
  OBVIOUS
<1>1. CASE UNCHANGED lightVars
  <2>1. UNCHANGED <<avail, bind, device, live, hello, shows, search, known, chore, fresh>>
    BY <1>1 DEF lightVars
  <2>2. LightsShape'
    BY <2>1, ShapeFields, ShapeKept
  <2>3. \A l \in fresh : UpToDate(ControllerOf[l])' => UpToDate(ControllerOf[l])
    BY <2>1 DEF UpToDate
  <2> QED
    BY <2>1, <2>2, <2>3, LampsQuiet
<1>2. CASE LightsNext
  <2>1. CASE \E k \in Chore :
               \/ \E g \in Good, p \in Place, n \in 0 .. MaxAvail : StockChange(k, g, p, n)
               \/ \E c \in Controller : DeviceEvent(k, c) \/ Refresh(k, c)
    BY <2>1, StockChangeKeeps, DeviceEventKeeps, RefreshKeeps
  <2>2. CASE \E k \in Chore :
               \/ \E l \in Lamp : SearchBegins(k, l) \/ Calibrate(k, l)
               \/ \E l \in Lamp, p \in Place : SearchEnds(k, l, p) \/ SearchExpires(k, l, p)
    BY <2>2, SearchBeginsKeeps, CalibrateKeeps, SearchEndsKeeps, SearchExpiresKeeps
  <2>3. CASE \E k \in Chore : Read(k) \/ Look(k) \/ Push(k) \/ Done(k)
    BY <2>3, ReadKeeps, LookKeeps, PushKeeps, DoneKeeps
  <2>4. CASE \E c \in Controller : \/ SweepOffline(c) \/ SaveController(c) \/ RemoveController(c)
                                   \/ GoesDown(c) \/ ComesUp(c)
    BY <2>4, SweepOfflineKeeps, ControllerKeeps, GoesDownKeeps, ComesUpKeeps
  <2>5. CASE \E was \in Lamp \union {NoLamp}, l \in Lamp, p \in Place, enabled \in BOOLEAN :
               SaveBinding(was, l, p, enabled)
    BY <2>5, SaveBindingKeeps
  <2>6. CASE \E l \in Lamp : RemoveBinding(l) \/ LampTimesOut(l) \/ \E p \in Place : SearchDropped(l, p)
    BY <2>6, RemoveBindingKeeps, LampTimesOutKeeps, SearchDroppedKeeps
  <2> QED
    BY <1>2, <2>1, <2>2, <2>3, <2>4, <2>5, <2>6, LightsCrashKeeps DEF LightsNext
<1> QED
  BY <1>1, <1>2

\* A lamp that no chore is about shows what it should.
LEMMA LightsInvTells == LightsInv => LampsRight
<1> SUFFICES ASSUME LightsInv
             PROVE  LampsRight
  OBVIOUS
<1>1. LightsTypeOK
  BY DEF LightsInv, LightsShape
<1>2. LampsTellTheTruth
  <2> SUFFICES ASSUME NEW l \in fresh, UpToDate(ControllerOf[l]), bind[l].enabled,
                      \A k \in Chore : l \notin chore[k].about
               PROVE  shows[l] = Shown(l)
    BY DEF LampsTellTheTruth, Shown
  <2>1. l \in Lamp /\ Claimed(l)
    BY ShapeFields DEF Claimed
  <2> QED
    BY <2>1 DEF LightsInv, Served
<1> QED
  BY <1>1, <1>2 DEF LampsRight

(* With any number of chores in flight, a lamp that the last chore to tell it had to   *)
(* itself tells the truth once nothing is about it, while its controller is on line:   *)
(* what handleDeviceEvent synchronises, refreshBaseColorsForStockChange and            *)
(* pushBaseColor send, and a search leaves, is what the location holds.                *)
THEOREM LampsComeRight == LightsSpec => []LampsRight
<1> QED
  BY LightsInvStarts, LightsInvKept, LightsInvTells, PTL DEF LightsSpec
=============================================================================
