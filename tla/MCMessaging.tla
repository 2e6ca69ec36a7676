---------------------------- MODULE MCMessaging ----------------------------
(***************************************************************************)
(* An instance for the liveness of four components that share no state:    *)
(* pick tasks, the MQTT gateway, notices and the rate limit.  A behaviour  *)
(* exercises one of them (turn), while the others stay as they start; its  *)
(* fairness is the fairness of that one.                                   *)
(***************************************************************************)
EXTENDS PtlTask, PtlGateway, Notify, RateLimit

CONSTANTS s1, r1, t1, u1, c1, c2, p1

VARIABLE turn

\* One task that wants one row.
OneSpot == [r \in Stocked |-> s1]
OneGood == [r \in Stocked |-> "goods"]
OneTask ==
  [t \in Task |-> [user |-> "picker", good |-> "goods", spots |-> {}, filed |-> "goods"]]

\* One of the users has a token without a tenant.
Colleagues == [u \in User |-> IF u = u1 THEN "ours" ELSE Nobody]

Init ==
  /\ PtlInit /\ GatewayInit /\ NotifyInit /\ RateInit
  /\ turn \in {"tasks", "gateway", "notices", "rate"}

TaskTurn == turn = "tasks" /\ PtlNext /\ UNCHANGED <<gateVars, notifyVars, rateVars, turn>>
GatewayTurn ==
  turn = "gateway" /\ GatewayNext /\ UNCHANGED <<ptlVars, notifyVars, rateVars, turn>>

Announcing ==
  \E n \in Notice : \/ stage[n] \in {"publish", "local"}
                     \/ \E s \in Server : channel[s][n] > 0
Silent == \A n \in Notice : stage[n] = "none"

\* Bounds.  The stream registered first is c1, and its user u1; the server that
\* saves notices is p1, and they are of the tenant "ours".  Streams begin before a
\* notice is published and end after one is saved, servers start, die and lose Redis
\* before it or while it is announced, and it is read and expires when all is over.
NoticeBounds ==
  /\ conn'[c1].user \in {u1, Nobody}
  /\ conn'[c1] = NoConn => conn'[c2] = NoConn
  /\ \A n \in Notice : notice'[n].by \in {p1, Nobody} /\ notice'[n].tenant \in {"ours", Nobody}
  /\ (\E n \in Notice : notice'[n].read \/ notice'[n].past)
       => ~Announcing /\ \A c \in Conn : conn[c] \in {NoConn, Ended}
  /\ Silent => \A c \in Conn : conn'[c].state \in {"none", "open"}
  /\ (\E c \in Conn : conn[c] = NoConn /\ conn'[c] # NoConn)
       => \A n \in Notice : stage[n] \in {"none", "publish"}
  /\ (wired' # wired \/ hearing' # hearing) => (Announcing \/ Silent)

NoticeTurn ==
  /\ turn = "notices" /\ NotifyNext /\ NoticeBounds
  /\ UNCHANGED <<ptlVars, gateVars, rateVars, turn>>
RateTurn == turn = "rate" /\ RateNext /\ UNCHANGED <<ptlVars, gateVars, notifyVars, turn>>

Next == TaskTurn \/ GatewayTurn \/ NoticeTurn \/ RateTurn

\* Of tasks, notices and the rate limit nothing that has to go on is enabled before
\* their turn; the gateway connects by itself.  What the MQTT library, the timers,
\* the controllers and the broker do goes on, pickers light lamps again and again,
\* and somebody calibrates or refreshes a controller by hand.
Spec ==
  /\ Init /\ [][Next]_<<ptlVars, gateVars, notifyVars, rateVars, turn>>
  /\ PtlFairness /\ NotifyFairness /\ RateFairness
  /\ WF_gateVars(turn = "gateway" /\ Connects) /\ WF_gateVars(turn = "gateway" /\ Loses)
  /\ WF_gateVars(turn = "gateway" /\ Reconnects) /\ WF_gateVars(turn = "gateway" /\ Stable)
  /\ WF_gateVars(turn = "gateway" /\ Hears) /\ WF_gateVars(turn = "gateway" /\ HearsNothing)
  /\ WF_gateVars(turn = "gateway" /\ BrokerUp)
  /\ WF_gateVars(turn = "gateway" /\ CommandOnline)
  /\ WF_gateVars(turn = "gateway" /\ CommandAnyway)

(* The server hears of its controllers again after every outage, as long as   *)
(* somebody calibrates or refreshes one by hand.                               *)
HeardAgainInTurn == turn = "gateway" => HeardAgain
=============================================================================
