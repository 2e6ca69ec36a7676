----------------------------- MODULE PtlGateway -----------------------------
(***************************************************************************)
(* PtlGateway: the one MQTT client of the server, which stops reconnecting *)
(* after three attempts, and what depends on it: commands go out and       *)
(* controllers are heard of only while it is connected.                    *)
(***************************************************************************)
EXTENDS Integers

CONSTANTS
  MaxReconnects,  \* 3 in the code
  MaxOutages      \* bound: how often the broker goes down or the server restarts

ASSUME GatewayAssumption == MaxReconnects \in Nat \ {0} /\ MaxOutages \in Nat

VARIABLES
  client,    \* the MQTT client: none, or the state of its connection
  attempts,  \* reconnectAttempts
  timer,     \* the stable timer is running
  broker,    \* is the broker up?
  outages,   \* how often it has been down
  heard,     \* the controller's row is ONLINE
  tries      \* history: reconnects since the client was new or stable

gateVars == <<client, attempts, timer, broker, outages, heard, tries>>

\* The client, its counter and its timer keep their shape.
GatewayTypeOK ==
  /\ client \in {"none", "connecting", "connected", "lost"}
  /\ attempts \in 0 .. MaxReconnects
  /\ timer \in BOOLEAN /\ broker \in BOOLEAN /\ heard \in BOOLEAN
  /\ outages \in 0 .. MaxOutages /\ tries \in Nat

\* onModuleInit connects at once.
GatewayInit ==
  /\ client = "connecting" /\ attempts = 0 /\ timer = FALSE /\ tries = 0
  /\ broker = TRUE /\ outages = 0 /\ heard = FALSE

\* 'connect': the 30 second timer starts again, and the events are subscribed to.
Connects ==
  /\ client = "connecting" /\ broker
  /\ client' = "connected" /\ timer' = TRUE
  /\ UNCHANGED <<attempts, broker, outages, heard, tries>>

\* External: the connection is refused, or breaks.
Loses ==
  /\ client \in {"connecting", "connected"} /\ ~broker
  /\ client' = "lost"
  /\ UNCHANGED <<attempts, timer, broker, outages, heard, tries>>

\* Fault: the timer runs on while the connection is lost.
ReconnectsKeepingTimer ==
  /\ client = "lost"
  /\ attempts' = attempts + 1 /\ tries' = tries + 1
  /\ client' = IF attempts' >= MaxReconnects THEN "none" ELSE "connecting"
  /\ UNCHANGED <<timer, broker, outages, heard>>

\* 'reconnect', every two seconds: the last attempt ends the client instead.
Reconnects ==
  /\ client = "lost"
  /\ timer' = FALSE
  /\ attempts' = attempts + 1 /\ tries' = tries + 1
  /\ client' = IF attempts' >= MaxReconnects THEN "none" ELSE "connecting"
  /\ UNCHANGED <<broker, outages, heard>>

\* The stable timer fires, also in the two seconds between a loss and 'reconnect'.
Stable ==
  /\ timer
  /\ timer' = FALSE /\ attempts' = 0
  /\ tries' = IF client \in {"connected", "lost"} THEN 0 ELSE tries
  /\ UNCHANGED <<client, broker, outages, heard>>

\* Fault: a client that was given up stays so.
EnsureClientOnce == UNCHANGED <<client, attempts, tries>>

\* ensureClient: a new client starts its count at 0.
EnsureClient ==
  IF client = "none" THEN client' = "connecting" /\ attempts' = 0 /\ tries' = 0
  ELSE UNCHANGED <<client, attempts, tries>>

SendCommand == EnsureClient /\ UNCHANGED <<timer, broker, outages, heard>>

\* lightUp and the refreshes leave out controllers that are not ONLINE ...
CommandOnline == heard /\ SendCommand

\* ... while confirm, lightOff, calibrate and a refresh by id send all the same.
CommandAnyway == SendCommand

\* onMessage: a controller's event reaches handleDeviceEvent.
Hears ==
  /\ client = "connected" /\ broker
  /\ heard' = TRUE
  /\ UNCHANGED <<client, attempts, timer, broker, outages, tries>>

\* sweepOfflineDevices: nothing has been heard for a minute.
HearsNothing ==
  /\ client # "connected"
  /\ heard' = FALSE
  /\ UNCHANGED <<client, attempts, timer, broker, outages, tries>>

\* External: the broker.
BrokerDown ==
  /\ broker /\ outages < MaxOutages
  /\ broker' = FALSE /\ outages' = outages + 1
  /\ UNCHANGED <<client, attempts, timer, heard, tries>>

BrokerUp ==
  /\ ~broker
  /\ broker' = TRUE
  /\ UNCHANGED <<client, attempts, timer, outages, heard, tries>>

GatewayRestart ==
  /\ outages < MaxOutages /\ outages' = outages + 1
  /\ client' = "connecting" /\ attempts' = 0 /\ timer' = FALSE /\ tries' = 0
  /\ UNCHANGED <<broker, heard>>

GatewayNext ==
  \/ Connects \/ Loses \/ Reconnects \/ Stable
  \/ CommandOnline \/ CommandAnyway \/ Hears \/ HearsNothing
  \/ BrokerDown \/ BrokerUp \/ GatewayRestart

GatewaySpec == GatewayInit /\ [][GatewayNext]_gateVars

-----------------------------------------------------------------------------
(* The count of reconnects is cleared by a new client or by 30 seconds without *)
(* a reconnect, and by nothing else: a flapping connection is given up.  Until *)
(* then client, timer and counter keep their shape.                            *)
CountIsHonest == GatewayTypeOK /\ attempts = tries

(* The server never stays deaf: after the last outage the controllers are      *)
(* heard of again.                                                             *)
HeardAgain == []<>heard
=============================================================================
