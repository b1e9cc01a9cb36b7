-------------------------------- MODULE Wifi --------------------------------
(***************************************************************************)
(* driver/wifi.c and the start-up in user_main.c, for the firmware built   *)
(* without the reader (PN532_CONNECTED undefined): user_init,              *)
(* post_user_init_func with wifi_configuration, the event handler that     *)
(* keeps wifi.connection, and the loop callback that reads it.             *)
(*                                                                         *)
(* The SDK's side is external: the station, which joins a network while it *)
(* is told to connect and may lose it at any time, and the queue through   *)
(* which its events reach the handler, later and in order.  Before the     *)
(* handler is registered events come to nobody.                            *)
(***************************************************************************)
EXTENDS Naturals, Sequences

CONSTANTS
    Own,            \* the network of initVariables (pn532.c:27-28)
    Old,            \* the network an earlier program has left in flash
    MaxEvents       \* how many events may be on their way at once

ASSUME WifiAssumption == Own # Old /\ MaxEvents \in Nat \ {0}

NoNetwork == "none"

VARIABLES
    boot,           \* "off", "init" after user_init, "up" after
                    \* post_user_init_func
    client,         \* wifi.clientSsid and clientPswd
    connection,     \* wifi.connection
    station,        \* the SDK's station, a record of Station
    link,           \* the network the station has joined
    gotIp,          \* and whether it has an address there
    onAir,          \* the networks within reach
    events,         \* the events on their way to the handler
    handler,        \* is wifiEventHandler registered?
    loopTimer,      \* is a timer armed with loop?
    status          \* what loop has printed last: "none", "connected", "trying"

firmware == <<boot, client, connection, handler, loopTimer, status>>
sdk      == <<station, link, gotIp, events>>
vars     == <<firmware, sdk, onAir>>

Station ==
    [config : {Own, Old}, active : BOOLEAN, dhcpc : BOOLEAN, auto : BOOLEAN]

\* The station comes up with what flash holds.
Init ==
    /\ boot = "off" /\ client = NoNetwork
    /\ connection \in BOOLEAN
    /\ station \in {s \in Station : s.active = s.auto /\ s.dhcpc}
    /\ link = NoNetwork /\ gotIp = FALSE
    /\ onAir \in SUBSET {Own, Old}
    /\ events = <<>>
    /\ handler = FALSE /\ loopTimer = FALSE /\ status = "none"

-----------------------------------------------------------------------------
(* The SDK.                                                                *)

Posts(event) ==
    /\ Len(events) < MaxEvents
    /\ events' = Append(events, event)

Joins ==
    /\ boot # "off" /\ station.active /\ link = NoNetwork
    /\ station.config \in onAir
    /\ link' = station.config
    /\ Posts("EVENT_STAMODE_CONNECTED")
    /\ UNCHANGED <<station, gotIp, firmware, onAir>>

GetsAddress ==
    /\ link # NoNetwork /\ ~gotIp /\ station.dhcpc
    /\ gotIp' = TRUE
    /\ Posts("EVENT_STAMODE_GOT_IP")
    /\ UNCHANGED <<station, link, firmware, onAir>>

Loses ==
    /\ link # NoNetwork /\ link \notin onAir
    /\ link' = NoNetwork /\ gotIp' = FALSE
    /\ Posts("EVENT_STAMODE_DISCONNECTED")
    /\ UNCHANGED <<station, firmware, onAir>>

\* A network comes within reach or goes.
Radio ==
    /\ \E n \in {Own, Old} :
            onAir' = IF n \in onAir THEN onAir \ {n} ELSE onAir \cup {n}
    /\ UNCHANGED <<sdk, firmware>>

-----------------------------------------------------------------------------
(* The firmware.                                                           *)

\* A slip to test against: initVariables is not called.
user_init_bare ==
    /\ boot = "off"
    /\ boot' = "init"
    /\ connection' = FALSE
    /\ UNCHANGED <<client, handler, loopTimer, status, sdk, onAir>>

user_init ==
    /\ boot = "off"
    /\ boot' = "init"
    /\ client' = Own
    /\ connection' = FALSE
    /\ UNCHANGED <<handler, loopTimer, status, sdk, onAir>>

\* setup_wifi_st_mode: whether the SDK takes the new configuration or not, the
\* station is told to connect.
Configured(s) ==
    {[config |-> c, active |-> TRUE, dhcpc |-> TRUE, auto |-> TRUE] :
        c \in {client, s.config}}

\* wifi_station_disconnect, the new configuration, wifi_station_connect; the
\* handler comes last, and then loop is due in a second.
post_user_init_func ==
    /\ boot = "init"
    /\ boot' = "up"
    /\ link' = NoNetwork /\ gotIp' = FALSE
    /\ IF link = NoNetwork THEN events' = events
                           ELSE Posts("EVENT_STAMODE_DISCONNECTED")
    /\ station' \in Configured(station)
    /\ handler' = TRUE
    /\ loopTimer' = TRUE
    /\ UNCHANGED <<client, connection, status, onAir>>

\* A slip to test against: a break is missing.
FlagAfterFallingThrough(flag, event) ==
    flag \/ event \in {"EVENT_STAMODE_DISCONNECTED", "EVENT_STAMODE_GOT_IP"}

\* wifi.connection after wifiEventHandler has seen an event.
FlagAfter(flag, event) ==
    CASE event = "EVENT_STAMODE_DISCONNECTED" -> FALSE
      [] event = "EVENT_STAMODE_GOT_IP"       -> TRUE
      [] OTHER                                -> flag

wifiEventHandler ==
    /\ events # <<>> /\ handler
    /\ connection' = FlagAfter(connection, Head(events))
    /\ events' = Tail(events)
    /\ UNCHANGED <<station, link, gotIp, boot, client, handler, loopTimer,
                   status, onAir>>

EventIsLost ==
    /\ events # <<>> /\ ~handler
    /\ events' = Tail(events)
    /\ UNCHANGED <<station, link, gotIp, firmware, onAir>>

\* A slip to test against: loop arms its timer only when there is a network.
loopOnce ==
    /\ loopTimer
    /\ status' = IF connection THEN "connected" ELSE "trying"
    /\ loopTimer' = connection
    /\ UNCHANGED <<boot, client, connection, handler, sdk, onAir>>

\* The callback prints and arms its timer again.
loop ==
    /\ loopTimer
    /\ status' = IF connection THEN "connected" ELSE "trying"
    /\ loopTimer' = TRUE
    /\ UNCHANGED <<boot, client, connection, handler, sdk, onAir>>

Next ==
    \/ user_init \/ post_user_init_func
    \/ wifiEventHandler \/ EventIsLost
    \/ loop
    \/ Joins \/ GetsAddress \/ Loses
    \/ Radio

Spec == Init /\ [][Next]_vars

\* Fairness.  The SDK calls what it has been given to call, and its station
\* keeps trying.  Nothing makes networks come or go.
Fairness ==
    /\ WF_vars(user_init) /\ SF_vars(post_user_init_func)
    /\ WF_vars(wifiEventHandler) /\ WF_vars(EventIsLost) /\ WF_vars(loop)
    /\ SF_vars(Joins) /\ SF_vars(GetsAddress) /\ SF_vars(Loses)

FairSpec == Spec /\ Fairness

-----------------------------------------------------------------------------
(* Properties.                                                             *)

\* Every variable keeps to its type.
TypeOK ==
    /\ boot \in {"off", "init", "up"}
    /\ client \in {NoNetwork, Own}
    /\ connection \in BOOLEAN
    /\ station \in Station
    /\ link \in {NoNetwork, Own, Old} /\ gotIp \in BOOLEAN
    /\ onAir \subseteq {Own, Old}
    /\ events \in Seq({"EVENT_STAMODE_CONNECTED", "EVENT_STAMODE_GOT_IP",
                       "EVENT_STAMODE_DISCONNECTED"})
    /\ Len(events) <= MaxEvents
    /\ handler \in BOOLEAN /\ loopTimer \in BOOLEAN
    /\ status \in {"none", "connected", "trying"}

\* The places in the queue of the events that say whether there is an address.
Telling == {i \in DOMAIN events : events[i] # "EVENT_STAMODE_CONNECTED"}

\* What the last of them says, or the flag itself when there is none.
Told ==
    IF Telling = {}
       THEN connection
       ELSE \E i \in Telling :
                /\ events[i] = "EVENT_STAMODE_GOT_IP"
                /\ \A j \in Telling : j <= i

\* Late, but never wrong: once the events that are on their way have arrived,
\* wifi.connection says whether the station has an address.  The links that
\* came and went before the handler was registered leave no trace in it.
FlagCatchesUp == boot = "up" => (Told <=> gotIp)

\* While the station's network stays within reach the loop callback comes to
\* print that it is connected; while it stays away, that it is not.
LoopTellsTheTruth ==
    /\ <>[](station.config \in onAir) => <>[](status = "connected")
    /\ <>[](station.config \notin onAir) => <>[](status = "trying")
=============================================================================
