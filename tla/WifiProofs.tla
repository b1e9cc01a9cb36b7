----------------------------- MODULE WifiProofs -----------------------------
(***************************************************************************)
(* wifi.connection catches up with the station, for every bound on the     *)
(* events that may be on their way.                                        *)
(***************************************************************************)
EXTENDS Wifi, TLAPS

\* What is known of the start-up: as long as the handler is not registered the
\* flag is down, and what the queue tells cannot be better than the truth,
\* because events are taken from its head and each loss of the link adds one at
\* its end.
StartUp ==
    /\ handler <=> boot = "up"
    /\ boot # "off" => client = Own
    /\ boot = "off" => events = <<>> /\ link = NoNetwork
    /\ boot = "init" => ~connection /\ (Told => gotIp)
    /\ gotIp => link # NoNetwork

WifiInv == TypeOK /\ StartUp /\ FlagCatchesUp

Event ==
    {"EVENT_STAMODE_CONNECTED", "EVENT_STAMODE_GOT_IP",
     "EVENT_STAMODE_DISCONNECTED"}

-----------------------------------------------------------------------------
(* The queue.                                                              *)

\* An event that is added at the end is the last word, unless it tells nothing.
LEMMA PostTold ==
    ASSUME TypeOK, NEW e \in Event, events' = Append(events, e),
           UNCHANGED connection
    PROVE  Told' <=> IF e = "EVENT_STAMODE_CONNECTED"
                        THEN Told ELSE e = "EVENT_STAMODE_GOT_IP"
<1>1. /\ events \in Seq(Event)
      /\ DOMAIN events = 1..Len(events) /\ Len(events) \in Nat
    BY DEF TypeOK, Event
<1>2. /\ DOMAIN events' = 1..Len(events) + 1
      /\ events'[Len(events) + 1] = e
      /\ \A i \in 1..Len(events) : events'[i] = events[i]
    BY <1>1
<1>3. CASE e = "EVENT_STAMODE_CONNECTED"
    <2>1. Telling' = Telling
        BY <1>1, <1>2, <1>3 DEF Telling
    <2>2. \A i \in Telling : events'[i] = events[i]
        BY <1>1, <1>2 DEF Telling
    <2> QED BY <1>3, <2>1, <2>2 DEF Told
<1>4. CASE e # "EVENT_STAMODE_CONNECTED"
    <2>1. Telling' = Telling \cup {Len(events) + 1}
        BY <1>1, <1>2, <1>4 DEF Telling
    <2>2. \A j \in Telling' : j \in Nat /\ j <= Len(events) + 1
        BY <1>1, <2>1 DEF Telling
    <2> QED BY <1>1, <1>2, <1>4, <2>1, <2>2 DEF Told
<1> QED BY <1>3, <1>4

\* Taking the head off moves the other events one place forward.
LEMMA TailShifts ==
    ASSUME TypeOK, events # <<>>, events' = Tail(events)
    PROVE  /\ Head(events) \in Event
           /\ \A i : i \in Telling' <=> i \in Nat \ {0} /\ i + 1 \in Telling
           /\ \A i \in Telling' : events'[i] = events[i + 1]
           /\ \A i \in Telling : i \in Nat \ {0}
           /\ 1 \in Telling <=> Head(events) # "EVENT_STAMODE_CONNECTED"
           /\ Head(events) = events[1]
<1>1. /\ events \in Seq(Event) /\ Len(events) \in Nat /\ Len(events) > 0
      /\ DOMAIN events = 1..Len(events)
    BY DEF TypeOK, Event
<1>2. /\ DOMAIN events' = 1..Len(events) - 1
      /\ \A i \in 1..Len(events) - 1 : events'[i] = events[i + 1]
    BY <1>1
<1>3. Head(events) = events[1] /\ events[1] \in Event
    BY <1>1
<1> QED BY <1>1, <1>2, <1>3 DEF Telling

\* Before the handler is registered, an event that comes to nobody was either
\* not the last word or leaves the flag, which is down.
LEMMA DropTold ==
    ASSUME TypeOK, events # <<>>, events' = Tail(events), UNCHANGED connection,
           ~connection, Told'
    PROVE  Told
<1>1. Telling' # {}
    BY DEF Told
<1>2. PICK i \in Telling' : /\ events'[i] = "EVENT_STAMODE_GOT_IP"
                            /\ \A j \in Telling' : j <= i
    BY <1>1 DEF Told
<1>3. i + 1 \in Telling /\ events[i + 1] = "EVENT_STAMODE_GOT_IP" /\ i \in Nat
    BY <1>2, TailShifts
<1>4. ASSUME NEW j \in Telling PROVE j <= i + 1
    <2>1. j \in Nat \ {0}
        BY TailShifts
    <2>2. CASE j = 1
        BY <1>3, <2>2
    <2>3. CASE j > 1
        <3>1. j - 1 \in Nat \ {0} /\ (j - 1) + 1 = j
            BY <2>1, <2>3
        <3>2. j - 1 \in Telling'
            BY <3>1, TailShifts
        <3> QED BY <1>2, <1>3, <2>1, <3>2
    <2> QED BY <2>1, <2>2, <2>3
<1> QED BY <1>3, <1>4 DEF Told

\* wifiEventHandler changes nothing about what is told: it takes an event off
\* the queue and does what the event says.
LEMMA HandleTold ==
    ASSUME TypeOK, events # <<>>, events' = Tail(events),
           connection' = FlagAfter(connection, Head(events))
    PROVE  Told' <=> Told
<1>1. CASE Telling' # {}
    <2>1. PICK t \in Telling' : TRUE
        BY <1>1
    <2>2. t + 1 \in Telling /\ t \in Nat \ {0}
        BY TailShifts
    <2>3. ASSUME NEW i \in Telling' PROVE
            /\ i \in Nat \ {0} /\ i + 1 \in Telling
            /\ events'[i] = events[i + 1]
        BY TailShifts
    <2>4. ASSUME NEW i \in Telling, \A j \in Telling : j <= i
          PROVE  i - 1 \in Telling'
        <3>1. i \in Nat /\ i >= t + 1
            BY <2>2, <2>4, TailShifts
        <3>2. i - 1 \in Nat \ {0} /\ (i - 1) + 1 = i
            BY <2>2, <3>1
        <3> QED BY <3>2, TailShifts
    <2>5. ASSUME NEW i \in Telling'
          PROVE  (\A j \in Telling' : j <= i) <=> (\A j \in Telling : j <= i + 1)
        <3>1. ASSUME \A j \in Telling' : j <= i, NEW j \in Telling
              PROVE  j <= i + 1
            <4>1. j \in Nat \ {0} /\ i \in Nat
                BY TailShifts, <2>3
            <4>2. CASE j = 1
                BY <4>1, <4>2
            <4>3. CASE j > 1
                <5>1. j - 1 \in Nat \ {0} /\ (j - 1) + 1 = j
                    BY <4>1, <4>3
                <5>2. j - 1 \in Telling'
                    BY <5>1, TailShifts
                <5> QED BY <3>1, <4>1, <5>2
            <4> QED BY <4>1, <4>2, <4>3
        <3>2. ASSUME \A j \in Telling : j <= i + 1, NEW j \in Telling'
              PROVE  j <= i
            BY <2>3, <3>2
        <3> QED BY <3>1, <3>2
    <2>6. ASSUME Told PROVE Told'
        <3>1. PICK i \in Telling : /\ events[i] = "EVENT_STAMODE_GOT_IP"
                                   /\ \A j \in Telling : j <= i
            BY <2>2, <2>6 DEF Told
        <3>2. i \in Nat /\ i - 1 \in Telling' /\ (i - 1) + 1 = i
            BY <2>4, <3>1, TailShifts
        <3>3. events'[i - 1] = "EVENT_STAMODE_GOT_IP"
            BY <2>3, <3>1, <3>2
        <3>4. \A j \in Telling' : j <= i - 1
            BY <2>5, <3>1, <3>2
        <3> QED BY <3>2, <3>3, <3>4 DEF Told
    <2>7. ASSUME Told' PROVE Told
        <3>1. PICK i \in Telling' : /\ events'[i] = "EVENT_STAMODE_GOT_IP"
                                    /\ \A j \in Telling' : j <= i
            BY <1>1, <2>7 DEF Told
        <3> QED BY <2>3, <2>5, <3>1 DEF Told
    <2> QED BY <2>6, <2>7
<1>2. CASE Telling' = {}
    <2>1. \A i \in Telling : i = 1
        <3>1. SUFFICES ASSUME NEW i \in Telling, i # 1 PROVE FALSE
            OBVIOUS
        <3>2. i - 1 \in Nat \ {0} /\ (i - 1) + 1 = i
            BY <3>1, TailShifts
        <3> QED BY <1>2, <3>2, TailShifts
    <2>2. Told' <=> FlagAfter(connection, Head(events))
        BY <1>2 DEF Told
    <2>3. CASE 1 \in Telling
        <3>1. Telling = {1} /\ Head(events) = events[1]
              /\ Head(events) \in {"EVENT_STAMODE_GOT_IP", "EVENT_STAMODE_DISCONNECTED"}
            BY <2>1, <2>3, TailShifts DEF Event
        <3>2. Told <=> events[1] = "EVENT_STAMODE_GOT_IP"
            BY <3>1 DEF Told
        <3> QED BY <2>2, <3>1, <3>2 DEF FlagAfter
    <2>4. CASE 1 \notin Telling
        <3>1. Telling = {} /\ Head(events) = "EVENT_STAMODE_CONNECTED"
            BY <2>1, <2>4, TailShifts
        <3> QED BY <2>2, <3>1 DEF FlagAfter, Told
    <2> QED BY <2>3, <2>4
<1> QED BY <1>1, <1>2

LEMMA SameTold ==
    ASSUME UNCHANGED <<connection, events>>
    PROVE  Told' <=> Told
BY DEF Told, Telling

-----------------------------------------------------------------------------
(* Types.                                                                  *)

LEMMA PostType ==
    ASSUME TypeOK, NEW e \in Event, Posts(e)
    PROVE  /\ events' = Append(events, e)
           /\ events' \in Seq(Event)
           /\ Len(events') <= MaxEvents
BY WifiAssumption DEF TypeOK, Event, Posts

LEMMA TakeType ==
    ASSUME TypeOK, events # <<>>, events' = Tail(events)
    PROVE  events' \in Seq(Event) /\ Len(events') <= MaxEvents
BY WifiAssumption DEF TypeOK, Event

LEMMA TypeStep ==
    ASSUME TypeOK, StartUp, Next
    PROVE  TypeOK'
<1> USE DEF NoNetwork
<1>1. CASE user_init
    BY <1>1 DEF TypeOK, user_init, sdk
<1>2. CASE post_user_init_func
    <2>1. events' \in Seq(Event) /\ Len(events') <= MaxEvents
        BY <1>2, PostType DEF post_user_init_func, TypeOK, Event
    <2>2. station' \in Station
        <3>1. client = Own /\ station.config \in {Own, Old}
            BY <1>2 DEF post_user_init_func, StartUp, TypeOK, Station
        <3>2. PICK c \in {client, station.config} :
                station' = [config |-> c, active |-> TRUE, dhcpc |-> TRUE,
                            auto |-> TRUE]
            BY <1>2 DEF post_user_init_func, Configured
        <3> QED BY <3>1, <3>2 DEF Station
    <2> QED BY <1>2, <2>1, <2>2 DEF post_user_init_func, TypeOK, Event
<1>3. CASE wifiEventHandler
    <2>1. connection' \in BOOLEAN
        BY <1>3 DEF wifiEventHandler, FlagAfter, TypeOK
    <2> QED BY <1>3, <2>1, TakeType DEF wifiEventHandler, TypeOK, Event
<1>4. CASE EventIsLost
    BY <1>4, TakeType DEF EventIsLost, TypeOK, Event, firmware
<1>5. CASE loop
    BY <1>5 DEF loop, TypeOK, sdk
<1>6. CASE Joins
    BY <1>6, PostType DEF Joins, TypeOK, Event, Station, firmware
<1>7. CASE GetsAddress
    BY <1>7, PostType DEF GetsAddress, TypeOK, Event, firmware
<1>8. CASE Loses
    BY <1>8, PostType DEF Loses, TypeOK, Event, firmware
<1>9. CASE Radio
    BY <1>9 DEF Radio, TypeOK, sdk, firmware
<1> QED BY <1>1, <1>2, <1>3, <1>4, <1>5, <1>6, <1>7, <1>8, <1>9 DEF Next

-----------------------------------------------------------------------------
(* The flag.                                                               *)

LEMMA WifiInvInit ==
    Init => WifiInv
<1> SUFFICES ASSUME Init PROVE WifiInv
    OBVIOUS
<1>1. TypeOK
    <2>1. events \in Seq(Event) /\ Len(events) <= MaxEvents
        BY WifiAssumption DEF Init, Event
    <2>2. station \in Station
        BY DEF Init
    <2>3. onAir \subseteq {Own, Old}
        BY DEF Init
    <2> QED BY <2>1, <2>2, <2>3 DEF Init, TypeOK, NoNetwork, Event
<1> QED BY <1>1 DEF Init, WifiInv, StartUp, FlagCatchesUp

\* One step per action: what it does to Told and to gotIp.
LEMMA WifiInvStep ==
    ASSUME WifiInv, Next
    PROVE  WifiInv'
<1>1. TypeOK /\ StartUp /\ FlagCatchesUp
    BY DEF WifiInv
<1>2. TypeOK' /\ boot \in {"off", "init", "up"} /\ boot' \in {"off", "init", "up"}
    BY <1>1, TypeStep DEF TypeOK
<1> SUFFICES StartUp' /\ FlagCatchesUp'
    BY <1>2 DEF WifiInv
<1> USE <1>1, <1>2 DEF StartUp, FlagCatchesUp
<1>3. CASE user_init
    <2>1. boot' = "init" /\ ~connection' /\ UNCHANGED <<handler, link, gotIp, events>>
        BY <1>3 DEF user_init, sdk
    <2>2. ~Told'
        BY <1>3, <2>1 DEF user_init, Told, Telling
    <2> QED BY <1>3, <2>1, <2>2 DEF user_init
<1>4. CASE post_user_init_func
    <2>1. /\ boot' = "up" /\ handler' /\ ~gotIp'
          /\ client' = Own /\ UNCHANGED connection
        BY <1>4 DEF post_user_init_func
    <2>2. CASE link = NoNetwork
        <3>1. UNCHANGED events
            BY <1>4, <2>2 DEF post_user_init_func
        <3> QED BY <1>4, <2>1, <2>2, <3>1, SameTold DEF post_user_init_func
    <2>3. CASE link # NoNetwork
        <3>1. ~Told'
            BY <1>4, <2>1, <2>3, PostType, PostTold DEF post_user_init_func, Event
        <3> QED BY <2>1, <3>1
    <2> QED BY <2>2, <2>3
<1>5. CASE wifiEventHandler
    <2>1. Told' <=> Told
        BY <1>5, HandleTold DEF wifiEventHandler
    <2>2. boot = "up" /\ UNCHANGED <<boot, handler, client, gotIp, link>>
        BY <1>5 DEF wifiEventHandler
    <2> QED BY <2>1, <2>2
<1>6. CASE EventIsLost
    <2>1. UNCHANGED <<boot, handler, client, connection, link, gotIp>>
        BY <1>6 DEF EventIsLost, firmware
    <2>2. events # <<>> /\ ~handler /\ events' = Tail(events)
        BY <1>6 DEF EventIsLost
    <2>3. boot = "init"
        BY <2>2
    <2>4. Told' => Told
        BY <2>1, <2>2, <2>3, DropTold
    <2> QED BY <2>1, <2>3, <2>4
<1>7. CASE loop
    BY <1>7, SameTold DEF loop, sdk
<1>8. CASE Joins
    <2>1. Told' <=> Told
        BY <1>8, PostType, PostTold DEF Joins, Event, firmware
    <2> QED BY <1>8, <2>1, WifiAssumption DEF Joins, firmware, NoNetwork
<1>9. CASE GetsAddress
    <2>1. Told'
        BY <1>9, PostType, PostTold DEF GetsAddress, Event, firmware
    <2> QED BY <1>9, <2>1 DEF GetsAddress, firmware
<1>10. CASE Loses
    <2>1. ~Told'
        BY <1>10, PostType, PostTold DEF Loses, Event, firmware
    <2> QED BY <1>10, <2>1 DEF Loses, firmware
<1>11. CASE Radio
    BY <1>11, SameTold DEF Radio, sdk, firmware
<1> QED BY <1>3, <1>4, <1>5, <1>6, <1>7, <1>8, <1>9, <1>10, <1>11 DEF Next

\* The strengthened invariant in every behaviour.
LEMMA WifiAlways ==
    Spec => []WifiInv
<1>1. ASSUME WifiInv, UNCHANGED vars PROVE WifiInv'
    BY <1>1 DEF WifiInv, TypeOK, StartUp, FlagCatchesUp, Told, Telling,
       vars, firmware, sdk
<1> QED BY <1>1, WifiInvInit, WifiInvStep, PTL DEF Spec

\* Types in every behaviour: no more events are under way than MaxEvents, and
\* the station is never given a network other than those of initVariables and of
\* flash (pn532.c:27-28, wifi.c:142-172).
THEOREM TypeCorrect ==
    Spec => []TypeOK
<1>1. WifiInv => TypeOK
    BY DEF WifiInv
<1> QED BY <1>1, WifiAlways, PTL

\* wifi.connection is late but never wrong (wifi.c:67-128): for every bound on
\* the events under way, and whatever networks come and go.
THEOREM FlagNeverWrong ==
    Spec => []FlagCatchesUp
<1>1. WifiInv => FlagCatchesUp
    BY DEF WifiInv
<1> QED BY <1>1, WifiAlways, PTL
=============================================================================
