----------------------------- MODULE Ingestion -----------------------------
(***************************************************************************)
(* The way of a Zigbee2MQTT message into Core: the paho client with its    *)
(* own thread (mqtt/client.py), the collector (mqtt/collector.py), the     *)
(* normalizer (mqtt/topics.py, mqtt/normalizer.py, mqtt/payload_utils.py), *)
(* the ingestion handlers (mqtt/ingestion.py) and the writes they make     *)
(* (storage/repository.py).  The thread that starts and stops the          *)
(* collector (mqtt/lifecycle.py) runs beside the client's thread.          *)
(* A payload is reduced to what the handlers branch on; the position of a  *)
(* message in the order of arrival stands for the time it was received.    *)
(***************************************************************************)
EXTENDS Naturals, Sequences, FiniteSets, Installation

CONSTANTS
    Ieees,          \* device addresses
    Names,          \* friendly names
    Estates,        \* bound: the device rows an earlier process may have left
    Inventories,    \* bound: the device lists a bridge may publish, sets of entries
    MaxMessages,    \* bound: messages handled
    MaxDrops,       \* bound: connections lost
    MaxRaised       \* bound: handlers that raise

Online == {"online", "offline"}
Interview == {"unknown", "in_progress", "successful", "failed"}

\* A row of devices joined with its row of device_current_state
DeviceRow == [name: Names \cup Ieees, interview: Interview, availability: Online \cup {None},
              reported: BOOLEAN]

\* One entry of a bridge/devices payload; the handler falls back to the address for a name
InventoryEntry == [ieee: Ieees \cup {None}, name: Names \cup Ieees, interview: Interview]

Keys == Networks \X Ieees

ASSUME IngestionAssumption ==
    /\ None \notin Networks \cup Ieees \cup Names \cup DeviceRow \cup Online
    /\ Estates \subseteq [Keys -> DeviceRow \cup {None}]
    /\ Inventories \subseteq SUBSET InventoryEntry
    /\ MaxMessages \in Nat /\ MaxDrops \in Nat /\ MaxRaised \in Nat

\* The messages a subscription can deliver; "foreign" topics match no network
Message ==
    [kind: {"bridge_state"}, net: Networks, body: Online \cup {"unusable"}]
    \cup [kind: {"device_availability"}, net: Networks, name: Names, body: Online \cup {"unusable"}]
    \cup [kind: {"device_payload"}, net: Networks, name: Names, body: {"fields", "malformed"}]
    \cup [kind: {"bridge_devices"}, net: Networks, body: Inventories]
    \cup [kind: {"bridge_event"}, net: Networks, ieee: Ieees \cup {None}, name: Names \cup {None},
          body: {"device_joined", "device_announce", "device_leave", "interview_started",
                 "interview_failed", "interview_successful", "other"}]
    \cup [kind: {"bridge_info", "bridge_health", "bridge_logging", "ignored", "foreign"},
          net: Networks, body: {"fields", "malformed"}]

VARIABLES
    starter,    \* where the thread of start_collector / stop_collector is
    read,       \* self._client.connected as start() read it
    loop,       \* the paho thread: "off", "idle", "connecting", or the event it is ingesting
    connected,  \* PahoMqttClient._connected
    listed,     \* PahoMqttClient._subscribed is filled
    heard,      \* the broker holds the subscriptions of this connection
    status,     \* the row of collector_status
    bridge,     \* networks.bridge_state
    device,     \* devices and device_current_state, None where there is no row
    parked,     \* unresolved_device_messages, each with its position in the order of arrival
    changes,    \* availability_changes of each device
    recalc,     \* the devices the last handled event had evaluated
    newest,     \* the network of the inventory, when the newest row of events is one
    replayed,   \* history: devices that a parked message was applied to
    count, drops, raised

clientVars == <<starter, read, loop, connected, listed, heard>>
rowVars == <<bridge, device, parked, changes, replayed, newest>>
mqVars == <<clientVars, rowVars, status, recalc, count, drops, raised>>

ParkedRow ==
    [at: Nat, net: Networks, name: Names, kind: {"device_payload"}, state: {"fields"}]
    \cup [at: Nat, net: Networks, name: Names, kind: {"device_availability"}, state: Online]

MqTypeOK ==
    /\ starter \in {"new", "connected", "listed", "subscribed", "read", "running", "failed",
                    "stopping", "stopped"}
    /\ read \in BOOLEAN /\ connected \in BOOLEAN /\ listed \in BOOLEAN /\ heard \in BOOLEAN
    /\ loop \in {"off", "idle", "connecting", "ingested"}
    /\ status \in [enabled: BOOLEAN, connected: BOOLEAN, error: BOOLEAN]
    /\ bridge \in [Networks -> Online \cup {"unknown"}]
    /\ device \in [Keys -> DeviceRow \cup {None}]
    /\ parked \subseteq ParkedRow
    /\ changes \in [Keys -> Seq(Online \X Online)]
    /\ replayed \subseteq Keys /\ recalc \subseteq Keys /\ newest \in Networks \cup {None}
    /\ count \in 0..MaxMessages /\ drops \in 0..MaxDrops /\ raised \in 0..MaxRaised

MqInit ==
    /\ starter = "new" /\ read = FALSE /\ loop = "off"
    /\ connected = FALSE /\ listed = FALSE /\ heard = FALSE
    /\ status = [enabled |-> FALSE, connected |-> FALSE, error |-> FALSE]
    /\ bridge = [n \in Networks |-> "unknown"]
    /\ device \in Estates
    /\ parked = {}
    /\ changes = [k \in Keys |-> <<>>]
    /\ recalc = {} /\ replayed = {} /\ newest = None
    /\ count = 0 /\ drops = 0 /\ raised = 0

----------------------------------------------------------------------------
(* From a message to a normalized event.                                   *)

\* extract_online_state of a parsed payload, None when it names neither state
ExtractState(body) == IF body \in Online THEN body ELSE None

\* _normalize_bridge_event: the event type from the type and the status Zigbee2MQTT sent (an
\* interview says in either of them how it ended)
BridgeEventType(body) ==
    CASE body = "device_joined" -> "device_joined"
      [] body = "device_announce" -> "device_announced"
      [] body = "device_leave" -> "device_left"
      [] body = "interview_failed" -> "device_interview_failed"
      [] body = "interview_successful" -> "device_interview_success"
      [] body = "interview_started" -> "device_interview_started"
      [] body = "other" -> "unknown_bridge_event"

Event(type, m) == [type |-> type, net |-> m.net, ieee |-> None, name |-> None, body |-> m.body]

\* _normalize_bridge_state, _normalize_bridge_info, _normalize_bridge_devices
BridgeEvents(m) ==
    CASE m.kind = "bridge_state" ->
            {Event(IF ExtractState(m.body) = None THEN "parse_error" ELSE "bridge_state_seen", m)}
      [] m.kind = "bridge_info" -> {Event("bridge_info_seen", m)}
      [] m.kind = "bridge_devices" -> {Event("device_inventory_seen", m)}

\* _normalize_bridge_logging, _normalize_bridge_health
BridgeNotes(m) ==
    {Event(IF m.kind = "bridge_health" THEN "bridge_health_seen" ELSE "bridge_log_warning", m)}

\* _normalize_device_availability, _normalize_device_payload: the topic carries the name
DeviceEvents(m) ==
    LET type == IF m.kind = "device_payload" THEN "device_payload_seen"
                ELSE IF ExtractState(m.body) = None THEN "parse_error"
                ELSE "device_availability_seen"
    IN  {[Event(type, m) EXCEPT !.name = m.name]}

\* normalize_message: the events of a message (none for topics that are not ours)
Normalize(m) ==
    IF m.kind \in {"foreign", "ignored"} THEN {}
    ELSE IF m.kind \in {"device_payload", "bridge_info", "bridge_health", "bridge_logging"}
               /\ m.body = "malformed" THEN {Event("parse_error", m)}
    ELSE IF m.kind = "bridge_event" THEN
               {[Event(BridgeEventType(m.body), m) EXCEPT !.name = m.name, !.ieee = m.ieee]}
    ELSE IF m.kind \in {"device_payload", "device_availability"} THEN DeviceEvents(m)
    ELSE IF m.kind \in {"bridge_state", "bridge_devices", "bridge_info"} THEN BridgeEvents(m)
    ELSE BridgeNotes(m)

----------------------------------------------------------------------------
(* The handlers.  Each is an operator from the tables and an event to the  *)
(* tables after it; the event's type may be rewritten on the way.          *)

Tables == [bridge |-> bridge, device |-> device, parked |-> parked, changes |-> changes,
           replayed |-> replayed]

\* get_devices_by_friendly_name_in_network
Matches(dev, n, name) == {i \in Ieees : dev[<<n, i>>] # None /\ dev[<<n, i>>].name = name}

Mut_Upsert(dev, k, name, interview) ==
    [dev EXCEPT ![k] = [name |-> name, interview |-> interview, availability |-> None,
                        reported |-> FALSE]]

\* upsert_device, followed by ensure_device_current_state
Upsert(dev, k, name, interview) ==
    [dev EXCEPT ![k] =
        IF @ = None
        THEN [name |-> name, interview |-> interview, availability |-> None, reported |-> FALSE]
        ELSE [@ EXCEPT !.name = name, !.interview = interview]]

\* reconcile_unresolved: a parked message of the network whose name has become unique is applied,
\* as of now and without a change record, the availability messages of a device in the order of
\* arrival; the others stay parked.  Replaying changes no name, so what a name matches is fixed.
ReconcileUnresolved(t, n) ==
    LET resolves == {p \in t.parked : p.net = n /\ Cardinality(Matches(t.device, n, p.name)) = 1}
        Of(k) == {p \in resolves : k[1] = n /\ k[2] \in Matches(t.device, n, p.name)}
        States(k) == {p \in Of(k) : p.kind = "device_availability"}
        Last(k) == CHOOSE p \in States(k) : \A q \in States(k) : q.at <= p.at
    IN  [t EXCEPT
            !.parked = @ \ resolves,
            !.device = [k \in Keys |->
                IF Of(k) = {} THEN t.device[k]
                ELSE [t.device[k] EXCEPT
                        !.reported = @ \/ Of(k) # States(k),
                        !.availability = IF States(k) = {} THEN @ ELSE Last(k).state]],
            !.replayed = @ \cup {k \in Keys : Of(k) # {}}]

\* The entries of an inventory that have an address, one by one (a bridge lists an address once)
UpsertAll(dev, n, entries) ==
    [k \in Keys |->
        IF k[1] = n /\ \E x \in entries : x.ieee = k[2]
        THEN LET x == CHOOSE x \in entries : x.ieee = k[2]
             IN  Upsert(dev, k, x.name, x.interview)[k]
        ELSE dev[k]]

Mut_HandleInventory(t, e) ==
    LET replay == ReconcileUnresolved(t, e.net)
    IN  [t |-> [replay EXCEPT !.device = UpsertAll(@, e.net, e.body)], type |-> e.type, ieee |-> None]

\* _handle_device_inventory: upsert every entry that has an address, then replay
HandleInventory(t, e) ==
    [t |-> ReconcileUnresolved([t EXCEPT !.device = UpsertAll(@, e.net, e.body)], e.net),
     type |-> e.type, ieee |-> None]

Park(t, e, kind) ==
    t.parked \cup {[at |-> count, net |-> e.net, name |-> e.name, kind |-> kind, state |-> e.body]}

\* _handle_device_payload
HandlePayload(t, e) ==
    LET m == Matches(t.device, e.net, e.name)
        i == CHOOSE i \in m : TRUE
    IN  CASE m = {} -> [t |-> [t EXCEPT !.parked = Park(t, e, "device_payload")],
                        type |-> "unresolved_device_payload", ieee |-> None]
          [] Cardinality(m) > 1 -> [t |-> t, type |-> "ambiguous_friendly_name", ieee |-> None]
          [] OTHER -> [t |-> [t EXCEPT !.device[<<e.net, i>>].reported = TRUE],
                       type |-> e.type, ieee |-> i]

\* _handle_device_availability: the change record is written only when there was a state before
HandleAvailability(t, e) ==
    LET m == Matches(t.device, e.net, e.name)
        i == CHOOSE i \in m : TRUE
        k == <<e.net, i>>
        previous == t.device[k].availability
        changed == previous # None /\ previous # e.body
    IN  CASE m = {} -> [t |-> [t EXCEPT !.parked = Park(t, e, "device_availability")],
                        type |-> "unresolved_device_availability", ieee |-> None]
          [] Cardinality(m) > 1 -> [t |-> t, type |-> "ambiguous_friendly_name", ieee |-> None]
          [] OTHER -> [t |-> [t EXCEPT !.device[k].availability = e.body,
                                       !.changes[k] = IF changed THEN Append(@, <<previous, e.body>>) ELSE @],
                       type |-> IF changed THEN "device_availability_changed" ELSE e.type, ieee |-> i]

InterviewBy(type) ==
    CASE type = "device_interview_started" -> "in_progress"
      [] type = "device_interview_success" -> "successful"
      [] type = "device_interview_failed" -> "failed"
      [] OTHER -> "unknown"

\* _handle_bridge_device_event: creates or renames a device, never replays
HandleBridgeDeviceEvent(t, e) ==
    LET k == <<e.net, e.ieee>>
        old == t.device[k]
        isInterview == InterviewBy(e.type) # "unknown"
        name == IF e.name # None THEN e.name ELSE IF old # None THEN old.name ELSE e.ieee
        interview == IF old # None /\ ~isInterview THEN old.interview ELSE InterviewBy(e.type)
    IN  [t |-> IF e.ieee = None THEN t ELSE [t EXCEPT !.device = Upsert(@, k, name, interview)],
         type |-> e.type, ieee |-> e.ieee]

\* _handle_bridge_state
HandleBridgeState(t, e) ==
    LET previous == t.bridge[e.net]
    IN  [t |-> [t EXCEPT !.bridge[e.net] = e.body],
         type |-> IF previous \notin {"unknown", e.body} THEN "bridge_state_changed" ELSE e.type,
         ieee |-> None]

BridgeDeviceEvents == {"device_joined", "device_announced", "device_left", "device_interview_started",
                       "device_interview_success", "device_interview_failed", "unknown_bridge_event"}

\* ingest: the handler table.  Info, health, log, parse error and unknown topics only add
\* snapshot and event rows, which no decision of this module reads
Handle(t, e) ==
    CASE e.type = "bridge_state_seen" -> HandleBridgeState(t, e)
      [] e.type = "device_inventory_seen" -> HandleInventory(t, e)
      [] e.type = "device_payload_seen" -> HandlePayload(t, e)
      [] e.type = "device_availability_seen" -> HandleAvailability(t, e)
      [] e.type \in BridgeDeviceEvents -> HandleBridgeDeviceEvent(t, e)
      [] OTHER -> [t |-> t, type |-> e.type, ieee |-> None]

Mut_RecalcScope(type, n, ieee) ==
    CASE type \in {"bridge_state_seen", "bridge_state_changed", "device_inventory_seen",
                   "device_joined", "device_announced", "device_left"} -> {<<n, i>> : i \in Ieees}
      [] ieee # None /\ type \in {"device_payload_seen", "device_availability_seen"} -> {<<n, ieee>>}
      [] OTHER -> {}

\* _recalc_health_for_event, by the type the handler left: the devices whose health is evaluated
RecalcScope(type, n, ieee) ==
    CASE type \in {"bridge_state_seen", "bridge_state_changed", "device_inventory_seen",
                   "device_joined", "device_announced", "device_left"} -> {<<n, i>> : i \in Ieees}
      [] type = "unknown_bridge_event" /\ ieee # None -> {<<n, i>> : i \in Ieees}
      [] ieee # None /\ type \in {"device_payload_seen", "device_availability_seen",
                                  "device_availability_changed", "device_interview_started",
                                  "device_interview_success", "device_interview_failed"} -> {<<n, ieee>>}
      [] OTHER -> {}

----------------------------------------------------------------------------
(* The paho thread.                                                        *)

SetTables(t) ==
    /\ bridge' = t.bridge /\ device' = t.device /\ parked' = t.parked
    /\ changes' = t.changes /\ replayed' = t.replayed

\* MqttCollector._handle_message up to the evaluation: one transaction per event
HandleMessage(m) ==
    /\ loop = "idle" /\ connected /\ heard /\ count < MaxMessages
    /\ count' = count + 1
    /\ loop' = "ingested"
    /\ LET events == Normalize(m) IN
       IF events = {}
       THEN recalc' = {} /\ UNCHANGED rowVars
       ELSE LET e == CHOOSE e \in events : TRUE
                h == Handle(Tables, e)
            IN  /\ SetTables(h.t)
                /\ newest' = IF h.type = "device_inventory_seen" THEN e.net ELSE None
                /\ recalc' = RecalcScope(h.type, e.net, h.ieee)
    /\ UNCHANGED <<starter, read, connected, listed, heard, status, drops, raised>>

\* The transaction raises: it is rolled back and the client swallows the exception, so that
\* neither the evaluation nor the status row follows
HandlerRaises ==
    /\ loop = "idle" /\ connected /\ heard /\ count < MaxMessages /\ raised < MaxRaised
    /\ count' = count + 1 /\ raised' = raised + 1
    /\ recalc' = {}
    /\ UNCHANGED <<clientVars, rowVars, status, drops>>

\* The end of _handle_message: update_collector_status, whatever the message was
MessageDone ==
    /\ loop = "ingested"
    /\ loop' = "idle"
    /\ status' = [enabled |-> TRUE, connected |-> connected, error |-> FALSE]
    /\ UNCHANGED <<starter, read, connected, listed, heard, rowVars, recalc, count, drops, raised>>

\* _on_connect, first half: the flag, under the lock (the broker starts a clean session)
OnConnectFlag ==
    /\ loop = "idle" /\ ~connected
    /\ connected' = TRUE /\ heard' = FALSE /\ loop' = "connecting"
    /\ UNCHANGED <<starter, read, listed, status, rowVars, recalc, count, drops, raised>>

\* _on_connect, second half: subscribe to what is listed by now
OnConnectSubscribe ==
    /\ loop = "connecting"
    /\ heard' = (heard \/ listed)
    /\ loop' = "idle"
    /\ UNCHANGED <<starter, read, connected, listed, status, rowVars, recalc, count, drops, raised>>

\* _on_disconnect: only the client object learns of it
OnDisconnect ==
    /\ loop = "idle" /\ connected /\ drops < MaxDrops
    /\ drops' = drops + 1
    /\ connected' = FALSE /\ heard' = FALSE
    /\ UNCHANGED <<starter, read, loop, listed, status, rowVars, recalc, count, raised>>

----------------------------------------------------------------------------
(* The thread that starts and stops the collector.                         *)

\* PahoMqttClient.connect: the socket and the thread
Connect ==
    /\ starter = "new"
    /\ starter' = "connected" /\ loop' = "idle"
    /\ UNCHANGED <<read, connected, listed, heard, status, rowVars, recalc, count, drops, raised>>

\* The broker cannot be reached: MqttCollector.start writes the error, start_collector goes on
ConnectFails ==
    /\ starter = "new"
    /\ starter' = "failed"
    /\ status' = [enabled |-> TRUE, connected |-> FALSE, error |-> TRUE]
    /\ UNCHANGED <<read, loop, connected, listed, heard, rowVars, recalc, count, drops, raised>>

\* PahoMqttClient.subscribe, first half: the list, under the lock
SubscribeList ==
    /\ starter = "connected"
    /\ starter' = "listed" /\ listed' = TRUE
    /\ UNCHANGED <<read, loop, connected, heard, status, rowVars, recalc, count, drops, raised>>

Mut_SubscribeNow ==
    /\ starter = "listed"
    /\ starter' = "subscribed"
    /\ UNCHANGED <<read, loop, connected, listed, heard, status, rowVars, recalc, count, drops, raised>>

\* PahoMqttClient.subscribe, second half: ask the broker if there is a connection
SubscribeNow ==
    /\ starter = "listed"
    /\ starter' = "subscribed"
    /\ heard' = (heard \/ connected)
    /\ UNCHANGED <<read, loop, connected, listed, status, rowVars, recalc, count, drops, raised>>

\* MqttCollector.start reads the flag and then writes the row; a message may come between
StartReads ==
    /\ starter = "subscribed"
    /\ starter' = "read" /\ read' = connected
    /\ UNCHANGED <<loop, connected, listed, heard, status, rowVars, recalc, count, drops, raised>>

StartWrites ==
    /\ starter = "read"
    /\ starter' = "running"
    /\ status' = [enabled |-> TRUE, connected |-> read, error |-> FALSE]
    /\ UNCHANGED <<read, loop, connected, listed, heard, rowVars, recalc, count, drops, raised>>

\* Something after connect() raises, a subscribe call or the write of the row: the client's
\* thread goes on with the list it has.  Writing the error may raise as well.
StartRaises ==
    /\ starter \in {"listed", "read"} /\ starter' = "failed"
    /\ status' \in {status, [enabled |-> TRUE, connected |-> FALSE, error |-> TRUE]}
    /\ UNCHANGED <<read, loop, connected, listed, heard, rowVars, recalc, count, drops, raised>>

Mut_StopLoop ==
    /\ starter \in {"running", "failed"}
    /\ starter' = "stopping"
    /\ UNCHANGED <<read, loop, connected, listed, heard, status, rowVars, recalc, count, drops, raised>>

\* PahoMqttClient.disconnect: loop_stop joins the thread, which ends between two callbacks
StopLoop ==
    /\ starter \in {"running", "failed"} /\ loop \in {"idle", "off"}
    /\ starter' = "stopping" /\ loop' = "off"
    /\ connected' = FALSE /\ heard' = FALSE
    /\ UNCHANGED <<read, listed, status, rowVars, recalc, count, drops, raised>>

\* MqttCollector.stop, finally: the row
StopWrites ==
    /\ starter = "stopping"
    /\ starter' = "stopped"
    /\ status' = [enabled |-> FALSE, connected |-> FALSE, error |-> FALSE]
    /\ UNCHANGED <<read, loop, connected, listed, heard, rowVars, recalc, count, drops, raised>>

----------------------------------------------------------------------------

MqttThread ==
    \/ \E m \in Message : HandleMessage(m)
    \/ HandlerRaises \/ MessageDone
    \/ OnConnectFlag \/ OnConnectSubscribe \/ OnDisconnect

StarterThread ==
    \/ Connect \/ ConnectFails \/ SubscribeList \/ SubscribeNow
    \/ StartReads \/ StartWrites \/ StartRaises \/ StopLoop \/ StopWrites

MqNext == MqttThread \/ StarterThread

MqSpec == MqInit /\ [][MqNext]_mqVars

----------------------------------------------------------------------------
(* Properties.                                                             *)

\* No deaf connection.  The paho thread sets the flag and then reads the list, start() fills
\* the list and then reads the flag: whichever comes first, a connection that both have
\* finished with is subscribed, also after a reconnect into a clean session.
NoDeafConnection ==
    (connected /\ loop # "connecting" /\ starter \in {"subscribed", "read", "running"}) => heard

\* Whatever a message changes about a device is evaluated in the same handling: a change of the
\* rows health is computed from never waits for the periodic evaluation.
ChangesAreEvaluated ==
    [][\A k \in Keys : (device'[k] # device[k] \/ bridge'[k[1]] # bridge[k[1]]) => k \in recalc']_mqVars

\* Once an inventory has been handled no message of that network stays parked whose name has
\* become unique; one that matches no device or several waits for the next inventory.
InventoryReplays ==
    \A p \in parked : p.net = newest => Cardinality(Matches(device, newest, p.name)) # 1

\* The change records of a device that no parked message was replayed to form a chain that ends
\* in the state its row shows.
HistoryConnects ==
    \A k \in Keys \ replayed :
        LET c == changes[k] IN
        /\ \A j \in 1..Len(c) : c[j][1] # c[j][2]
        /\ \A j \in 1..(Len(c) - 1) : c[j][2] = c[j + 1][1]
        /\ c # <<>> => device[k].availability = c[Len(c)][2]

\* After stop() the status row says disabled for good: no late message or callback revives it.
StopIsLastWord == [][starter = "stopped" => UNCHANGED <<status, connected, device, bridge>>]_mqVars
=============================================================================
