----------------------------- MODULE AppServices -----------------------------
(***************************************************************************)
(* How a change of the stored facts reaches the people who watch: the      *)
(* application context wires the collector, the evaluation and storage     *)
(* threads and the API to the dashboard scheduler, which publishes to the  *)
(* browsers' event queues (mqtt/events.py, the event stream of main.py)    *)
(* and asks the MQTT discovery service for an update                       *)
(* (mqtt_discovery/service.py, publisher.py).  The context is brought up   *)
(* thread by thread and closed in a fixed order (app/context.py).          *)
(*                                                                         *)
(* Data: the facts are a version number, a dashboard is the version it was *)
(* built from, an event that is no dashboard is 0.  The dashboard          *)
(* scheduler appears by its promise (DashboardScheduler.tla): one          *)
(* publication at a time, and a request during one leads to another.       *)
(***************************************************************************)
EXTENDS Integers, Sequences

CONSTANTS Browsers, NoValue,
          MaxVersion,   \* bound on changes of the facts
          QueueSize,    \* _MAX_SSE_QUEUE_SIZE
          MaxDrops,     \* bound on lost connections to the broker
          MaxCalls      \* bound on callbacks waiting in the event loop

ASSUME ServicesAssumption == QueueSize \in Nat \ {0} /\ NoValue \notin Browsers \cup Nat

VARIABLES version,   \* the stored facts
          phase,     \* how far bootstrap() or close() is
          dash,      \* the dashboard scheduler: [at, built, again]
          queues,    \* the queue of each subscribed browser
          calls,     \* _put callbacks waiting in the event loop, by their queue
          screen,    \* what each browser shows: NoValue before the stream opens
          due,       \* history: the last dashboard published to a subscribed
                     \* browser, and how many events were published after it
          svc,       \* the discovery service
          link,      \* connection of the discovery publisher to the broker
          broker,    \* what the broker retains: [avail, states]
          asked      \* history: version at the last update the service took on
svVars == <<version, phase, dash, queues, calls, screen, due, svc, link, broker, asked>>

\* bootstrap() from the collector on, then the serving application, then the
\* statements of close().
Phases == <<"collector", "discovery", "threads", "serving",
            "stop_storage", "stop_collector", "stop_evaluation", "cancel_dashboard",
            "stop_discovery", "drain_discovery", "offline", "closed">>
At(p) == CHOOSE i \in DOMAIN Phases : Phases[i] = p
Between(p, q) == At(phase) >= At(p) /\ At(phase) < At(q)

\* Who runs in which phase.
Running == {s \in {"collector", "evaluation", "storage", "api"} :
              \/ s = "collector" /\ Between("discovery", "stop_collector")
              \/ s = "evaluation" /\ Between("serving", "stop_evaluation")
              \/ s = "storage" /\ Between("serving", "stop_storage")
              \/ s = "api" /\ phase = "serving"}

CollectorConnected == Between("discovery", "stop_collector")

----------------------------------------------------------------------------
(* The event broadcaster. *)

Subscribed == DOMAIN queues

\* _put of publish_sync, run later by the event loop.
Mut_Put(q, item) == IF Len(q) < QueueSize THEN Append(q, item) ELSE q
Put(q, item) == IF Len(q) < QueueSize THEN Append(q, item) ELSE Append(Tail(q), item)

\* publish_sync: one callback per queue that exists now; before set_loop,
\* which the lifespan calls once bootstrap() is done, nobody is subscribed.
\* The loop runs the callbacks of one queue in the order they were asked for;
\* those of different queues touch nothing in common.
PublishSync(item) ==
    calls' = [b \in Browsers |-> IF b \in Subscribed THEN Append(calls[b], item) ELSE calls[b]]

RoomForCalls == \A b \in Subscribed : Len(calls[b]) < MaxCalls

\* History of what was published to whom; newer counts up to QueueSize.
Noted(item) ==
    due' = [b \in Browsers |->
               IF b \notin Subscribed THEN due[b]
               ELSE IF item # 0 THEN [v |-> item, newer |-> 0]
               ELSE [due[b] EXCEPT !.newer = IF @ < QueueSize THEN @ + 1 ELSE @]]

\* Every message the collector handles ends in a collector_status event, which
\* asks for no dashboard.
CollectorStatus == /\ "collector" \in Running /\ RoomForCalls
                   /\ PublishSync(0) /\ Noted(0)
                   /\ UNCHANGED <<version, phase, dash, queues, screen, svc, link, broker, asked>>

RunCallback(b) == /\ b \in Subscribed /\ calls[b] # <<>>
                  /\ queues' = [queues EXCEPT ![b] = Put(@, Head(calls[b]))]
                  /\ calls' = [calls EXCEPT ![b] = Tail(@)]
                  /\ UNCHANGED <<version, phase, dash, screen, due, svc, link, broker, asked>>

\* _events_stream: the first dashboard is read and sent, and only then does
\* the generator enter subscribe().
OpenStream(b) == /\ phase = "serving" /\ screen[b] = NoValue
                 /\ screen' = [screen EXCEPT ![b] = version]
                 /\ UNCHANGED <<version, phase, dash, queues, calls, due, svc, link, broker, asked>>

Subscribe(b) == /\ phase = "serving" /\ screen[b] # NoValue /\ b \notin Subscribed
                /\ queues' = [x \in Subscribed \cup {b} |-> IF x = b THEN <<>> ELSE queues[x]]
                /\ UNCHANGED <<version, phase, dash, calls, screen, due, svc, link, broker, asked>>

\* The stream task takes one item and sends it; only a dashboard redraws.
Receive(b) == /\ b \in Subscribed /\ queues[b] # <<>>
              /\ queues' = [queues EXCEPT ![b] = Tail(@)]
              /\ screen' = [screen EXCEPT ![b] = IF Head(queues[b]) = 0 THEN @
                                                 ELSE Head(queues[b])]
              /\ UNCHANGED <<version, phase, dash, calls, due, svc, link, broker, asked>>

\* The browser goes away: the finally of subscribe() removes its queue,
\* and the callbacks that still wait put their items where nobody reads.
Leave(b) == /\ b \in Subscribed
            /\ queues' = [x \in Subscribed \ {b} |-> queues[x]]
            /\ screen' = [screen EXCEPT ![b] = NoValue]
            /\ due' = [due EXCEPT ![b] = [v |-> 0, newer |-> 0]]
            /\ calls' = [calls EXCEPT ![b] = <<>>]
            /\ UNCHANGED <<version, phase, dash, svc, link, broker, asked>>

----------------------------------------------------------------------------
(* A change of the facts, and the dashboard that follows it. *)

\* DashboardPublishScheduler.schedule
Schedule == dash' = IF dash.at = "idle" THEN [dash EXCEPT !.at = "timer"]
                    ELSE [dash EXCEPT !.again = dash.at # "timer"]

\* notify_committed_mutation, _schedule_dashboard and their callers: after the
\* commit the event is broadcast, then the dashboard is requested.
notify_committed_mutation(src) ==
    /\ src \in Running /\ version < MaxVersion /\ RoomForCalls
    /\ version' = version + 1
    /\ PublishSync(0) /\ Noted(0)
    /\ Schedule
    /\ UNCHANGED <<phase, queues, screen, svc, link, broker, asked>>

BuildDashboard == /\ dash.at = "timer"
                  /\ dash' = [dash EXCEPT !.at = "built", !.built = version]
                  /\ UNCHANGED <<version, phase, queues, calls, screen, due, svc, link, broker, asked>>

PublishDashboard == /\ dash.at = "built"
                    /\ dash' = [dash EXCEPT !.at = "told"]
                    /\ PublishSync(dash.built) /\ Noted(dash.built)
                    /\ UNCHANGED <<version, phase, queues, screen, svc, link, broker, asked>>

\* MqttDiscoveryService.schedule_update
schedule_update(s) ==
    IF s.stopped THEN s
    ELSE [s EXCEPT !.pending = TRUE, !.timer = @ \/ ~s.publishing]

\* The end of a dashboard publication; ctx.discovery is NoValue until
\* start_discovery() has returned.
HandToDiscovery ==
    /\ dash.at = "told"
    /\ dash' = [dash EXCEPT !.at = IF dash.again THEN "timer" ELSE "idle", !.again = FALSE]
    /\ IF Between("threads", "closed")
       THEN /\ svc' = schedule_update(svc)
            /\ asked' = IF svc.stopped THEN asked ELSE dash.built
       ELSE UNCHANGED <<svc, asked>>
    /\ UNCHANGED <<version, phase, queues, calls, screen, due, link, broker>>

----------------------------------------------------------------------------
(* The discovery service. *)

\* build_summary_entities: without a collector the counts are "unknown".
Unknown == 0
SummaryStates(v, connected) == IF connected THEN v ELSE Unknown

\* A publication that the broker takes; one that it does not take raises.
Publish(states) == IF link THEN broker' = [broker EXCEPT !.states = states]
                   ELSE UNCHANGED broker

\* _run_debounced_update up to the unlock.
RunDebouncedUpdate ==
    /\ svc.timer
    /\ svc' = IF svc.stopped \/ ~svc.pending \/ svc.publishing
              THEN [svc EXCEPT !.timer = FALSE]
              ELSE [svc EXCEPT !.timer = FALSE, !.pending = FALSE, !.publishing = TRUE]
    /\ UNCHANGED <<version, phase, dash, queues, calls, screen, due, link, broker, asked>>

\* _publish_all reads the dashboard ...
ReadForDiscovery ==
    /\ svc.publishing /\ svc.read = NoValue
    /\ svc' = [svc EXCEPT !.read = SummaryStates(version, CollectorConnected)]
    /\ UNCHANGED <<version, phase, dash, queues, calls, screen, due, link, broker, asked>>

\* ... publishes it, and the finally of _run_debounced_update arms the timer
\* again when an update was asked for in the meantime.
EndPublish ==
    /\ svc.publishing /\ svc.read # NoValue
    /\ Publish(svc.read)
    /\ svc' = [svc EXCEPT !.publishing = FALSE, !.read = NoValue, !.failed = ~link,
                          !.timer = @ \/ (svc.pending /\ ~svc.stopped)]
    /\ UNCHANGED <<version, phase, dash, queues, calls, screen, due, link, asked>>

\* The connection drops: the broker publishes the last will.  The client
\* reconnects by itself, and no callback announces "online" again.
LoseLink == /\ link /\ svc.drops < MaxDrops
            /\ link' = FALSE /\ svc' = [svc EXCEPT !.drops = @ + 1]
            /\ broker' = [broker EXCEPT !.avail = "offline"]
            /\ UNCHANGED <<version, phase, dash, queues, calls, screen, due, asked>>

Reconnect == /\ ~link /\ Between("threads", "closed") /\ link' = TRUE
             /\ UNCHANGED <<version, phase, dash, queues, calls, screen, due, svc, broker, asked>>

----------------------------------------------------------------------------
(* bootstrap() and close(). *)

GoOn == phase' = Phases[At(phase) + 1]

StartCollector == /\ phase = "collector" /\ GoOn
                  /\ UNCHANGED <<version, dash, queues, calls, screen, due, svc, link, broker, asked>>

\* MqttDiscoveryService.start: connect, tombstones, "online", then everything.
\* A broker that cannot be reached leaves the service in place, unconnected.
StartConnect ==
    /\ phase = "discovery" /\ svc.read = NoValue /\ ~svc.failed
    /\ \E up \in BOOLEAN :
          /\ link' = up
          /\ broker' = IF up THEN [broker EXCEPT !.avail = "online"] ELSE broker
          /\ svc' = IF up THEN [svc EXCEPT !.read = SummaryStates(version, CollectorConnected)]
                    ELSE [svc EXCEPT !.failed = TRUE]
    /\ UNCHANGED <<version, phase, dash, queues, calls, screen, due, asked>>

StartPublish ==
    /\ phase = "discovery" /\ (svc.read # NoValue \/ svc.failed) /\ GoOn
    /\ IF svc.read # NoValue THEN Publish(svc.read) ELSE UNCHANGED broker
    /\ svc' = [svc EXCEPT !.read = NoValue, !.failed = ~link]
    /\ UNCHANGED <<version, dash, queues, calls, screen, due, link, asked>>

\* start_topology, the evaluation and storage threads, then set_loop.
StartThreads == /\ phase = "threads" /\ GoOn
                /\ UNCHANGED <<version, dash, queues, calls, screen, due, svc, link, broker, asked>>

\* The server shuts down once its requests are answered; the context closes.
Shutdown == /\ phase \in {"serving", "stop_storage"} /\ GoOn
            /\ UNCHANGED <<version, dash, queues, calls, screen, due, svc, link, broker, asked>>

\* stop_collector broadcasts collector_disconnected; the next statement stops
\* the evaluation thread and waits for it.
StopCollector == /\ phase = "stop_collector" /\ GoOn /\ PublishSync(0) /\ Noted(0)
                 /\ UNCHANGED <<version, dash, queues, screen, svc, link, broker, asked>>

StopEvaluation == /\ phase = "stop_evaluation" /\ GoOn
                  /\ UNCHANGED <<version, dash, queues, calls, screen, due, svc, link, broker, asked>>

\* DashboardPublishScheduler.cancel(wait=True)
CancelDashboard ==
    /\ phase = "cancel_dashboard"
    /\ IF dash.at \in {"idle", "timer"}
       THEN GoOn /\ dash' = [dash EXCEPT !.at = "idle", !.again = FALSE]
       ELSE dash.again /\ dash' = [dash EXCEPT !.again = FALSE] /\ UNCHANGED phase
    /\ UNCHANGED <<version, queues, calls, screen, due, svc, link, broker, asked>>

\* MqttDiscoveryService.stop: no more updates, wait for the one that runs,
\* "offline", disconnect.
StopDiscovery ==
    /\ phase = "stop_discovery" /\ GoOn
    /\ svc' = [svc EXCEPT !.stopped = TRUE, !.pending = FALSE, !.timer = FALSE]
    /\ UNCHANGED <<version, dash, queues, calls, screen, due, link, broker, asked>>

Mut_DrainDiscovery ==
    /\ phase = "drain_discovery" /\ GoOn
    /\ UNCHANGED <<version, dash, queues, calls, screen, due, svc, link, broker, asked>>

DrainDiscovery ==
    /\ phase = "drain_discovery" /\ ~svc.publishing /\ GoOn
    /\ UNCHANGED <<version, dash, queues, calls, screen, due, svc, link, broker, asked>>

PublishOffline ==
    /\ phase = "offline" /\ GoOn
    /\ broker' = IF link THEN [broker EXCEPT !.avail = "offline"] ELSE broker
    /\ link' = FALSE
    /\ UNCHANGED <<version, dash, queues, calls, screen, due, svc, asked>>

----------------------------------------------------------------------------
SvInit ==
    /\ version = 1 /\ phase = "collector"
    /\ dash = [at |-> "idle", built |-> 0, again |-> FALSE]
    /\ queues = <<>> /\ calls = [b \in Browsers |-> <<>>]
    /\ screen = [b \in Browsers |-> NoValue] /\ due = [b \in Browsers |-> [v |-> 0, newer |-> 0]]
    /\ svc = [pending |-> FALSE, timer |-> FALSE, publishing |-> FALSE, read |-> NoValue,
              stopped |-> FALSE, failed |-> FALSE, drops |-> 0]
    /\ link = FALSE /\ asked = 0
    /\ broker = [avail |-> "offline", states |-> NoValue]

SvNext ==
    \/ CollectorStatus
    \/ \E b \in Browsers : RunCallback(b) \/ OpenStream(b) \/ Subscribe(b) \/ Receive(b) \/ Leave(b)
    \/ \E src \in {"collector", "evaluation", "storage", "api"} : notify_committed_mutation(src)
    \/ BuildDashboard \/ PublishDashboard \/ HandToDiscovery
    \/ RunDebouncedUpdate \/ ReadForDiscovery \/ EndPublish
    \/ LoseLink \/ Reconnect
    \/ StartCollector \/ StartConnect \/ StartPublish \/ StartThreads
    \/ Shutdown \/ StopCollector \/ StopEvaluation \/ CancelDashboard
    \/ StopDiscovery \/ DrainDiscovery \/ PublishOffline

----------------------------------------------------------------------------
(* Properties *)

AtRest == /\ dash.at = "idle" /\ ~svc.timer /\ ~svc.publishing
          /\ \A b \in Subscribed : calls[b] = <<>>

\* Once everything has come to rest, every watcher has the newest dashboard
\* that was published to it: a browser can have lost it only when a queue full
\* of later events pushed it out, and the broker retains the states of the
\* last update the discovery service took on, although updates were asked for
\* while one was being published, unless the broker refused it or the
\* collector was gone.
LastWordArrives ==
    AtRest => /\ \A b \in Subscribed : queues[b] = <<>> /\ due[b].newer < QueueSize
                                             => screen[b] >= due[b].v
              /\ ~svc.failed /\ ~svc.stopped /\ broker.states \notin {NoValue, Unknown}
                    => broker.states >= asked

\* close() leaves nothing behind that still works with what it closed: when it
\* is done no dashboard or discovery publication is armed or running, and the
\* last thing the broker heard is "offline".
ClosedIsQuiet ==
    phase = "closed" => /\ dash.at = "idle" /\ ~svc.timer /\ ~svc.publishing
                        /\ broker.avail = "offline"
=============================================================================
