-------------------------- MODULE MCHaIntegration --------------------------
EXTENDS HaIntegration

Dev(i, s, n, e) == [id |-> i, sources |-> s, name |-> n, area |-> None, entities |-> e]
Ent(i) == {[id |-> i, area |-> "hall"]}
\* A lamp; a second entry for the same address; a sensor that shares the lamp's entity; one
\* with an unreadable address; one that is no Zigbee device
Lamp == Dev("d1", {"a"}, "x", Ent(1) \cup Ent(2))
Twin == Dev("d2", {"a", Bad}, "y", {})
Sensor == Dev("d3", {"b"}, "z", Ent(1))
Broken == Dev("d4", {Bad}, "x", {})
Wifi == Dev("d5", {}, "x", {})
MCRegistries == {{Lamp, Wifi}, {Lamp, Sensor, Broken, Twin}, Unavailable}
R(n, i, x) == [net |-> n, ieee |-> i, name |-> x]
\* One network; two networks that both know the lamp
MCInventories == {{R("n1", "a", "x")}, {R("n1", "a", "x"), R("n2", "a", "y"), R("n1", "b", "z")}}
Good == [version |-> "compatible", capabilities |-> "accepted", decision |-> "supported_exact",
         payload |-> "valid", enrichment |-> "supported", collector |-> "up", networks |-> "active",
         mock |-> FALSE]
Budget(c, r) == [changes |-> c, refreshes |-> r]
\* Registries that leave a snapshot, return to it and leave it again; a change beside a
\* refresh or a reload; two of those
MCBudgets == {Budget(3, 0), Budget(1, 1), Budget(0, 2)}
MCReplies == {Good, [Good EXCEPT !.capabilities = "unavailable", !.payload = "malformed",
                                 !.collector = "down"]}
=============================================================================
