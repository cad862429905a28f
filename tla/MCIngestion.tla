---------------------------- MODULE MCIngestion ----------------------------
EXTENDS Ingestion
CONSTANTS n1, a, b, lamp, plug

MCNetworks == {n1}
MCIeees == {a, b}
MCNames == {lamp, plug}
Entry(i, n) == [ieee |-> i, name |-> n, interview |-> "successful"]
\* A first device, a second one with the same name, the second renamed, one without address
MCInventories == {{Entry(a, lamp)}, {Entry(a, lamp), Entry(b, lamp)}, {Entry(a, plug), Entry(None, lamp)}}
\* A new database, and one in which the first device has been seen online
Known == [name |-> lamp, interview |-> "successful", availability |-> "online", reported |-> TRUE]
MCEstates == {[k \in Keys |-> None], [k \in Keys |-> IF k = <<n1, a>> THEN Known ELSE None]}
=============================================================================
