------------------------------ MODULE MCProcess ------------------------------
EXTENDS Process

Bytes(n) == [digits |-> n, unit |-> 1]
Kilobytes(n) == [digits |-> n, unit |-> 2]
Megabytes(n) == [digits |-> n, unit |-> 3]

Plain ==
    [clientAddr |-> "other", clientPort |-> 6379, adminAddr |-> "loopback", adminPort |-> 8080,
     adminToken |-> NoToken, auth |-> FALSE, authToken |-> NoToken,
     maxConnections |-> 2, idleTimeout |-> 3, maxPipeline |-> 2,
     maxOutput |-> Bytes(0), maxRequest |-> Bytes(0), maxMemory |-> Bytes(0), maxValue |-> Megabytes(1),
     shardCount |-> 0, checkInterval |-> 2, batchSize |-> 2, lazy |-> TRUE, active |-> TRUE,
     policy |-> "lru", sampleSize |-> 5, level |-> "info", format |-> "json",
     tls |-> FALSE, certFile |-> "blank", keyFile |-> "blank"]

Sizes == {Bytes(n) : n \in {0, 1, 8, 30, 31}} \cup {Megabytes(1), Megabytes(16), Kilobytes(64), Malformed}

MCCandidates ==
         {[Plain EXCEPT !.maxRequest = r, !.maxValue = v] : r, v \in Sizes}
    \cup {[Plain EXCEPT !.maxOutput = o, !.maxMemory = m] : o, m \in Sizes}
    \cup {[Plain EXCEPT !.lazy = l, !.active = a, !.policy = p] :
             l, a \in BOOLEAN, p \in Policies \cup {"", "unknown"}}
    \cup {[Plain EXCEPT !.adminAddr = a, !.adminPort = p, !.adminToken = s, !.authToken = t, !.auth = e] :
             a \in {"loopback", "localhost", "other", "blank"}, p \in {6379, 8080},
             s, t \in {NoToken, "secret", "token"}, e \in BOOLEAN}
    \cup {[Plain EXCEPT !.tls = TRUE, !.certFile = f, !.keyFile = "key.pem"] : f \in {"blank", "cert.pem"}}
=============================================================================
