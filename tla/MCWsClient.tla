----------------------------- MODULE MCWsClient -----------------------------
EXTENDS WsClient

Conf(script, sep, auto, closeRec, patient, pings) ==
  [script |-> script, sep |-> sep, auto |-> auto, closeRec |-> closeRec,
   patient |-> patient, pings |-> pings]

\* Each caller in its own configuration; the lock for sending and the
\* variants of reconnecting for those that close and those that share.
MCConfs ==
  {Conf("example", FALSE, TRUE, rec, TRUE, TRUE) : rec \in BOOLEAN}
    \union {Conf("example", TRUE, TRUE, FALSE, TRUE, TRUE),
            Conf("example", FALSE, FALSE, TRUE, FALSE, TRUE),
            Conf("linux", FALSE, TRUE, FALSE, TRUE, TRUE)}
    \union {Conf("device", sep, TRUE, FALSE, TRUE, FALSE) : sep \in BOOLEAN}
    \union {Conf("testee", FALSE, auto, FALSE, TRUE, TRUE) : auto \in BOOLEAN}
=============================================================================
