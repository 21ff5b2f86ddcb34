------------------------------ MODULE WsMemory ------------------------------
(***************************************************************************)
(* What esp_websocket_client allocates and frees, as operators on the set  *)
(* of names of the live allocations.  A configuration is the set of fields *)
(* the caller filled in; "uri_path" and "uri_user" say that the URI has a  *)
(* path or a user:password part.  An allocation sequence runs to its end   *)
(* or until one allocation fails, so an outcome is the length of the       *)
(* prefix that succeeded.                                                  *)
(***************************************************************************)
EXTENDS Naturals, SequencesExt

\* esp_websocket_client_config_t, the fields that are copied.
ConfigFields == {"host", "uri", "uri_path", "uri_user", "path", "scheme",
  "username", "password", "subprotocol", "user_agent", "headers", "if_name"}

\* websocket_config_storage_t, the strings it owns.  cfg->host holds the
\* host of the URI ("uri_host") until set_config writes config->host over it.
Strings == {"host", "uri_host", "uri", "path", "scheme", "username",
            "password", "auth", "subprotocol", "user_agent", "headers"}

\* Mutant: destroy_config forgets the Authorization header.
MutDestroyConfig(heap) ==
  heap \ ((Strings \ {"auth"}) \union {"config"})

\* esp_websocket_client_destroy_config.
DestroyConfig(heap) ==
  LET lost == IF "host" \in heap THEN {"uri_host"} ELSE {}
  IN  heap \ ((Strings \ lost) \union {"config"})

\* destroy_and_free_resources.  The list owns the transports added to it.
DestroyAndFree(heap) ==
  DestroyConfig(heap) \ {"client", "loop", "if_name", "lock", "tx_lock",
    "transport_list", "tcp", "ws", "rx", "tx", "status_bits"}

OnlyIf(cond, steps) == IF cond THEN steps ELSE <<>>
Given(name, conf)   == OnlyIf(name \in conf, <<name>>)

\* esp_websocket_client_set_uri.  "user_info" is the copy of user:password
\* that is freed after its two parts are stored.
SetUri(conf) ==
  <<"scheme", "uri_host">>
    \o OnlyIf("uri_path" \in conf, <<"path">>)
    \o OnlyIf("uri_user" \in conf, <<"user_info", "password", "username">>)

\* http_auth_basic: the digest, of both names.  The names may come from the
\* URI as well as from the configuration.
AuthBasic(conf) ==
  OnlyIf(\/ {"username", "password"} \subseteq conf
         \/ {"uri", "uri_user"} \subseteq conf, <<"auth">>)

\* esp_websocket_client_set_config.
SetConfig(conf) ==
  Given("host", conf) \o Given("username", conf) \o Given("password", conf)
    \o AuthBasic(conf) \o Given("uri", conf) \o Given("path", conf)
    \o Given("subprotocol", conf) \o Given("user_agent", conf)
    \o Given("headers", conf)

\* esp_websocket_client_init, in the order of its allocations.
InitSteps(conf, separateTx) ==
  <<"client", "loop">> \o Given("if_name", conf) \o <<"lock">>
    \o OnlyIf(separateTx, <<"tx_lock">>) \o <<"config">>
    \o Given("scheme", conf)
    \o OnlyIf("uri" \in conf, SetUri(conf))
    \o SetConfig(conf)
    \o OnlyIf({"scheme", "uri"} \intersect conf = {}, <<"scheme">>)
    \o <<"rx", "tx", "status_bits">>

\* Of the first k steps, what is allocated: the copy of user:password is
\* freed once "username", the step after "password", is stored.
Allocated(conf, separateTx, k) ==
  LET steps == InitSteps(conf, separateTx)
      done  == 1 .. k
      stored(i) == steps[i] = "user_info" /\ i + 2 <= k
  IN  {steps[i] : i \in {j \in done : ~stored(j)}}

\* A successful init, and one whose step k + 1 fails and which destroys what
\* it has built.
AfterInit(conf, separateTx) ==
  Allocated(conf, separateTx, Len(InitSteps(conf, separateTx)))
AfterFailedInit(conf, separateTx, k) ==
  DestroyAndFree(Allocated(conf, separateTx, k))

\* esp_websocket_client_create_transport, for ws and for wss: the old list
\* is destroyed; a failure leaves the new one to the next start or destroy.
TransportSteps == <<"transport_list", "tcp", "ws">>
CreateTransport(heap, k) ==
  (heap \ ToSet(TransportSteps)) \union ToSet(SubSeq(TransportSteps, 1, k))
=============================================================================
