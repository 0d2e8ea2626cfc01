--------------------------- MODULE SocketOptions ---------------------------
(***************************************************************************)
(* The overloads of socket::set and socket::get (zmqpp/socket.cpp:386-882) *)
(* for every version of libzmq the preprocessor tells apart: which options *)
(* each of them takes, which overload set(int) hands an option on to, and  *)
(* as what type the value gets to zmq_setsockopt or zmq_getsockopt.        *)
(* Versions are 10 * major + minor.                                        *)
(***************************************************************************)
EXTENDS Integers, FiniteSets

Versions == {20, 30, 31, 32, 33, 40, 41, 42, 43}

When(condition, options) == IF condition THEN options ELSE {}

(* Options that came with version 2 only, or with a later version *)
Buffers2 == {"high_water_mark", "send_buffer_size", "receive_buffer_size"}
Rates2 == {"rate", "recovery_interval", "recovery_interval_seconds", "swap_size"}
Sizes3 == {"send_buffer_size", "receive_buffer_size", "rate", "recovery_interval",
           "send_high_water_mark", "receive_high_water_mark", "multicast_hops"}
Keepalive == {"tcp_keepalive_idle", "tcp_keepalive_count", "tcp_keepalive_interval"}
Vmci == {"vmci_buffer_size", "vmci_buffer_min", "vmci_buffer_max"}
Curve == {"curve_public_key", "curve_secret_key", "curve_server_key"}
Plain == {"plain_password", "plain_username"}
Flags4 == {"ipv6", "plain_server", "conflate", "curve_server", "probe_router",
           "request_correlate", "request_relaxed", "router_raw"}
Flags42 == {"gssapi_plaintext", "gssapi_server", "invert_matching", "stream_notify",
            "xpub_manual", "xpub_nodrop"}
Timeouts == {"linger", "receive_timeout", "send_timeout"}
Ints42 == {"connect_timeout", "multicast_max_tpdu", "tpc_max_retransmit", "use_fd",
           "vmci_connect_timeout"}
Heartbeat == {"heartbeat_interval", "heartbeat_timeout", "heartbeat_ttl"}
GetOnly == {"type", "file_descriptor", "events", "receive_more", "last_endpoint", "mechanism"}

(* Options of the enumeration that no overload takes *)
Untaken == {"handshake_interval", "type_of_service", "connect_rid", "ipc_filter_gid",
            "ipc_filter_pid", "ipc_filter_uid"}

Immediate(v) ==
  When(v = 32, {"delay_attach_on_connect"}) \cup When(v > 32, {"immediate"})

(* Those that have a type of their own, or came one by one *)
Others ==
  {"affinity", "max_messsage_size", "multicast_loopback", "ipv4_only", "backlog",
   "reconnect_interval", "reconnect_interval_max", "router_mandatory",
   "router_handover", "xpub_verbose", "xpub_verboser", "tcp_keepalive", "identity",
   "subscribe", "unsubscribe", "tcp_accept_filter", "zap_domain", "socks_proxy",
   "gssapi_principal", "gssapi_service_principal", "xpub_welcome_message"}

Options ==
  Buffers2 \cup Rates2 \cup Sizes3 \cup Keepalive \cup Vmci \cup Curve \cup Plain
    \cup Flags4 \cup Flags42 \cup Timeouts \cup Ints42 \cup Heartbeat \cup GetOnly
    \cup Untaken \cup Others
    \cup UNION {Immediate(v) : v \in Versions}

-----------------------------------------------------------------------------
(* set: the type the value has when it gets to libzmq, or "throws" *)

SetUnsigned(o, v) ==
  IF o \in {"affinity"} \cup When(v = 20, Buffers2) \cup When(v >= 42, Vmci)
  THEN "uint64" ELSE "throws"

SetInt64(o, n, v) ==
  IF o \in (IF v = 20 THEN Rates2 ELSE {"max_messsage_size"}) /\ n >= 0
  THEN "int64" ELSE "throws"

SetBool(o, v) ==
  IF o \in When(v = 20, {"multicast_loopback"}) \cup When(v >= 31, {"ipv4_only"})
             \cup When(v >= 32, {"router_mandatory", "xpub_verbose"}) \cup Immediate(v)
             \cup When(v >= 40, Flags4) \cup When(v >= 41, {"router_handover"})
             \cup When(v >= 42, Flags42 \cup {"xpub_verboser"})
  THEN "int" ELSE "throws"

SetString(o, v) ==
  IF o \in {"identity", "subscribe", "unsubscribe"} \cup When(v >= 32, {"tcp_accept_filter"})
             \cup When(v >= 40, Plain \cup Curve \cup {"zap_domain"})
             \cup When(v >= 42, {"gssapi_principal", "gssapi_service_principal",
                                 "socks_proxy", "xpub_welcome_message"})
  THEN "string" ELSE "throws"

(* The case labels of set(int) *)
IntAsUnsigned(v) == {"affinity"} \cup When(v = 20, Buffers2) \cup When(v >= 42, Vmci)
IntAsInt64(v) == IF v = 20 THEN Rates2 ELSE {"max_messsage_size"}

IntAsBool(v) ==
  When(v = 20, {"multicast_loopback"}) \cup When(v >= 31, {"ipv4_only"})
    \cup When(v >= 32, {"router_mandatory", "xpub_verbose"}) \cup Immediate(v)
    \cup When(v >= 40, Flags4) \cup When(v >= 41, {"router_handover"})
    \cup When(v >= 42, Flags42 \cup {"xpub_verboser"})

PositiveInts(v) == {"backlog", "reconnect_interval_max"} \cup When(v > 20, Sizes3)

Ints(v) ==
  Timeouts \cup {"reconnect_interval"} \cup When(v >= 32, Keepalive)
    \cup When(v >= 42, Ints42 \cup Heartbeat)

(* The sizes of version 3 taken as 64 bit integers, as in version 2 *)
SetIntOldSizes(o, n, v) ==
  CASE o \in IntAsUnsigned(v) \cup Sizes3 -> IF n < 0 THEN "throws" ELSE "uint64"
    [] o \in IntAsInt64(v) -> SetInt64(o, n, v)
    [] o \in IntAsBool(v) -> SetBool(o, v)
    [] OTHER -> IF o \in PositiveInts(v) \cup Ints(v) THEN "int" ELSE "throws"

SetInt(o, n, v) ==
  CASE o \in IntAsUnsigned(v) -> IF n < 0 THEN "throws" ELSE SetUnsigned(o, v)
    [] o \in IntAsInt64(v) -> SetInt64(o, n, v)
    [] o \in IntAsBool(v) -> IF n \in {0, 1} THEN SetBool(o, v) ELSE "throws"
    [] o = "tcp_keepalive" /\ v >= 32 -> IF n \in -1..1 THEN "int" ELSE "throws"
    [] o \in PositiveInts(v) -> IF n < 0 THEN "throws" ELSE "int"
    [] o \in Ints(v) -> "int"
    [] OTHER -> "throws"

-----------------------------------------------------------------------------
(* get: the type zmq_getsockopt is asked for, or "throws" *)

GetUnsigned(o, v) == SetUnsigned(o, v)

GetInt64(o, v) ==
  IF o \in (IF v = 20 THEN Rates2 \cup {"receive_more", "multicast_loopback"}
            ELSE {"max_messsage_size"})
  THEN "int64" ELSE "throws"

GetInt(o, v) ==
  CASE v = 20 /\ o \in {"receive_more", "multicast_loopback"} -> GetInt64(o, v)
    [] o \in Timeouts \cup {"type", "backlog", "reconnect_interval", "file_descriptor",
                            "reconnect_interval_max", "events"}
               \cup When(v > 20, Sizes3 \cup {"receive_more"})
               \cup When(v >= 31, {"ipv4_only"}) \cup Immediate(v)
               \cup When(v >= 32, Keepalive \cup {"tcp_keepalive"})
               \cup When(v >= 40, {"ipv6", "plain_server", "mechanism"})
               \cup When(v >= 42, Flags42 \cup Ints42) -> "int"
    [] OTHER -> "throws"

GetBool(o, v) ==
  IF o \in {"receive_more"} \cup When(v = 20, {"multicast_loopback"})
             \cup When(v >= 31, {"ipv4_only"}) \cup Immediate(v)
             \cup When(v >= 40, {"ipv6", "plain_server"})
             \cup When(v >= 42, Flags42 \cup {"xpub_verboser"})
  THEN IF v = 20 THEN "int64" ELSE "int"
  ELSE "throws"

GetString(o, v) ==
  IF o \in {"identity"} \cup When(v >= 32, {"last_endpoint"})
             \cup When(v >= 40, Plain \cup Curve \cup {"zap_domain"})
             \cup When(v >= 42, {"gssapi_principal", "gssapi_service_principal", "socks_proxy"})
  THEN "string" ELSE "throws"

-----------------------------------------------------------------------------
(* The types an option has in the calls that take it *)
TypesOf(o, v) ==
  ({SetUnsigned(o, v), SetBool(o, v), SetString(o, v), GetUnsigned(o, v), GetInt(o, v),
    GetInt64(o, v), GetBool(o, v), GetString(o, v)}
   \cup {SetInt(o, n, v) : n \in -2..2} \cup {SetInt64(o, n, v) : n \in -2..2}) \ {"throws"}

(* Options that have two types, or that set(int) hands on to an overload that
   refuses them *)
Misread(v) == {o \in Options : Cardinality(TypesOf(o, v)) > 1}

Refused(v) ==
  {o \in IntAsUnsigned(v) \cup IntAsInt64(v) \cup IntAsBool(v) : SetInt(o, 1, v) = "throws"}

(* Versions in which the tables disagree.  Version 2 reads multicast_loopback
   as a 64 bit integer and writes it as an int (socket.cpp:526, 557, 738, 807). *)
Disagreeing ==
  {v \in Versions : Refused(v) # {} \/ Misread(v) # When(v = 20, {"multicast_loopback"})}
=============================================================================
