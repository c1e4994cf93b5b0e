--------------------------- MODULE MCClientServer ---------------------------
(***************************************************************************)
(* Configurations of a client and a server: every mode, codecs that only   *)
(* one side has, that both have and can use, and that both have but have   *)
(* no use of in common, and no codecs at all.  Messages are laid out as    *)
(* RtmpMessage says.                                                       *)
(***************************************************************************)
EXTENDS ClientServer, RtmpMessage

MCEncoded(m) == EncodeMessage(m, Order)
MCParsed(chunk) == FromChunk(chunk)

MCKey == {<<"live", "cam">>}
MCSession == {Me, Other}

NoCaps == Capabilities({}, NoCodecs, NoCodecs)

ClientCaps ==
    Capabilities({"MODEX"}, [avc1 |-> {"CAN_DECODE"}, hvc1 |-> {"CAN_DECODE"}],
                 [Opus |-> {"CAN_ENCODE", "CAN_DECODE"}])

ServerCaps ==
    Capabilities({"MODEX", "RECONNECT"},
                 [avc1 |-> {"CAN_FORWARD"}, hvc1 |-> {"CAN_DECODE", "CAN_FORWARD"}],
                 [Opus |-> {"CAN_DECODE"}, mp4a |-> {"CAN_DECODE"}])

Configuration(role, client_mode, client_caps, server_mode, server_caps) ==
    [role |-> role, client_mode |-> client_mode, client_caps |-> client_caps,
     server_mode |-> server_mode, server_caps |-> server_caps]

(* Every pair of modes, and every pair of capabilities.                    *)
MCConfigurations ==
    {Configuration(role, client_mode, ClientCaps, server_mode, ServerCaps) :
        role \in {"puller", "publisher"}, client_mode \in Modes, server_mode \in Modes}
    \cup {Configuration(role, "Auto", client_caps, "EnhancedOnly", server_caps) :
        role \in {"puller", "publisher"}, client_caps \in {NoCaps, ClientCaps},
        server_caps \in {NoCaps, ServerCaps}}
=============================================================================
