-------------------------- MODULE ClientServerProofs --------------------------
(***************************************************************************)
(* The safety invariants of ClientServer, for all values of its constants, *)
(* and that its server is MediaServer's.                                   *)
(*                                                                         *)
(* Their inductive invariant says what can be on its way, in either        *)
(* direction, at each stage of the conversation, and what the session and  *)
(* the registry have done by then.  The stages are told by what the client *)
(* knows: before Connected, before it has a message stream, and with one,  *)
(* to play or to publish.                                                  *)
(***************************************************************************)
EXTENDS ClientServer, SequenceTheorems, TLAPS

----------------------------------------------------------------------------
(* What connect tells, and what is read of it.                             *)

(* An option opened: what it holds, or the default.                        *)
LEMMA OrFacts ==
    /\ \A x, d : Or({x}, d) = x
    /\ \A d : Or(None, d) = d
<1>1. ASSUME NEW x, NEW d PROVE Or({x}, d) = x
  <2>1. (CHOOSE y \in {x} : TRUE) \in {x}
    OBVIOUS
  <2> QED BY <2>1, Zenon DEF Or, None
<1>2. ASSUME NEW d PROVE Or(None, d) = d
  BY DEF Or
<1> QED
  BY <1>1, <1>2

(* A function on nothing is the empty sequence.                            *)
LEMMA EmptyFunction ==
    ASSUME NEW f, f = [x \in DOMAIN f |-> f[x]], DOMAIN f = {}
    PROVE  f = << >>
<1>1. << >> = [x \in DOMAIN << >> |-> << >>[x]] /\ DOMAIN << >> = {}
  OBVIOUS
<1>2. QED
  BY <1>1

(* Reading a property of an object, or undefined.                          *)
LEMMA GetFacts ==
    ASSUME NEW object, NEW key
    PROVE  Get(Object(object), key) = IF key \in DOMAIN object THEN object[key] ELSE Undefined
<1>1. AsObject(Object(object)) = {object}
  BY DEF AsObject, Object, Kind
<1> QED
  BY <1>1, OrFacts DEF Get

(* A map of codecs that is not empty is read as it was written.            *)
LEMMA CodecMapRead ==
    ASSUME NEW codecs, DOMAIN codecs # {}, codecs = [c \in DOMAIN codecs |-> codecs[c]]
    PROVE  ParseFourCcInfoMap(CodecMap(codecs)) = {codecs}
<1> DEFINE map == [c \in DOMAIN codecs |-> Number(codecs[c])]
<1>1. Or(AsObject(CodecMap(codecs)), NoProperties) = map
  <2>1. AsObject(Object(map)) = {map}
    BY DEF AsObject, Object, Kind
  <2> QED
    BY <2>1, OrFacts DEF CodecMap
<1>2. \A c \in DOMAIN codecs : AsNumber(map[c]) = {codecs[c]}
  BY DEF AsNumber, Number, Kind
<1>3. {k \in DOMAIN map : AsNumber(map[k]) # None} = DOMAIN codecs
  BY <1>2 DEF None
<1> HIDE DEF map
<1>4. [k \in DOMAIN codecs |-> Or(AsNumber(map[k]), {})] = codecs
  <2>1. \A c \in DOMAIN codecs : Or(AsNumber(map[c]), {}) = codecs[c]
    BY <1>2, OrFacts
  <2> QED
    BY <2>1
<1> QED
  BY <1>1, <1>3, <1>4, Zenon DEF ParseFourCcInfoMap

(* Nothing is read from a property that is not there.                      *)
LEMMA NothingRead ==
    /\ ParseFourCcInfoMap(Undefined) = None
    /\ ParseFourCcList(Undefined) = None
    /\ AsNumber(Undefined) = None
<1>1. AsObject(Undefined) = None /\ AsArray(Undefined) = None /\ AsNumber(Undefined) = None
  BY DEF AsObject, AsArray, AsNumber, Undefined, Kind
<1>2. Or(AsObject(Undefined), NoProperties) = << >>
  BY <1>1, OrFacts DEF NoProperties
<1>3. DOMAIN << >> = {}
  OBVIOUS
<1>4. {k \in DOMAIN << >> : AsNumber(<< >>[k]) # None} = {}
  BY <1>3
<1>5. ParseFourCcInfoMap(Undefined) = None
  BY <1>2, <1>4, Zenon DEF ParseFourCcInfoMap
<1>6. UNION {AsStr(v) : v \in UNION {Range(a) : a \in {}}} = {}
  OBVIOUS
<1>7. ParseFourCcList(Undefined) = None
  BY <1>1, <1>6, Zenon DEF ParseFourCcList, None
<1> QED
  BY <1>1, <1>5, <1>7

(* What the object of capabilities tells, key by key.                      *)
LEMMA WithMapsGet ==
    ASSUME NEW object, NEW caps,
           "videoFourCcInfoMap" \notin DOMAIN object,
           "audioFourCcInfoMap" \notin DOMAIN object
    PROVE  LET told == Object(WithMaps(object, caps))
           IN  /\ Get(told, "capsEx") = Number(caps.caps_ex)
               /\ Get(told, "videoFourCcInfoMap") =
                     IF DOMAIN caps.video_codecs = {} THEN Undefined
                     ELSE CodecMap(caps.video_codecs)
               /\ Get(told, "audioFourCcInfoMap") =
                     IF DOMAIN caps.audio_codecs = {} THEN Undefined
                     ELSE CodecMap(caps.audio_codecs)
               /\ Get(told, "fourCcList") = Get(Object(object), "fourCcList")
               /\ Get(told, "app") = Get(Object(object), "app")
<1> DEFINE ex == Put(object, "capsEx", Number(caps.caps_ex))
           seen == Put(ex, "videoFourCcInfoMap", CodecMap(caps.video_codecs))
           video == IF DOMAIN caps.video_codecs = {} THEN ex ELSE seen
           heard == Put(video, "audioFourCcInfoMap", CodecMap(caps.audio_codecs))
           all == IF DOMAIN caps.audio_codecs = {} THEN video ELSE heard
<1>1. WithMaps(object, caps) = all
  BY DEF WithMaps
<1>2. /\ DOMAIN ex = DOMAIN object \cup {"capsEx"}
      /\ ex["capsEx"] = Number(caps.caps_ex)
      /\ \A k \in DOMAIN object \ {"capsEx"} : ex[k] = object[k]
  BY DEF Put
<1> HIDE DEF ex
<1>3. /\ DOMAIN seen = DOMAIN ex \cup {"videoFourCcInfoMap"}
      /\ seen["videoFourCcInfoMap"] = CodecMap(caps.video_codecs)
      /\ \A k \in DOMAIN ex \ {"videoFourCcInfoMap"} : seen[k] = ex[k]
  BY DEF Put
<1> HIDE DEF seen
<1>4. /\ DOMAIN caps.video_codecs = {} => video = ex
      /\ DOMAIN caps.video_codecs # {} => video = seen
  OBVIOUS
<1> HIDE DEF video
<1>11. /\ DOMAIN heard = DOMAIN video \cup {"audioFourCcInfoMap"}
      /\ heard["audioFourCcInfoMap"] = CodecMap(caps.audio_codecs)
      /\ \A k \in DOMAIN video \ {"audioFourCcInfoMap"} : heard[k] = video[k]
  BY DEF Put
<1> HIDE DEF heard
<1>12. /\ DOMAIN caps.audio_codecs = {} => all = video
       /\ DOMAIN caps.audio_codecs # {} => all = heard
  OBVIOUS
<1> HIDE DEF all
<1>5. \A key : Get(Object(all), key) = IF key \in DOMAIN all THEN all[key] ELSE Undefined
  BY GetFacts
<1>6. \A key : Get(Object(object), key) = IF key \in DOMAIN object THEN object[key] ELSE Undefined
  BY GetFacts
<1>7. Get(Object(all), "capsEx") = Number(caps.caps_ex)
  BY <1>2, <1>3, <1>4, <1>11, <1>12, <1>5
<1>8. Get(Object(all), "videoFourCcInfoMap") =
          IF DOMAIN caps.video_codecs = {} THEN Undefined ELSE CodecMap(caps.video_codecs)
  BY <1>2, <1>3, <1>4, <1>11, <1>12, <1>5
<1>9. Get(Object(all), "audioFourCcInfoMap") =
          IF DOMAIN caps.audio_codecs = {} THEN Undefined ELSE CodecMap(caps.audio_codecs)
  BY <1>2, <1>3, <1>4, <1>11, <1>12, <1>5
<1>10. /\ Get(Object(all), "fourCcList") = Get(Object(object), "fourCcList")
       /\ Get(Object(all), "app") = Get(Object(object), "app")
  BY <1>2, <1>3, <1>4, <1>11, <1>12, <1>5, <1>6
<1> QED
  BY <1>1, <1>7, <1>8, <1>9, <1>10

(* What either side makes of the other's object is what was put in it.     *)
LEMMA CapabilitiesRead ==
    ASSUME NEW object, NEW caps, IsCapabilities(caps),
           "videoFourCcInfoMap" \notin DOMAIN object,
           "audioFourCcInfoMap" \notin DOMAIN object,
           "fourCcList" \in DOMAIN object =>
               DOMAIN caps.video_codecs \cup DOMAIN caps.audio_codecs # {}
    PROVE  LET params == ConnectParams(Object(WithMaps(object, caps)))
           IN  HasEnhancedRtmp(params) /\ ToEnhancedCapabilities(params) = caps
<1> DEFINE told == Object(WithMaps(object, caps))
           params == ConnectParams(told)
           Map(codecs) == IF DOMAIN codecs = {} THEN None ELSE {codecs}
<1>1. PICK knownVideo \in SUBSET VideoFourCc, knownAudio \in SUBSET AudioFourCc :
          /\ caps = Capabilities(caps.caps_ex, caps.video_codecs, caps.audio_codecs)
          /\ caps.video_codecs \in [knownVideo -> SUBSET FourCcFlags]
          /\ caps.audio_codecs \in [knownAudio -> SUBSET FourCcFlags]
  BY DEF IsCapabilities, IsCodecs
<1>2. params.caps_ex = {caps.caps_ex}
  BY WithMapsGet DEF ConnectParams, AsNumber, Number, Kind
<1>3. params.video_map = Map(caps.video_codecs)
  <2>1. params.video_map = ParseFourCcInfoMap(Get(told, "videoFourCcInfoMap"))
    BY DEF ConnectParams
  <2> QED
    BY <1>1, <2>1, WithMapsGet, NothingRead, CodecMapRead
<1>4. params.audio_map = Map(caps.audio_codecs)
  <2>1. params.audio_map = ParseFourCcInfoMap(Get(told, "audioFourCcInfoMap"))
    BY DEF ConnectParams
  <2> QED
    BY <1>1, <2>1, WithMapsGet, NothingRead, CodecMapRead
<1>5. DOMAIN caps.video_codecs \cup DOMAIN caps.audio_codecs = {} => params.fourcc_list = None
  <2>1. params.fourcc_list = ParseFourCcList(Get(Object(object), "fourCcList"))
    BY WithMapsGet DEF ConnectParams
  <2> QED
    BY <2>1, GetFacts, NothingRead
<1> HIDE DEF params
<1>6. HasEnhancedRtmp(params)
  BY <1>2 DEF HasEnhancedRtmp, None
<1>7. ASSUME NEW codecs, NEW known, NEW names \in SUBSET known,
             codecs \in [names -> SUBSET FourCcFlags],
             DOMAIN codecs = {} /\ params.video_map = None /\ params.audio_map = None
                 => params.fourcc_list = None
      PROVE  Declared(params, Map(codecs), known) = codecs
  <2>1. CASE DOMAIN codecs = {}
    <3>1. Map(codecs) = None /\ codecs = << >>
      BY <1>7, <2>1, EmptyFunction
    <3>2. [c \in known \cap Or(None, {}) |-> FourCcFlags] = codecs
      <4>1. known \cap Or(None, {}) = {}
        BY OrFacts DEF None
      <4> QED
        BY <1>7, <2>1, <4>1
    <3> QED
      BY <1>7, <2>1, <3>1, <3>2 DEF Declared, NoCodecs
  <2>2. CASE DOMAIN codecs # {}
    <3>1. Map(codecs) = {codecs} /\ Map(codecs) # None /\ Or(Map(codecs), NoCodecs) = codecs
      BY <2>2, OrFacts DEF None
    <3>2. known \cap DOMAIN codecs = DOMAIN codecs
      BY <1>7
    <3>3. [c \in DOMAIN codecs |-> codecs[c]] = codecs
      BY <1>7
    <3> QED
      BY <3>1, <3>2, <3>3 DEF Declared
  <2> QED
    BY <2>1, <2>2
<1>8. Declared(params, params.video_map, VideoFourCc) = caps.video_codecs
  BY <1>1, <1>3, <1>4, <1>5, <1>7 DEF None
<1>9. Declared(params, params.audio_map, AudioFourCc) = caps.audio_codecs
  BY <1>1, <1>3, <1>4, <1>5, <1>7 DEF None
<1>10. ToEnhancedCapabilities(params) = caps
  BY <1>1, <1>2, <1>6, <1>8, <1>9, OrFacts DEF ToEnhancedCapabilities
<1> QED
  BY <1>6, <1>10 DEF params

(* What the server reads from the connect request of a configuration, and  *)
(* what it agrees to.                                                      *)
Params(c) == ConnectParams(ConnectObject(c))
Deal(c) == Negotiated(c, Params(c))

(* Without the properties of Enhanced RTMP there is none.                  *)
LEMMA LegacyRead ==
    ASSUME NEW object,
           {"capsEx", "videoFourCcInfoMap", "audioFourCcInfoMap", "fourCcList"}
               \cap DOMAIN object = {}
    PROVE  ~HasEnhancedRtmp(ConnectParams(Object(object)))
<1>1. /\ Get(Object(object), "capsEx") = Undefined
      /\ Get(Object(object), "videoFourCcInfoMap") = Undefined
      /\ Get(Object(object), "audioFourCcInfoMap") = Undefined
      /\ Get(Object(object), "fourCcList") = Undefined
  BY GetFacts
<1> QED
  BY <1>1, NothingRead DEF HasEnhancedRtmp, ConnectParams

(* What the server makes of the client's connect.                          *)
LEMMA ConnectRead ==
    ASSUME NEW c \in Configurations
    PROVE  /\ Params(c).app = App
           /\ c.client_mode = "LegacyOnly" => ~HasEnhancedRtmp(Params(c))
           /\ c.client_mode # "LegacyOnly" =>
                 /\ HasEnhancedRtmp(Params(c))
                 /\ ToEnhancedCapabilities(Params(c)) = c.client_caps
<1> DEFINE object == [app |-> String(App)]
           caps == c.client_caps
           listed == IF caps.video_codecs = NoCodecs /\ caps.audio_codecs = NoCodecs THEN object
                     ELSE Put(object, "fourCcList", FourCcList(caps))
<1>1. Get(Object(object), "app") = String(App)
  BY GetFacts
<1>2. /\ DOMAIN listed \subseteq {"app", "fourCcList"}
      /\ "app" \in DOMAIN listed /\ listed["app"] = String(App)
      /\ "fourCcList" \in DOMAIN listed =>
            ~(caps.video_codecs = NoCodecs /\ caps.audio_codecs = NoCodecs)
  <2>1. /\ DOMAIN Put(object, "fourCcList", FourCcList(caps)) = {"app", "fourCcList"}
        /\ Put(object, "fourCcList", FourCcList(caps))["app"] = String(App)
    BY DEF Put
  <2> QED
    BY <2>1
<1>3. IsCapabilities(caps)
  BY ClientServerAssumption
<1>4. "fourCcList" \in DOMAIN listed =>
          DOMAIN caps.video_codecs \cup DOMAIN caps.audio_codecs # {}
  BY <1>2, <1>3, EmptyFunction DEF IsCapabilities, IsCodecs, NoCodecs
<1> HIDE DEF listed
<1>5. Get(Object(WithMaps(listed, caps)), "app") = String(App)
  BY <1>2, WithMapsGet, GetFacts
<1>8. ASSUME NEW told, Get(told, "app") = String(App)
      PROVE  ConnectParams(told).app = App
  <2>1. AsStr(String(App)) = {App}
    BY DEF AsStr, String, Kind
  <2>2. Or({App}, "") = App
    BY OrFacts
  <2> QED
    BY <1>8, <2>1, <2>2 DEF ConnectParams
<1>6. CASE c.client_mode = "LegacyOnly"
  <2>1. ConnectObject(c) = Object(object)
    BY <1>6 DEF ConnectObject
  <2>2. ~HasEnhancedRtmp(Params(c))
    BY <2>1, LegacyRead DEF Params
  <2>3. Params(c).app = App
    BY <1>1, <1>8, <2>1 DEF Params
  <2> QED
    BY <1>6, <2>2, <2>3
<1>7. CASE c.client_mode # "LegacyOnly"
  <2>1. ConnectObject(c) = Object(WithMaps(listed, caps))
    BY <1>7 DEF ConnectObject, AddErtmpFields, listed
  <2>2. HasEnhancedRtmp(Params(c)) /\ ToEnhancedCapabilities(Params(c)) = caps
    BY <1>2, <1>3, <1>4, <2>1, CapabilitiesRead DEF Params
  <2>3. Params(c).app = App
    BY <1>5, <1>8, <2>1 DEF Params
  <2> QED
    BY <1>7, <2>2, <2>3
<1> QED
  BY <1>6, <1>7

(* The codecs both sides have are codecs, and intersecting again changes   *)
(* nothing.                                                                *)
LEMMA CommonFacts ==
    ASSUME NEW all, NEW f, NEW g, IsCodecs(f, all), IsCodecs(g, all)
    PROVE  /\ IsCodecs(CommonCodecs(f, g), all)
           /\ CommonCodecs(g, CommonCodecs(f, g)) = CommonCodecs(f, g)
<1> DEFINE both == {d \in DOMAIN f \cap DOMAIN g : f[d] \cap g[d] # {}}
           common == [d \in both |-> f[d] \cap g[d]]
<1>1. CommonCodecs(f, g) = common
  BY DEF CommonCodecs
<1>2. IsCodecs(common, all)
  <2>1. both \in SUBSET all /\ common \in [both -> SUBSET FourCcFlags]
    BY DEF IsCodecs
  <2> QED
    BY <2>1 DEF IsCodecs
<1>3. {d \in DOMAIN g \cap DOMAIN common : g[d] \cap common[d] # {}} = both
  OBVIOUS
<1>4. \A d \in both : g[d] \cap common[d] = common[d]
  OBVIOUS
<1>5. CommonCodecs(g, common) = common
  BY <1>3, <1>4 DEF CommonCodecs
<1> QED
  BY <1>1, <1>2, <1>5

(* What two sides have in common: capabilities again, and the same when    *)
(* one of them is asked twice.                                             *)
LEMMA IntersectFacts ==
    ASSUME NEW ours, NEW theirs, IsCapabilities(ours), IsCapabilities(theirs)
    PROVE  LET common == Intersect(ours, theirs)
           IN  /\ common.enabled /\ IsCapabilities(common)
               /\ Intersect(theirs, common) = common
<1> DEFINE common == Intersect(ours, theirs)
<1>1. ours.enabled /\ theirs.enabled
  BY DEF IsCapabilities, Capabilities
<1>2. common = Capabilities(ours.caps_ex \cap theirs.caps_ex,
                            CommonCodecs(ours.video_codecs, theirs.video_codecs),
                            CommonCodecs(ours.audio_codecs, theirs.audio_codecs))
  BY <1>1 DEF Intersect
<1>3. /\ common.enabled
      /\ common.caps_ex = ours.caps_ex \cap theirs.caps_ex
      /\ common.video_codecs = CommonCodecs(ours.video_codecs, theirs.video_codecs)
      /\ common.audio_codecs = CommonCodecs(ours.audio_codecs, theirs.audio_codecs)
  BY <1>2 DEF Capabilities
<1> HIDE DEF common
<1>10. /\ IsCodecs(common.video_codecs, VideoFourCc)
       /\ CommonCodecs(theirs.video_codecs, common.video_codecs) = common.video_codecs
  BY <1>3, CommonFacts DEF IsCapabilities
<1>11. /\ IsCodecs(common.audio_codecs, AudioFourCc)
       /\ CommonCodecs(theirs.audio_codecs, common.audio_codecs) = common.audio_codecs
  BY <1>3, CommonFacts DEF IsCapabilities
<1>5. IsCapabilities(common)
  BY <1>2, <1>3, <1>10, <1>11 DEF IsCapabilities
<1>7. theirs.caps_ex \cap common.caps_ex = common.caps_ex
  BY <1>3
<1>8. Intersect(theirs, common) = common
  BY <1>1, <1>2, <1>3, <1>10, <1>11, <1>7 DEF Intersect
<1> QED
  BY <1>3, <1>5, <1>8 DEF common

(* What a server that does not refuse concludes.                           *)
LEMMA DealFacts ==
    ASSUME NEW c \in Configurations
    PROVE  /\ \/ Deal(c) = None
              \/ /\ c.client_mode # "LegacyOnly"
                 /\ Deal(c) = {Intersect(c.server_caps, c.client_caps)}
           /\ c.server_mode = "EnhancedOnly" /\ ~Refused(c, Params(c)) => Deal(c) # None
<1>1. IsCapabilities(c.client_caps) /\ IsCapabilities(c.server_caps)
  BY ClientServerAssumption
<1>2. CASE HasEnhancedRtmp(Params(c))
  <2>1. ToEnhancedCapabilities(Params(c)) = c.client_caps /\ c.client_mode # "LegacyOnly"
    BY <1>2, ConnectRead
  <2> QED
    BY <1>2, <2>1 DEF Deal, Negotiated, None
<1>3. CASE ~HasEnhancedRtmp(Params(c))
  BY <1>3 DEF Deal, Negotiated, Refused
<1> QED
  BY <1>2, <1>3

(* What the client makes of the answer to connect.                         *)
LEMMA ResultRead ==
    ASSUME NEW c \in Configurations
    PROVE  LET params == ConnectParams(ConnectResponse(1, Deal(c)).command_object)
           IN  /\ HasEnhancedRtmp(params) <=> Deal(c) # None
               /\ Deal(c) # None =>
                     /\ c.client_mode # "LegacyOnly"
                     /\ Intersect(c.client_caps, ToEnhancedCapabilities(params)).enabled
                     /\ Deal(c) = {Intersect(c.client_caps, ToEnhancedCapabilities(params))}
<1> DEFINE object == ConnectResponse(1, Deal(c)).command_object
           legacy == [fmsVer |-> String("FMS"), capabilities |-> Number(31)]
           common == Intersect(c.server_caps, c.client_caps)
<1>1. object = Object(IF \E caps \in Deal(c) : caps.enabled
                      THEN WithMaps(legacy, Or(Deal(c), Disabled)) ELSE legacy)
  BY DEF ConnectResponse, ResultCommand, Command
<1>2. IsCapabilities(c.client_caps) /\ IsCapabilities(c.server_caps)
  BY ClientServerAssumption
<1>3. /\ common.enabled /\ IsCapabilities(common)
      /\ Intersect(c.client_caps, common) = common
  BY <1>2, IntersectFacts
<1>4. CASE Deal(c) = None
  <2>1. object = Object(legacy)
    BY <1>1, <1>4 DEF None
  <2> QED
    BY <1>4, <2>1, LegacyRead
<1>5. CASE Deal(c) # None
  <2>1. Deal(c) = {common} /\ c.client_mode # "LegacyOnly"
    BY <1>5, DealFacts
  <2>2. object = Object(WithMaps(legacy, common))
    BY <1>1, <1>3, <2>1, OrFacts
  <2>3. /\ HasEnhancedRtmp(ConnectParams(object))
        /\ ToEnhancedCapabilities(ConnectParams(object)) = common
    BY <1>3, <2>2, CapabilitiesRead
  <2> QED
    BY <1>3, <1>5, <2>1, <2>3
<1> QED
  BY <1>4, <1>5

----------------------------------------------------------------------------
(* The messages of both sides.                                             *)

(* Chunks on their way: the server announces its chunk size; the request   *)
(* to connect; other messages of either side, whose commands go by stream  *)
(* 0; audio of the client.                                                 *)
NewSize == Chunk(ChunkSize(ServerChunkSize), 0, DefaultChunkSize)
Asked(c) == Chunk(ConnectRequest(c), 0, DefaultChunkSize)
From(m) == Chunk(m, 0, ServerChunkSize)
Sent(m) == Chunk(m, 0, ClientChunkSize)
SentSound(id) == Chunk(Sound, id, ClientChunkSize)

(* What the messages of the server say, and that all of its commands are   *)
(* for stream 0.                                                           *)
LEMMA AnswersSay ==
    /\ ConnectError(1)[1] = "Command" /\ ConnectError(1)[2].name = "_error"
    /\ \A caps : /\ ConnectResult(1, caps)[1] = "Command"
                 /\ ConnectResult(1, caps)[2].name = "_result"
                 /\ ConnectResult(1, caps)[2] = ConnectResponse(1, caps)
    /\ \A id : /\ CreateStreamResult(2, id)[1] = "Command"
               /\ CreateStreamResult(2, id)[2].name = "_result"
               /\ CreateStreamResult(2, id)[2].transaction_id = 2
               /\ AsNumber(First(CreateStreamResult(2, id)[2])) = {id}
    /\ OnFcPublish[1] = "Command" /\ OnFcPublish[2].name = "onFCPublish"
    /\ \A code : /\ Status(0, code)[1] = "Command" /\ Status(0, code)[2].name = "onStatus"
                 /\ Code(Status(0, code)[2]) = {code}
                 /\ Refusal(0, code)[1] = "Command" /\ Refusal(0, code)[2].name = "onStatus"
                 /\ Code(Refusal(0, code)[2]) = {code}
    /\ WindowAckSize[1] = "WindowAckSize" /\ PeerBandwidth[1] = "SetPeerBandwidth"
    /\ Sound[1] = "Audio"
    /\ StreamBegin(0)[1] = "UserControl" /\ StreamBegin(0)[2][1] = "StreamBegin"
    /\ StreamEof(0)[1] = "UserControl" /\ StreamEof(0)[2][1] = "StreamEof"
    /\ \A size : ChunkSize(size)[1] = "SetChunkSize" /\ ChunkSize(size)[2] = size
<1> USE DEF Request, Command
<1>1. ConnectError(1)[1] = "Command" /\ ConnectError(1)[2].name = "_error"
  BY DEF ConnectError, ErrorCommand
<1>2. ASSUME NEW caps
      PROVE  /\ ConnectResult(1, caps)[1] = "Command"
             /\ ConnectResult(1, caps)[2].name = "_result"
             /\ ConnectResult(1, caps)[2] = ConnectResponse(1, caps)
  BY DEF ConnectResult, ConnectResponse, ResultCommand
<1>3. ASSUME NEW id
      PROVE  /\ CreateStreamResult(2, id)[1] = "Command"
             /\ CreateStreamResult(2, id)[2].name = "_result"
             /\ CreateStreamResult(2, id)[2].transaction_id = 2
             /\ AsNumber(First(CreateStreamResult(2, id)[2])) = {id}
  <2>1. CreateStreamResult(2, id)[2].arguments = << Number(id) >>
    BY DEF CreateStreamResult, ResultCommand
  <2>2. First(CreateStreamResult(2, id)[2]) = Number(id)
    BY <2>1 DEF First
  <2> QED
    BY <2>2 DEF CreateStreamResult, ResultCommand, AsNumber, Number, Kind
<1>4. OnFcPublish[1] = "Command" /\ OnFcPublish[2].name = "onFCPublish"
  BY DEF OnFcPublish
<1>5. ASSUME NEW code, NEW level
      PROVE  LET cmd == StatusCommand(0, level, code)
             IN  cmd.name = "onStatus" /\ Code(cmd) = {code}
  <2> DEFINE object == [level |-> String(level), code |-> String(code)]
             cmd == StatusCommand(0, level, code)
  <2>1. cmd.arguments = << Object(object) >> /\ cmd.name = "onStatus"
    BY DEF StatusCommand
  <2>2. First(cmd) = Object(object)
    BY <2>1 DEF First
  <2>3. Get(Object(object), "code") = String(code)
    BY GetFacts
  <2> QED
    BY <2>1, <2>2, <2>3 DEF Code, AsStr, String, Kind
<1>6. ASSUME NEW code
      PROVE  /\ Status(0, code)[1] = "Command" /\ Status(0, code)[2].name = "onStatus"
             /\ Code(Status(0, code)[2]) = {code}
             /\ Refusal(0, code)[1] = "Command" /\ Refusal(0, code)[2].name = "onStatus"
             /\ Code(Refusal(0, code)[2]) = {code}
  BY <1>5 DEF Status, Refusal
<1> QED
  BY <1>1, <1>2, <1>3, <1>4, <1>6
     DEF WindowAckSize, PeerBandwidth, Sound, StreamBegin, StreamEof, ChunkSize

(* A message of the server is read as it was sent.                         *)
LEMMA AnswersArrive ==
    /\ \A m \in ServerMessages :
           /\ Parsed(From(m)) = m
           /\ m[1] = "Command" => m[2].stream_id = 0
           /\ From(m).chunk_size = ServerChunkSize
    /\ Parsed(NewSize) = ChunkSize(ServerChunkSize) /\ ~Long(NewSize)
<1>1. ASSUME NEW name, NEW id, NEW object, NEW arguments
      PROVE  /\ [Command(name, id, object, arguments, 0) EXCEPT !.stream_id = 0]
                    = Command(name, id, object, arguments, 0)
             /\ Command(name, id, object, arguments, 0).stream_id = 0
  BY DEF Command
<1>2. ASSUME NEW m \in ServerMessages, m[1] = "Command"
      PROVE  /\ m = << "Command", m[2] >>
             /\ \E name, id, object, arguments :
                    m[2] = Command(name, id, object, arguments, 0)
  <2>1. \/ m = ConnectError(1) \/ m = OnFcPublish
        \/ \E code : m = Status(0, code) \/ m = Refusal(0, code)
        \/ \E caps : m = ConnectResult(1, caps)
        \/ \E id : m = CreateStreamResult(2, id)
    BY <1>2 DEF ServerMessages, ChunkSize, WindowAckSize, PeerBandwidth, StreamBegin, StreamEof,
                Sound
  <2>2. CASE m = ConnectError(1)
    BY <2>2 DEF ConnectError, ErrorCommand
  <2>3. CASE m = OnFcPublish
    BY <2>3 DEF OnFcPublish, Request
  <2>4. ASSUME NEW code, m = Status(0, code) \/ m = Refusal(0, code)
        PROVE  /\ m = << "Command", m[2] >>
               /\ \E name, id, object, arguments :
                      m[2] = Command(name, id, object, arguments, 0)
    BY <2>4 DEF Status, Refusal, StatusCommand
  <2>5. ASSUME NEW caps, m = ConnectResult(1, caps)
        PROVE  /\ m = << "Command", m[2] >>
               /\ \E name, id, object, arguments :
                      m[2] = Command(name, id, object, arguments, 0)
    BY <2>5 DEF ConnectResult, ConnectResponse, ResultCommand
  <2>6. ASSUME NEW id, m = CreateStreamResult(2, id)
        PROVE  /\ m = << "Command", m[2] >>
               /\ \E name, number, object, arguments :
                      m[2] = Command(name, number, object, arguments, 0)
    BY <2>6 DEF CreateStreamResult, ResultCommand
  <2> QED
    BY <2>1, <2>2, <2>3, <2>4, <2>5, <2>6
<1>3. ASSUME NEW m \in ServerMessages
      PROVE  Delivered(m, 0) = m /\ (m[1] = "Command" => m[2].stream_id = 0)
  BY <1>1, <1>2 DEF Delivered
<1>4. 0 \in 0 .. MaxStreams
  BY ClientServerAssumption
<1>5. ASSUME NEW m \in ServerMessages
      PROVE  Parsed(From(m)) = m /\ From(m).chunk_size = ServerChunkSize
  BY <1>3, <1>4, CodecAssumption DEF From, Chunk
<1>6. ChunkSize(ServerChunkSize) \in ServerMessages
  BY DEF ServerMessages
<1>7. Parsed(NewSize) = ChunkSize(ServerChunkSize)
  BY <1>3, <1>4, <1>6, CodecAssumption DEF NewSize
<1>8. ~Long(NewSize)
  <2>1. NewSize.message_type = MessageType["SetChunkSize"]
    BY <1>6, CodecAssumption DEF NewSize, Chunk, ChunkSize
  <2> QED
    BY <2>1 DEF Long, MessageType
<1> QED
  BY <1>3, <1>5, <1>7, <1>8

(* What the server reads of the client's messages.                         *)
LEMMA RequestsArrive ==
    /\ \A c \in Configurations :
           LET m == Parsed(Asked(c))
           IN  /\ m[1] = "Command" /\ m[2].name = "connect" /\ m[2].transaction_id = 1
               /\ m[2].command_object = ConnectObject(c)
               /\ Asked(c).chunk_size = DefaultChunkSize
    /\ LET m == Parsed(Sent(ChunkSize(ClientChunkSize)))
       IN  m[1] = "SetChunkSize" /\ m[2] = ClientChunkSize
    /\ ~Long(Sent(ChunkSize(ClientChunkSize)))
    /\ LET m == Parsed(Sent(CreateStreamRequest))
       IN  m[1] = "Command" /\ m[2].name = "createStream" /\ m[2].transaction_id = 2
    /\ LET m == Parsed(Sent(ReleaseRequest))
       IN  m[1] = "Command" /\ m[2].name = "releaseStream"
    /\ LET m == Parsed(Sent(FcPublishRequest))
       IN  m[1] = "Command" /\ m[2].name = "FCPublish"
    /\ \A id \in 1 .. MaxStreams :
           /\ Parsed(Sent(BufferLength(id)))[1] = "UserControl"
           /\ LET m == Parsed(Sent(PlayRequest(id)))
              IN  /\ m[1] = "Command" /\ m[2].name = "play" /\ m[2].stream_id = 0
                  /\ Or(AsStr(First(m[2])), "") = Name
           /\ LET m == Parsed(Sent(PublishRequest(id)))
              IN  /\ m[1] = "Command" /\ m[2].name = "publish" /\ m[2].stream_id = 0
                  /\ Or(AsStr(First(m[2])), "") = Name
           /\ Parsed(SentSound(id))[1] = "Audio"
    /\ \A m : Sent(m).chunk_size = ClientChunkSize
    /\ \A id : SentSound(id).chunk_size = ClientChunkSize
<1> USE DEF Request, Command
<1>1. 0 \in 0 .. MaxStreams /\ 1 .. MaxStreams \subseteq 0 .. MaxStreams
  BY ClientServerAssumption
<1>2. \A m \in ClientMessages : Parsed(Sent(m)) = Delivered(m, 0)
  BY <1>1, CodecAssumption DEF Sent
<1>3. ASSUME NEW cmd, cmd.arguments # << >>, cmd.arguments[1] = String(Name)
      PROVE  Or(AsStr(First(cmd)), "") = Name
  <2>1. AsStr(First(cmd)) = {Name}
    BY <1>3 DEF First, AsStr, String, Kind
  <2>2. Or({Name}, "") = Name
    BY OrFacts
  <2> QED
    BY <2>1, <2>2
<1>4. ASSUME NEW c \in Configurations
      PROVE  LET m == Parsed(Asked(c))
             IN  /\ m[1] = "Command" /\ m[2].name = "connect" /\ m[2].transaction_id = 1
                 /\ m[2].command_object = ConnectObject(c)
                 /\ Asked(c).chunk_size = DefaultChunkSize
  <2>1. ConnectRequest(c) \in ClientMessages
    BY DEF ClientMessages
  <2>2. Parsed(Asked(c)) = Delivered(ConnectRequest(c), 0)
    BY <1>1, <2>1, CodecAssumption DEF Asked
  <2> QED
    BY <2>2 DEF Delivered, ConnectRequest, Asked, Chunk
<1>5. /\ LET m == Parsed(Sent(ChunkSize(ClientChunkSize)))
         IN  m[1] = "SetChunkSize" /\ m[2] = ClientChunkSize
      /\ ~Long(Sent(ChunkSize(ClientChunkSize)))
  <2>1. ChunkSize(ClientChunkSize) \in ClientMessages
    BY DEF ClientMessages
  <2>2. Parsed(Sent(ChunkSize(ClientChunkSize))) = ChunkSize(ClientChunkSize)
    BY <1>2, <2>1 DEF Delivered, ChunkSize
  <2>3. Sent(ChunkSize(ClientChunkSize)).message_type = MessageType["SetChunkSize"]
    BY <2>1, CodecAssumption DEF Sent, Chunk, ChunkSize
  <2> QED
    BY <2>2, <2>3 DEF ChunkSize, Long, MessageType
<1>6. LET m == Parsed(Sent(CreateStreamRequest))
      IN  m[1] = "Command" /\ m[2].name = "createStream" /\ m[2].transaction_id = 2
  <2>1. CreateStreamRequest \in ClientMessages
    BY DEF ClientMessages
  <2> QED
    BY <1>2, <2>1 DEF Delivered, CreateStreamRequest
<1>7. LET m == Parsed(Sent(ReleaseRequest))
      IN  m[1] = "Command" /\ m[2].name = "releaseStream"
  <2>1. ReleaseRequest \in ClientMessages
    BY DEF ClientMessages
  <2> QED
    BY <1>2, <2>1 DEF Delivered, ReleaseRequest
<1>8. LET m == Parsed(Sent(FcPublishRequest))
      IN  m[1] = "Command" /\ m[2].name = "FCPublish"
  <2>1. FcPublishRequest \in ClientMessages
    BY DEF ClientMessages
  <2> QED
    BY <1>2, <2>1 DEF Delivered, FcPublishRequest
<1>9. ASSUME NEW id \in 1 .. MaxStreams
      PROVE  /\ BufferLength(id) \in ClientMessages /\ PlayRequest(id) \in ClientMessages
             /\ PublishRequest(id) \in ClientMessages /\ Sound \in ClientMessages
  BY DEF ClientMessages
<1>10. ASSUME NEW id \in 1 .. MaxStreams
       PROVE  Parsed(Sent(BufferLength(id)))[1] = "UserControl"
  BY <1>2, <1>9 DEF Delivered, BufferLength
<1>11. ASSUME NEW id \in 1 .. MaxStreams
       PROVE  LET m == Parsed(Sent(PlayRequest(id)))
              IN  /\ m[1] = "Command" /\ m[2].name = "play" /\ m[2].stream_id = 0
                  /\ Or(AsStr(First(m[2])), "") = Name
  <2> DEFINE m == Parsed(Sent(PlayRequest(id)))
             arguments == << String(Name), Number(-2), Number(-1), Boolean(TRUE) >>
  <2>1. PlayRequest(id) = Request("play", 0, Null, arguments, id)
    BY DEF PlayRequest
  <2>2. arguments # << >> /\ arguments[1] = String(Name)
    OBVIOUS
  <2> HIDE DEF arguments
  <2>3. m = Delivered(PlayRequest(id), 0)
    BY <1>2, <1>9
  <2>4. m[1] = "Command" /\ m[2].name = "play" /\ m[2].stream_id = 0 /\ m[2].arguments = arguments
    BY <2>1, <2>3 DEF Delivered
  <2>5. Or(AsStr(First(m[2])), "") = Name
    <3> HIDE DEF m
    <3> QED
      BY <1>3, <2>2, <2>4
  <2> QED
    BY <2>4, <2>5
<1>12. ASSUME NEW id \in 1 .. MaxStreams
       PROVE  LET m == Parsed(Sent(PublishRequest(id)))
              IN  /\ m[1] = "Command" /\ m[2].name = "publish" /\ m[2].stream_id = 0
                  /\ Or(AsStr(First(m[2])), "") = Name
  <2> DEFINE m == Parsed(Sent(PublishRequest(id)))
             arguments == << String(Name), String("live") >>
  <2>1. PublishRequest(id) = Request("publish", 0, Null, arguments, id)
    BY DEF PublishRequest
  <2>2. arguments # << >> /\ arguments[1] = String(Name)
    OBVIOUS
  <2> HIDE DEF arguments
  <2>3. m = Delivered(PublishRequest(id), 0)
    BY <1>2, <1>9
  <2>4. m[1] = "Command" /\ m[2].name = "publish" /\ m[2].stream_id = 0 /\ m[2].arguments = arguments
    BY <2>1, <2>3 DEF Delivered
  <2>5. Or(AsStr(First(m[2])), "") = Name
    <3> HIDE DEF m
    <3> QED
      BY <1>3, <2>2, <2>4
  <2> QED
    BY <2>4, <2>5
<1>13. ASSUME NEW id \in 1 .. MaxStreams
       PROVE  Parsed(SentSound(id))[1] = "Audio"
  <2>1. Parsed(SentSound(id)) = Delivered(Sound, id)
    BY <1>1, <1>9, CodecAssumption DEF SentSound
  <2> QED
    BY <2>1 DEF Delivered, Sound
<1>14. /\ \A m : Sent(m).chunk_size = ClientChunkSize
       /\ \A id : SentSound(id).chunk_size = ClientChunkSize
  BY DEF Sent, SentSound, Chunk
<1> HIDE DEF Request, Command
<1> QED
  BY <1>4, <1>5, <1>6, <1>7, <1>8, <1>10, <1>11, <1>12, <1>13, <1>14

(* What the server appends to its queue, and what the client does.         *)
LEMMA AnswerFacts ==
    ASSUME to_client \in Seq({NewSize} \cup {From(m) : m \in ServerMessages}),
           server.chunk_out = ServerChunkSize,
           NEW messages \in Seq(ServerMessages)
    PROVE  /\ Answer(messages) \in Seq({NewSize} \cup {From(m) : m \in ServerMessages})
           /\ Len(Answer(messages)) = Len(to_client) + Len(messages)
           /\ \A i \in 1 .. Len(to_client) : Answer(messages)[i] = to_client[i]
           /\ \A i \in 1 .. Len(messages) :
                  Answer(messages)[Len(to_client) + i] = From(messages[i])
<1> DEFINE chunk(i) ==
               Chunk(messages[i], IF messages[i][1] = "Command" THEN messages[i][2].stream_id ELSE 0,
                     server.chunk_out)
           new == [i \in DOMAIN messages |-> chunk(i)]
           chunks == {NewSize} \cup {From(m) : m \in ServerMessages}
<1>1. \A i \in 1 .. Len(messages) : messages[i] \in ServerMessages /\ chunk(i) = From(messages[i])
  BY AnswersArrive DEF From
<1>3. Answer(messages) = to_client \o new
  BY DEF Answer
<1>4. \A i \in 1 .. Len(messages) : chunk(i) \in chunks
  BY <1>1
<1>5. to_client \in Seq(chunks)
  OBVIOUS
<1> HIDE DEF chunks, chunk
<1>7. \A i \in 1 .. Len(messages) : new[i] = From(messages[i])
  BY <1>1
<1>2. new \in Seq(chunks) /\ Len(new) = Len(messages)
  <2>1. new \in [1 .. Len(messages) -> chunks] /\ Len(messages) \in Nat
    BY <1>4
  <2> HIDE DEF new
  <2> QED
    BY <2>1
<1> HIDE DEF new
<1>6. /\ Answer(messages) \in Seq(chunks)
      /\ Len(Answer(messages)) = Len(to_client) + Len(messages)
      /\ \A i \in 1 .. Len(to_client) : Answer(messages)[i] = to_client[i]
      /\ \A i \in 1 .. Len(messages) : Answer(messages)[Len(to_client) + i] = new[i]
  <2>1. /\ to_client \o new \in Seq(chunks)
        /\ Len(to_client \o new) = Len(to_client) + Len(new)
        /\ \A i \in 1 .. Len(to_client) : (to_client \o new)[i] = to_client[i]
        /\ \A i \in 1 .. Len(new) : (to_client \o new)[Len(to_client) + i] = new[i]
    BY <1>2, <1>5
  <2> QED
    BY <1>2, <1>3, <2>1
<1> QED
  BY <1>6, <1>7 DEF chunks

(* What the client sends when nothing of it is on its way.                 *)
LEMMA SendsOne ==
    ASSUME to_server = << >>, NEW a, ClientSends(<< a >>)
    PROVE  to_server' = << Chunk(a, 0, client'.chunk_out) >>
<1> DEFINE e(i) == Chunk(<< a >>[i], 0, client'.chunk_out)
<1>1. [i \in DOMAIN << a >> |-> e(i)] = << e(1) >>
  <2> HIDE DEF e
  <2> QED
    OBVIOUS
<1>2. to_server' = << >> \o [i \in DOMAIN << a >> |-> e(i)]
  BY DEF ClientSends
<1> HIDE DEF e
<1>3. to_server' = << e(1) >>
  BY <1>1, <1>2
<1> QED
  BY <1>3 DEF e

(* The same for two messages.                                              *)
LEMMA SendsTwo ==
    ASSUME to_server = << >>, NEW a, NEW b, ClientSends(<< a, b >>)
    PROVE  to_server' = << Chunk(a, 0, client'.chunk_out), Chunk(b, 0, client'.chunk_out) >>
<1> DEFINE e(i) == Chunk(<< a, b >>[i], 0, client'.chunk_out)
<1>1. [i \in DOMAIN << a, b >> |-> e(i)] = << e(1), e(2) >>
  <2> HIDE DEF e
  <2> QED
    OBVIOUS
<1>2. to_server' = << >> \o [i \in DOMAIN << a, b >> |-> e(i)]
  BY DEF ClientSends
<1> HIDE DEF e
<1>3. to_server' = << e(1), e(2) >>
  BY <1>1, <1>2
<1> QED
  BY <1>3 DEF e

(* And for three.                                                          *)
LEMMA SendsThree ==
    ASSUME to_server = << >>, NEW a, NEW b, NEW c, ClientSends(<< a, b, c >>)
    PROVE  to_server' = << Chunk(a, 0, client'.chunk_out), Chunk(b, 0, client'.chunk_out),
                           Chunk(c, 0, client'.chunk_out) >>
<1> DEFINE e(i) == Chunk(<< a, b, c >>[i], 0, client'.chunk_out)
<1>1. [i \in DOMAIN << a, b, c >> |-> e(i)] = << e(1), e(2), e(3) >>
  <2> HIDE DEF e
  <2> QED
    OBVIOUS
<1>2. to_server' = << >> \o [i \in DOMAIN << a, b, c >> |-> e(i)]
  BY DEF ClientSends
<1> HIDE DEF e
<1>3. to_server' = << e(1), e(2), e(3) >>
  BY <1>1, <1>2
<1> QED
  BY <1>3 DEF e

(* The part of MediaServer: the types, and that a connection whose key     *)
(* publishing_to is holds it.                                              *)
The == << App, Name >>

(* An entry of the registry.                                               *)
Fields ==
    [publisher : Session \cup {NoSession}, count : Int, state : Server!State, gone : Int,
     chan : Nat]

(* The types of the registry and of the connections.                       *)
ServerTyped ==
    /\ streams \in [Key -> Fields] /\ nextChan \in Nat
    /\ phase \in [Session -> Server!Phase]
    /\ publishing_to \in [Session -> Key \cup {NoKey}]
    /\ frame_rx \in [Session -> Nat] /\ taken \in [Session -> Nat]
    /\ next_stream_id \in [Session -> 1 .. MaxStreams + 1]

(* A key is held until its publisher is unregistered: publishing_to of     *)
(* this connection names the key of the URL only as long as the entry      *)
(* does.                                                                   *)
Held ==
    publishing_to[Me] = The /\ phase[Me] \in {"serving", "unregistering"} =>
        streams[The].publisher = Me /\ streams[The].state = "Active"

ServerInv == ServerTyped /\ Held

(* What the step of a session does to it.                                  *)
Goes(s, p, q) ==
    /\ phase[s] = p /\ phase' = [phase EXCEPT ![s] = q]
    /\ UNCHANGED <<publishing_to, frame_rx, taken, next_stream_id>>

StaysAt == UNCHANGED <<phase, publishing_to, frame_rx, taken, next_stream_id>>

(* What the operations of the registry write into an entry.                *)
LEMMA FieldsUpdate ==
    ASSUME NEW e \in Fields, NEW p \in Session \cup {NoSession}, NEW st \in Server!State
    PROVE  /\ \A chan \in Nat :
                 [e EXCEPT !.publisher = p, !.state = st, !.chan = chan] \in Fields
           /\ \A g \in Int : [e EXCEPT !.publisher = p, !.gone = g, !.state = st] \in Fields
           /\ \A count \in Int : [e EXCEPT !.count = count] \in Fields
BY DEF Fields

(* An entry before the first publisher.                                    *)
LEMMA NoEntryFields ==
    Server!NoEntry \in Fields /\ Server!NoEntry.publisher = NoSession
BY DEF Fields, Server!NoEntry, Server!State, Server!Never, Server!NoChan

(* An entry whose publisher is gone for one more tick.                     *)
LEMMA OlderFields ==
    ASSUME NEW e \in Fields
    PROVE  /\ Server!Older(e) \in Fields /\ Server!Older(e).publisher = e.publisher
           /\ Server!Older(e).state = e.state
BY DEF Fields, Server!Older

(* A call to the registry by session s.                                    *)
LEMMA RegistryCalls ==
    ASSUME ServerInv, NEW s \in Session, NEW k \in Key
    PROVE  /\ Server!RegisterPublisher(k, s) =>
                 /\ streams' \in [Key -> Fields] /\ nextChan' \in Nat
                 /\ streams'[k].publisher = s /\ streams'[k].state = "Active"
                 /\ \A l \in Key \ {k} : streams'[l] = streams[l]
                 /\ ~(streams[k].state = "Active" /\ streams[k].publisher # NoSession)
           /\ Server!UnregisterPublisher(k, s) =>
                 /\ streams' \in [Key -> Fields] /\ nextChan' \in Nat
                 /\ streams[k].publisher = s
                 /\ \A l \in Key \ {k} : streams'[l] = streams[l]
           /\ Server!Subscribe(k) \/ Server!Unsubscribe(k) =>
                 /\ streams' \in [Key -> Fields] /\ nextChan' \in Nat
                 /\ \A l \in Key : /\ streams'[l].publisher = streams[l].publisher
                                   /\ streams'[l].state = streams[l].state
<1> USE DEF ServerInv, ServerTyped
<1>1. streams[k] \in Fields
  OBVIOUS
<1>2. ASSUME Server!RegisterPublisher(k, s)
      PROVE  /\ streams' \in [Key -> Fields] /\ nextChan' \in Nat
             /\ streams'[k].publisher = s /\ streams'[k].state = "Active"
             /\ \A l \in Key \ {k} : streams'[l] = streams[l]
             /\ ~(streams[k].state = "Active" /\ streams[k].publisher # NoSession)
  <2>1. CASE Server!CreateEntry(k, s)
    <3> DEFINE e == [Server!NoEntry EXCEPT !.publisher = s, !.state = "Active",
                                           !.chan = nextChan]
    <3>1. e \in Fields
      <4>1. "Active" \in Server!State /\ s \in Session \cup {NoSession} /\ nextChan \in Nat
        BY DEF Server!State
      <4> QED
        BY <4>1, NoEntryFields, FieldsUpdate
    <3>2. e.publisher = s /\ e.state = "Active"
      BY NoEntryFields DEF Fields
    <3>3. streams' = [streams EXCEPT ![k] = e] /\ nextChan' = nextChan + 1
      BY <2>1 DEF Server!CreateEntry
    <3>4. streams[k].state = "Absent"
      BY <2>1 DEF Server!CreateEntry, Server!Exists
    <3> HIDE DEF e
    <3> QED
      BY <3>1, <3>2, <3>3, <3>4
  <2>2. CASE Server!ReclaimEntry(k, s)
    <3> DEFINE e == [streams[k] EXCEPT !.publisher = s, !.gone = Server!Never,
                                       !.state = "Active"]
    <3>1. e \in Fields
      <4>1. /\ "Active" \in Server!State /\ s \in Session \cup {NoSession}
            /\ Server!Never \in Int
        BY DEF Server!State, Server!Never
      <4> QED
        BY <1>1, <4>1, FieldsUpdate
    <3>2. e.publisher = s /\ e.state = "Active"
      BY <1>1 DEF Fields
    <3>3. streams' = [streams EXCEPT ![k] = e] /\ nextChan' = nextChan
      BY <2>2 DEF Server!ReclaimEntry
    <3>4. ~(streams[k].state = "Active" /\ streams[k].publisher # NoSession)
      BY <2>2 DEF Server!ReclaimEntry, Server!AlreadyPublishing
    <3> HIDE DEF e
    <3> QED
      BY <3>1, <3>2, <3>3, <3>4
  <2> QED
    BY <1>2, <2>1, <2>2 DEF Server!RegisterPublisher
<1>3. ASSUME Server!UnregisterPublisher(k, s)
      PROVE  /\ streams' \in [Key -> Fields] /\ nextChan' \in Nat
             /\ streams[k].publisher = s
             /\ \A l \in Key \ {k} : streams'[l] = streams[l]
  <2> DEFINE state == IF streams[k].count > 0 THEN "GracePeriod" ELSE "Idle"
             e == [streams[k] EXCEPT !.publisher = NoSession, !.gone = 0, !.state = state]
  <2>1. state \in Server!State
    BY DEF Server!State
  <2>2. streams' = [streams EXCEPT ![k] = e] /\ nextChan' = nextChan
        /\ streams[k].publisher = s
    BY <1>3 DEF Server!UnregisterPublisher
  <2> HIDE DEF state
  <2>3. e \in Fields
    <3>1. NoSession \in Session \cup {NoSession} /\ 0 \in Int
      OBVIOUS
    <3> QED
      BY <1>1, <2>1, <3>1, FieldsUpdate
  <2> HIDE DEF e
  <2> QED
    BY <2>2, <2>3
<1>4. ASSUME Server!Subscribe(k) \/ Server!Unsubscribe(k)
      PROVE  /\ streams' \in [Key -> Fields] /\ nextChan' \in Nat
             /\ \A l \in Key : /\ streams'[l].publisher = streams[l].publisher
                               /\ streams'[l].state = streams[l].state
  <2>1. PICK count \in Int : streams' = [streams EXCEPT ![k] = [@ EXCEPT !.count = count]]
    <3>1. CountModulus \in Int /\ CountModulus > 0 /\ streams[k].count \in Int
      BY <1>1, ClientServerAssumption DEF Fields
    <3>2. /\ (streams[k].count + 1) % CountModulus \in Int
          /\ (streams[k].count + CountModulus - 1) % CountModulus \in Int
      BY <3>1
    <3> QED
      BY <1>4, <3>2 DEF Server!Subscribe, Server!Unsubscribe
  <2>2. nextChan' = nextChan
    BY <1>4 DEF Server!Subscribe, Server!Unsubscribe
  <2>3. [streams[k] EXCEPT !.count = count] \in Fields
    BY <1>1 DEF Fields
  <2>4. /\ [streams[k] EXCEPT !.count = count].publisher = streams[k].publisher
        /\ [streams[k] EXCEPT !.count = count].state = streams[k].state
    BY <1>1 DEF Fields
  <2> QED
    BY <2>1, <2>2, <2>3, <2>4
<1> QED
  BY <1>2, <1>3, <1>4

(* The two sessions and the key of the URL.                                *)
LEMMA MeAndOther == Me \in Session /\ Other \in Session /\ Me # Other /\ The \in Key
BY ClientServerAssumption DEF The

(* A session whose registry calls, if any, leave the publishers alone.     *)
LEMMA MovingKeeps ==
    ASSUME ServerInv, NEW s \in Session, NEW p, NEW q \in Server!Phase, Goes(s, p, q),
           streams' \in [Key -> Fields], nextChan' \in Nat,
           \A k \in Key : /\ streams'[k].publisher = streams[k].publisher
                          /\ streams'[k].state = streams[k].state,
           s = Me /\ q \in {"serving", "unregistering"} =>
               p = "serving" \/ publishing_to[Me] # The
    PROVE  ServerInv'
<1>1. ServerTyped'
  BY DEF ServerInv, ServerTyped, Goes
<1>2. Held'
  <2>1. CASE s = Me
    BY <2>1, MeAndOther DEF ServerInv, ServerTyped, Held, Goes
  <2>2. CASE s # Me
    <3>1. phase'[Me] = phase[Me] /\ publishing_to' = publishing_to
      BY <2>2, MeAndOther DEF ServerInv, ServerTyped, Goes
    <3> QED
      BY <3>1, MeAndOther DEF ServerInv, Held
  <2> QED
    BY <2>1, <2>2
<1> QED
  BY <1>1, <1>2 DEF ServerInv

(* The steps of a session through its phases.                              *)
LEMMA Moves ==
    ASSUME ServerInv, NEW s \in Session
    PROVE  /\ Server!Open(s) => Goes(s, "waiting", "opening") /\ ServerInv'
           /\ Server!OpenFails(s) => Goes(s, "opening", "closed") /\ ServerInv'
           /\ Server!Serve(s) =>
                 /\ Goes(s, "opening", "serving")
                 /\ (s = Me => publishing_to[Me] # The) => ServerInv'
           /\ Server!LoopEnds(s) => Goes(s, "serving", "unregistering") /\ ServerInv'
           /\ Server!StreamEnded(s) =>
                 /\ Goes(s, "serving", "unregistering") /\ ServerInv'
                 /\ taken[s] # 0
           /\ \A k \in Key : Server!PublishRefused(s, k) =>
                 Goes(s, "serving", "unregistering") /\ ServerInv'
           /\ Server!UnregisterOnDisconnect(s) =>
                 Goes(s, "unregistering", "unsubscribing") /\ ServerInv'
           /\ Server!UnsubscribeOnDisconnect(s) =>
                 Goes(s, "unsubscribing", "leaving") /\ ServerInv'
<1> USE DEF Server!GoTo, Server!registryVars, Server!historyVars
<1>1. {"opening", "closed", "serving", "unregistering", "unsubscribing", "leaving"}
          \subseteq Server!Phase
  BY DEF Server!Phase
<1>2. streams \in [Key -> Fields] /\ nextChan \in Nat
  BY DEF ServerInv, ServerTyped
<1>3. ASSUME UNCHANGED << streams, nextChan >>,
             NEW p, NEW q \in Server!Phase, Goes(s, p, q),
             s = Me /\ q \in {"serving", "unregistering"} =>
                 p = "serving" \/ publishing_to[Me] # The
      PROVE  ServerInv'
  BY <1>2, <1>3, MovingKeeps
<1>4. Server!Open(s) => Goes(s, "waiting", "opening") /\ ServerInv'
  <2>1. ASSUME Server!Open(s)
        PROVE  Goes(s, "waiting", "opening") /\ UNCHANGED << streams, nextChan >>
    BY <2>1 DEF Server!Open, Goes
  <2> QED
    BY <1>1, <1>3, <2>1
<1>5. Server!OpenFails(s) => Goes(s, "opening", "closed") /\ ServerInv'
  <2>1. ASSUME Server!OpenFails(s)
        PROVE  Goes(s, "opening", "closed") /\ UNCHANGED << streams, nextChan >>
    BY <2>1 DEF Server!OpenFails, Goes
  <2> QED
    BY <1>1, <1>3, <2>1
<1>6. ASSUME Server!Serve(s)
      PROVE  /\ Goes(s, "opening", "serving")
             /\ (s = Me => publishing_to[Me] # The) => ServerInv'
  <2>1. Goes(s, "opening", "serving") /\ UNCHANGED << streams, nextChan >>
    BY <1>6 DEF Server!Serve, Goes
  <2> QED
    BY <1>1, <1>3, <2>1
<1>7. Server!LoopEnds(s) => Goes(s, "serving", "unregistering") /\ ServerInv'
  <2>1. ASSUME Server!LoopEnds(s)
        PROVE  Goes(s, "serving", "unregistering") /\ UNCHANGED << streams, nextChan >>
    BY <2>1 DEF Server!LoopEnds, Goes
  <2> QED
    BY <1>1, <1>3, <2>1
<1>8. Server!StreamEnded(s) =>
          Goes(s, "serving", "unregistering") /\ ServerInv' /\ taken[s] # 0
  <2>1. ASSUME Server!StreamEnded(s)
        PROVE  /\ Goes(s, "serving", "unregistering") /\ UNCHANGED << streams, nextChan >>
               /\ taken[s] # 0
    BY <2>1 DEF Server!StreamEnded, Server!NoChan, Goes
  <2> QED
    BY <1>1, <1>3, <2>1
<1>9. ASSUME NEW k \in Key, Server!PublishRefused(s, k)
      PROVE  Goes(s, "serving", "unregistering") /\ ServerInv'
  <2>1. Goes(s, "serving", "unregistering") /\ UNCHANGED << streams, nextChan >>
    BY <1>9 DEF Server!PublishRefused, Goes
  <2> QED
    BY <1>1, <1>3, <2>1
<1>10. ASSUME Server!UnregisterOnDisconnect(s)
       PROVE  Goes(s, "unregistering", "unsubscribing") /\ ServerInv'
  <2>1. Goes(s, "unregistering", "unsubscribing")
    BY <1>10 DEF Server!UnregisterOnDisconnect, Goes
  <2>2. CASE UNCHANGED << streams, nextChan >>
    BY <1>1, <1>3, <2>1, <2>2
  <2>3. CASE /\ publishing_to[s] \in Key
             /\ Server!UnregisterPublisher(publishing_to[s], s)
    <3>1. /\ streams' \in [Key -> Fields] /\ nextChan' \in Nat
          /\ streams[publishing_to[s]].publisher = s
          /\ \A l \in Key \ {publishing_to[s]} : streams'[l] = streams[l]
      BY <2>3, RegistryCalls
    <3>2. ServerTyped'
      BY <1>1, <2>1, <3>1 DEF ServerInv, ServerTyped, Goes
    <3>3. CASE s = Me
      <4>1. phase'[Me] = "unsubscribing"
        BY <2>1, <3>3, MeAndOther DEF ServerInv, ServerTyped, Goes
      <4> QED
        BY <2>1, <3>2, <4>1 DEF ServerInv, Held
    <3>4. CASE s # Me
      <4>1. phase'[Me] = phase[Me] /\ publishing_to' = publishing_to
        BY <2>1, <3>4, MeAndOther DEF ServerInv, ServerTyped, Goes
      <4> QED
        BY <2>1, <3>1, <3>2, <3>4, <4>1, MeAndOther DEF ServerInv, Held
    <3> QED
      BY <3>3, <3>4
  <2> QED
    BY <1>10, <2>1, <2>2, <2>3 DEF Server!UnregisterOnDisconnect
<1>11. ASSUME Server!UnsubscribeOnDisconnect(s)
       PROVE  Goes(s, "unsubscribing", "leaving") /\ ServerInv'
  <2>1. Goes(s, "unsubscribing", "leaving")
    BY <1>11 DEF Server!UnsubscribeOnDisconnect, Goes
  <2>2. CASE UNCHANGED << streams, nextChan >>
    BY <1>1, <1>3, <2>1, <2>2
  <2>3. CASE subscribed_to[s] \in Key /\ Server!Unsubscribe(subscribed_to[s])
    <3>1. /\ streams' \in [Key -> Fields] /\ nextChan' \in Nat
          /\ \A l \in Key : /\ streams'[l].publisher = streams[l].publisher
                            /\ streams'[l].state = streams[l].state
      BY <2>3, RegistryCalls
    <3> QED
      BY <1>1, <2>1, <3>1, MovingKeeps
  <2> QED
    BY <1>11, <2>1, <2>2, <2>3 DEF Server!UnsubscribeOnDisconnect
<1> QED
  BY <1>4, <1>5, <1>6, <1>7, <1>8, <1>9, <1>10, <1>11

(* The steps that change something else.                                   *)
LEMMA LeaveKeeps ==
    ASSUME ServerInv, NEW s \in Session, Server!Leave(s)
    PROVE  /\ ServerInv'
           /\ phase[s] = "leaving" /\ phase' = [phase EXCEPT ![s] = "closed"]
           /\ publishing_to' = publishing_to
           /\ frame_rx' = [frame_rx EXCEPT ![s] = 0] /\ taken' = [taken EXCEPT ![s] = 0]
<1>1. /\ phase[s] = "leaving" /\ phase' = [phase EXCEPT ![s] = "closed"]
      /\ frame_rx' = [frame_rx EXCEPT ![s] = 0] /\ taken' = [taken EXCEPT ![s] = 0]
      /\ UNCHANGED << streams, nextChan, publishing_to, next_stream_id >>
  BY DEF Server!Leave, Server!GoTo, Server!registryVars, Server!NoChan
<1>2. ServerTyped'
  BY <1>1 DEF ServerInv, ServerTyped, Server!Phase
<1>3. Held'
  BY <1>1, MeAndOther DEF ServerInv, ServerTyped, Held
<1> QED
  BY <1>1, <1>2, <1>3 DEF ServerInv

(* createStream counts message streams.                                    *)
LEMMA CreateStreamKeeps ==
    ASSUME ServerInv, Server!CreateStream(Me)
    PROVE  /\ ServerInv' /\ next_stream_id[Me] \in 1 .. MaxStreams
           /\ UNCHANGED << phase, publishing_to, frame_rx, taken >>
<1>1. /\ next_stream_id[Me] <= MaxStreams
      /\ next_stream_id' = [next_stream_id EXCEPT ![Me] = @ + 1]
      /\ UNCHANGED << streams, nextChan, phase, publishing_to, frame_rx, taken >>
  BY DEF Server!CreateStream, Server!registryVars
<1>2. next_stream_id[Me] \in 1 .. MaxStreams
      /\ next_stream_id[Me] + 1 \in 1 .. MaxStreams + 1
  BY <1>1, MeAndOther, ClientServerAssumption DEF ServerInv, ServerTyped
<1> QED
  BY <1>1, <1>2, MeAndOther DEF ServerInv, ServerTyped, Held

(* publish takes a key nobody holds: of this connection, the key of the    *)
(* URL, or another; of another connection, never one that this one holds.  *)
LEMMA PublishKeeps ==
    ASSUME ServerInv, NEW s \in {Me, Other}, NEW id, NEW k \in Key, Server!Publish(s, id, k)
    PROVE  /\ ServerInv' /\ publishing_to' = [publishing_to EXCEPT ![s] = k]
           /\ UNCHANGED << phase, frame_rx, taken, next_stream_id >>
<1>1. /\ Server!RegisterPublisher(k, s)
      /\ publishing_to' = [publishing_to EXCEPT ![s] = k]
      /\ UNCHANGED << phase, frame_rx, taken, next_stream_id >>
  BY DEF Server!Publish
<1>2. /\ streams' \in [Key -> Fields] /\ nextChan' \in Nat
      /\ streams'[k].publisher = s /\ streams'[k].state = "Active"
      /\ \A l \in Key \ {k} : streams'[l] = streams[l]
      /\ ~(streams[k].state = "Active" /\ streams[k].publisher # NoSession)
  BY <1>1, RegistryCalls, MeAndOther
<1>3. ServerTyped'
  BY <1>1, <1>2, MeAndOther DEF ServerInv, ServerTyped
<1>4. Held'
  <2>1. CASE s = Me
    BY <1>1, <1>2, <2>1, MeAndOther DEF ServerInv, ServerTyped, Held
  <2>2. CASE s = Other
    BY <1>1, <1>2, <2>2, MeAndOther, ClientServerAssumption DEF ServerInv, ServerTyped, Held
  <2> QED
    BY <2>1, <2>2
<1> QED
  BY <1>1, <1>3, <1>4 DEF ServerInv

(* play subscribes: no key changes hands.                                  *)
LEMMA PlayKeeps ==
    ASSUME ServerInv, NEW id, NEW k \in Key, Server!Play(Me, id, k)
    PROVE  ServerInv' /\ UNCHANGED << phase, publishing_to, taken, next_stream_id >>
<1>1. /\ Server!Subscribe(k)
      /\ frame_rx' = [frame_rx EXCEPT ![Me] = streams[k].chan]
      /\ UNCHANGED << phase, publishing_to, taken, next_stream_id >>
  BY DEF Server!Play
<1>2. /\ streams' \in [Key -> Fields] /\ nextChan' \in Nat
      /\ \A l \in Key : /\ streams'[l].publisher = streams[l].publisher
                        /\ streams'[l].state = streams[l].state
  BY <1>1, RegistryCalls, MeAndOther
<1>3. streams[k].chan \in Nat
  BY DEF ServerInv, ServerTyped, Fields
<1>4. ServerTyped'
  BY <1>1, <1>2, <1>3, MeAndOther DEF ServerInv, ServerTyped
<1> QED
  BY <1>1, <1>2, <1>4, MeAndOther DEF ServerInv, Held

(* A turn of the main loop takes the receiver of the last play.            *)
LEMMA TurnKeeps ==
    ASSUME ServerInv, Server!NextIteration(Me)
    PROVE  /\ ServerInv' /\ frame_rx[Me] # 0
           /\ UNCHANGED << phase, publishing_to, next_stream_id >>
<1>1. /\ frame_rx[Me] # 0
      /\ taken' = [taken EXCEPT ![Me] = IF @ # 0 THEN @ ELSE frame_rx[Me]]
      /\ frame_rx' = [frame_rx EXCEPT ![Me] = 0]
      /\ UNCHANGED << streams, nextChan, phase, publishing_to, next_stream_id >>
  BY DEF Server!NextIteration, Server!registryVars, Server!NoChan
<1>2. ServerTyped'
  BY <1>1, MeAndOther DEF ServerInv, ServerTyped
<1> QED
  BY <1>1, <1>2, MeAndOther DEF ServerInv, Held

(* The background tasks remove no entry that has a publisher.              *)
LEMMA BackgroundKeeps ==
    ASSUME ServerInv, Server!CleanupTask \/ Server!ClockTick
    PROVE  ServerInv' /\ StaysAt
<1>1. StaysAt
  BY DEF Server!CleanupTask, Server!ClockTick, Server!connVars, StaysAt
<1>2. CASE Server!CleanupTask
  <2>1. /\ streams' = [k \in Key |-> IF Server!Expired(k) THEN Server!NoEntry ELSE streams[k]]
        /\ nextChan' = nextChan
    BY <1>2 DEF Server!CleanupTask, Server!Cleanup
  <2>2. ServerTyped'
    BY <1>1, <2>1, NoEntryFields DEF ServerInv, ServerTyped, StaysAt
  <2>3. Server!Expired(The) => streams[The].state # "Active"
    BY DEF Server!Expired
  <2>4. Held'
    BY <1>1, <2>1, <2>3, MeAndOther DEF ServerInv, Held, StaysAt
  <2> QED
    BY <1>1, <2>2, <2>4 DEF ServerInv
<1>3. CASE Server!ClockTick
  <2>1. streams' = [k \in Key |-> Server!Older(streams[k])] /\ nextChan' = nextChan
    BY <1>3 DEF Server!ClockTick, Server!Tick
  <2>2. \A k \in Key : /\ Server!Older(streams[k]) \in Fields
                       /\ Server!Older(streams[k]).publisher = streams[k].publisher
                       /\ Server!Older(streams[k]).state = streams[k].state
    BY OlderFields DEF ServerInv, ServerTyped
  <2>3. ServerTyped'
    BY <1>1, <2>1, <2>2 DEF ServerInv, ServerTyped, StaysAt
  <2>4. Held'
    BY <1>1, <2>1, <2>2, MeAndOther DEF ServerInv, Held, StaysAt
  <2> QED
    BY <1>1, <2>3, <2>4 DEF ServerInv
<1> QED
  BY <1>1, <1>2, <1>3

----------------------------------------------------------------------------
(* The inductive invariant.                                                *)

(* What the server may have on its way, where the client waits, what its   *)
(* application is told.                                                    *)
Chunks == {NewSize} \cup {From(m) : m \in ServerMessages}
Places == {"handshake", "connecting", "creating", "playing", "publishing", "pulling",
           "published", "done"}
Told == {"Connected", "Publishing", "AudioTag", "StreamEnd", "Error", "Disconnected"}

(* The types of the two sides.                                             *)
Typed ==
    /\ config \in Configurations
    /\ client \in [at : Places, caps : {None, Deal(config)}, stream_id : 0 .. MaxStreams,
                   chunk_in : {DefaultChunkSize, ServerChunkSize},
                   chunk_out : {DefaultChunkSize, ClientChunkSize}]
    /\ server \in [app : {"", App}, caps : {None, Deal(config)}, playback : {None, {0}},
                   chunk_in : {DefaultChunkSize, ClientChunkSize},
                   chunk_out : {DefaultChunkSize, ServerChunkSize}]
    /\ to_client \in Seq(Chunks)
    /\ events \in Seq(Told)

(* How far the connection is on the server, and how far on the client:     *)
(* before Connected, before it has a message stream, and with one, to play *)
(* or to publish.                                                          *)
Before == phase[Me] \in {"waiting", "opening"}
BeforeConnected == events = << >> /\ client.stream_id = 0
BeforeStream == events # << >> /\ client.stream_id = 0
Plays == client.stream_id # 0 /\ Puller
Publishes == client.stream_id # 0 /\ ~Puller

(* The two sides begin together: until it serves, the server has said      *)
(* nothing; where the client waits goes with what it knows.                *)
Beginning ==
    /\ Before => /\ publishing_to[Me] = NoKey /\ server.playback = None
                 /\ server.chunk_out = DefaultChunkSize
                 /\ server.app = "" /\ server.caps = None
                 /\ to_client = << >> /\ BeforeConnected
    /\ Serving => server.chunk_out = ServerChunkSize
    /\ client.at = "handshake" =>
           BeforeConnected /\ to_server = << >> /\ to_client = << >> /\ ~Serving
    /\ client.at = "connecting" => BeforeConnected
    /\ client.at = "creating" => BeforeStream
    /\ client.at \in {"playing", "pulling"} => Plays
    /\ client.at \in {"publishing", "published"} => Publishes
    /\ client.stream_id # 0 => events # << >>

(* Only who plays has a receiver, and only a receiver can see the stream   *)
(* end.                                                                    *)
Playing ==
    /\ server.playback = None =>
           frame_rx[Me] = 0 /\ taken[Me] = 0 /\ ended_by # "stream_end"
    /\ server.playback # None => Plays
    /\ ended_by = "stream_end" => ~Before /\ ~Serving

(* The server has accepted connect.                                        *)
Concluded ==
    server.app = App /\ server.caps = Deal(config) /\ ~Refused(config, Params(config))

(* What the server may answer before connect is accepted, besides its      *)
(* chunk size.                                                             *)
ConnectAnswers == {WindowAckSize, PeerBandwidth, StreamBegin(0), ConnectError(1)}

(* While the client waits for connect: the chunk size comes first, and the *)
(* result last, once. Until the size was read it is still first in the     *)
(* queue.                                                                  *)
ConnectQueue ==
    /\ \A i \in 1 .. Len(to_client) :
           \/ i = 1 /\ to_client[i] = NewSize
           \/ \E m \in ConnectAnswers : to_client[i] = From(m)
           \/ /\ to_client[i] = From(ConnectResult(1, Deal(config)))
              /\ i = Len(to_client) /\ to_server = << >> /\ Concluded
    /\ \/ client.chunk_in = ServerChunkSize
       \/ to_client # << >> /\ to_client[1] = NewSize
       \/ to_client = << >> /\ ~Serving

(* Before Connected both sides cut by the default size, and one request is *)
(* on its way, or answered.                                                *)
Connecting ==
    BeforeConnected =>
        /\ client.chunk_out = DefaultChunkSize /\ server.chunk_in = DefaultChunkSize
        /\ client.caps = None
        /\ \/ to_server = << >>
           \/ to_server = << Asked(config) >> /\ server.app = "" /\ server.caps = None
        /\ client.at # "done" => ConnectQueue

(* After it both sides have agreed, and the client reads by the size of    *)
(* the server.                                                             *)
AfterConnect ==
    ~BeforeConnected =>
        /\ server.app = App
        /\ client.caps = server.caps
        /\ "EnhancedOnly" \in {config.client_mode, config.server_mode} => client.caps # None
        /\ client.chunk_in = ServerChunkSize /\ client.chunk_out = ClientChunkSize

(* Waiting for a message stream: the new chunk size reaches the server     *)
(* before anything that is cut by it.                                      *)
Creating ==
    BeforeStream =>
        /\ events = << "Connected" >>
        /\ \/ /\ to_server = << Sent(ChunkSize(ClientChunkSize)), Sent(CreateStreamRequest) >>
              /\ server.chunk_in = DefaultChunkSize
           \/ to_server = << Sent(CreateStreamRequest) >> /\ server.chunk_in = ClientChunkSize
           \/ to_server = << >> /\ server.chunk_in = ClientChunkSize
        /\ client.at # "done" =>
               \/ to_client = << >>
               \/ /\ to_server = << >>
                  /\ \E id \in 1 .. MaxStreams : to_client = << From(CreateStreamResult(2, id)) >>

(* The answers to play; the end of the stream.                             *)
Start == Status(0, "NetStream.Play.Start")
Ends == {StreamEof(0), Status(0, "NetStream.Play.Stop")}
PlayAnswers ==
    {StreamBegin(0), Status(0, "NetStream.Play.Reset"), Start, Sound,
     Refusal(0, "NetStream.Play.StreamNotFound")}

(* What the server has not read yet of one who asked to play, whom it has  *)
(* not answered.                                                           *)
PlayRequested ==
    /\ \/ to_server = << Sent(BufferLength(client.stream_id)),
                         Sent(PlayRequest(client.stream_id)) >>
       \/ to_server = << Sent(PlayRequest(client.stream_id)) >>
    /\ to_client = << >> /\ server.playback = None

(* What is on its way to one who plays: the end only if the loop ended for *)
(* it.                                                                     *)
PlayQueue ==
    \A i \in 1 .. Len(to_client) :
        \/ \E m \in PlayAnswers : to_client[i] = From(m)
        \/ ended_by = "stream_end" /\ \E m \in Ends : to_client[i] = From(m)

(* Played and ended are in the queue, the one before the other.            *)
Eof(i) == \E j \in 1 .. Len(to_client) : j > i /\ to_client[j] = From(StreamEof(0))

(* The client will be told that it plays, and after that of the end, if    *)
(* there was one.                                                          *)
WillStart ==
    \E i \in 1 .. Len(to_client) :
        to_client[i] = From(Start) /\ (ended_by = "stream_end" => Eof(i))

(* What the application of a puller has been told when it is done: it      *)
(* never played; or frames, and then the end or an error.                  *)
ToldOf ==
    \/ events = << "Connected" >>
    \/ /\ Len(events) > 2 /\ events[Len(events)] = "Disconnected"
       /\ \A i \in 2 .. Len(events) - 2 : events[i] = "AudioTag"
       /\ \/ events[Len(events) - 1] = "StreamEnd" /\ ended_by = "stream_end"
          \/ /\ events[Len(events) - 1] = "Error" /\ ended_by # "stream_end"
             /\ phase[Me] = "closed"

(* One who plays, or wants to.                                             *)
Pulling ==
    Plays =>
        /\ server.chunk_in = ClientChunkSize
        /\ PlayRequested \/ to_server = << >>
        /\ client.at # "done" => PlayQueue
        /\ client.at = "playing" =>
               events = << "Connected" >> /\ (server.playback # None => WillStart)
        /\ client.at = "pulling" =>
               /\ Len(events) > 0 /\ \A i \in 2 .. Len(events) : events[i] = "AudioTag"
               /\ ended_by = "stream_end" => Eof(0)
        /\ client.at = "done" => ToldOf

(* The answers to publish.                                                 *)
Announced == Status(0, "NetStream.Publish.Start")
PublishAnswers ==
    {OnFcPublish, StreamBegin(0), Announced, Refusal(0, "NetStream.Publish.BadName")}

(* What the server has not read yet of one who asked to publish: until it  *)
(* has read publish, all that arrives is the answer to FCPublish.          *)
PublishRequested ==
    /\ \/ to_server = << Sent(ReleaseRequest), Sent(FcPublishRequest),
                         Sent(PublishRequest(client.stream_id)) >>
       \/ to_server = << Sent(FcPublishRequest), Sent(PublishRequest(client.stream_id)) >>
       \/ to_server = << Sent(PublishRequest(client.stream_id)) >>
    /\ \/ client.at = "done"
       \/ /\ client.at = "publishing"
          /\ \A i \in 1 .. Len(to_client) : to_client[i] = From(OnFcPublish)

(* One who publishes, or wants to: once Publish.Start is on its way, or    *)
(* was read, the session publishes the key of the URL as long as it is     *)
(* served.                                                                 *)
Publishing ==
    Publishes =>
        /\ server.chunk_in = ClientChunkSize
        /\ \/ PublishRequested
           \/ to_server \in Seq({SentSound(client.stream_id)})
        /\ client.at # "done" =>
               \A i \in 1 .. Len(to_client) :
                   \E m \in PublishAnswers : to_client[i] = From(m)
        /\ \/ client.at = "published"
           \/ /\ client.at = "publishing"
              /\ \E i \in 1 .. Len(to_client) : to_client[i] = From(Announced)
           => (Serving => publishing_to[Me] = The)

(* All of it.                                                              *)
ProtocolInv ==
    /\ Typed /\ Beginning /\ Playing /\ Connecting /\ AfterConnect /\ Creating
    /\ Pulling /\ Publishing

(* The inductive invariant.                                                *)
IInv == ServerInv /\ ProtocolInv

----------------------------------------------------------------------------
(* The invariant at first, and what it implies.                            *)

(* How long the chunks are that the client sends.                          *)
LEMMA SentSizes ==
    /\ \A c : Asked(c).chunk_size = DefaultChunkSize
    /\ \A m : Sent(m).chunk_size = ClientChunkSize
    /\ \A id : SentSound(id).chunk_size = ClientChunkSize
    /\ ~Long(Sent(ChunkSize(ClientChunkSize)))
BY RequestsArrive DEF Asked, Sent, SentSound, Chunk

(* The invariant holds at first.                                           *)
LEMMA InvInit == Init => IInv
<1> SUFFICES ASSUME Init
             PROVE  IInv
  OBVIOUS
<1>0. /\ Server!Init /\ config \in Configurations
      /\ client = [at |-> "handshake", caps |-> None, stream_id |-> 0,
                   chunk_in |-> DefaultChunkSize, chunk_out |-> DefaultChunkSize]
      /\ server = [app |-> "", caps |-> None, playback |-> None,
                   chunk_in |-> DefaultChunkSize, chunk_out |-> DefaultChunkSize]
      /\ to_server = << >> /\ to_client = << >> /\ events = << >> /\ ended_by = ""
  BY DEF Init
<1>1. ServerInv
  <2>1. /\ streams = [k \in Key |-> Server!NoEntry] /\ nextChan = 1
        /\ phase = [s \in Session |-> "waiting"]
        /\ publishing_to = [s \in Session |-> NoKey]
        /\ frame_rx = [s \in Session |-> 0] /\ taken = [s \in Session |-> 0]
        /\ next_stream_id = [s \in Session |-> 1]
    BY <1>0 DEF Server!Init, Server!RegistryInit, Server!NoChan
  <2>2. 1 \in 1 .. MaxStreams + 1 /\ "waiting" \in Server!Phase
    BY ClientServerAssumption DEF Server!Phase
  <2>3. ServerTyped
    BY <2>1, <2>2, NoEntryFields DEF ServerTyped
  <2>4. Held
    BY <2>1, MeAndOther DEF Held
  <2> QED
    BY <2>3, <2>4 DEF ServerInv
<1>2. /\ phase[Me] = "waiting" /\ publishing_to[Me] = NoKey /\ frame_rx[Me] = 0 /\ taken[Me] = 0
  BY <1>0, MeAndOther DEF Server!Init, Server!NoChan
<1>3. Typed
  <2>1. 0 \in 0 .. MaxStreams
    BY ClientServerAssumption
  <2>2. << >> \in Seq(Chunks) /\ << >> \in Seq(Told)
    OBVIOUS
  <2> QED
    BY <1>0, <2>1, <2>2 DEF Typed, Places
<1>4. Beginning /\ Playing
  BY <1>0, <1>2 DEF Beginning, Playing, Before, BeforeConnected, Serving
<1>5. Connecting
  <2>1. \A i \in 1 .. Len(to_client) : FALSE
    <3>1. Len(to_client) = 0
      BY <1>0
    <3> QED
      BY <3>1
  <2>2. ConnectQueue
    BY <1>0, <1>2, <2>1 DEF ConnectQueue, Serving
  <2> QED
    BY <1>0, <2>2 DEF Connecting
<1>6. AfterConnect /\ Creating /\ Pulling /\ Publishing
  BY <1>0 DEF AfterConnect, Creating, Pulling, Publishing, BeforeConnected, BeforeStream, Plays,
              Publishes
<1> QED
  BY <1>1, <1>3, <1>4, <1>5, <1>6 DEF IInv, ProtocolInv

(* It implies what the runs check: that both sides agree,                  *)
LEMMA InvAgrees == IInv => NegotiationAgrees
BY DEF IInv, ProtocolInv, AfterConnect, BeforeConnected, NegotiationAgrees, Connected

(* that every chunk is read with the size it was cut by,                   *)
LEMMA InvSizes == IInv => ChunkSizesAgree
<1> SUFFICES ASSUME IInv
             PROVE  ChunkSizesAgree
  OBVIOUS
<1> USE DEF IInv, ProtocolInv
<1>1. ASSUME Serving, to_server # << >>, Long(Head(to_server))
      PROVE  Head(to_server).chunk_size = server.chunk_in
  <2>1. config \in Configurations /\ client.stream_id \in 0 .. MaxStreams
    BY DEF Typed
  <2>2. CASE BeforeConnected
    <3>1. to_server = << Asked(config) >> /\ server.chunk_in = DefaultChunkSize
      BY <1>1, <2>2 DEF Connecting
    <3>2. Head(to_server) = Asked(config)
      BY <3>1
    <3> QED
      BY <3>1, <3>2, SentSizes
  <2>3. CASE BeforeStream
    <3>1. CASE to_server = << Sent(ChunkSize(ClientChunkSize)), Sent(CreateStreamRequest) >>
      BY <1>1, <3>1, SentSizes
    <3>2. CASE to_server = << Sent(CreateStreamRequest) >> /\ server.chunk_in = ClientChunkSize
      BY <3>2, SentSizes
    <3> QED
      BY <1>1, <2>3, <3>1, <3>2 DEF Creating
  <2>4. CASE Plays
    <3>1. PlayRequested /\ server.chunk_in = ClientChunkSize
      BY <1>1, <2>4 DEF Pulling
    <3>2. \E m : Head(to_server) = Sent(m)
      BY <3>1 DEF PlayRequested
    <3> QED
      BY <3>1, <3>2, SentSizes
  <2>5. CASE Publishes
    <3>1. server.chunk_in = ClientChunkSize
      BY <2>5 DEF Publishing
    <3>2. CASE PublishRequested
      BY <3>1, <3>2, SentSizes DEF PublishRequested
    <3>3. CASE to_server \in Seq({SentSound(client.stream_id)})
      <4>1. Head(to_server) = SentSound(client.stream_id)
        BY <1>1, <3>3
      <4> QED
        BY <3>1, <4>1, SentSizes
    <3> QED
      BY <2>5, <3>2, <3>3 DEF Publishing
  <2> QED
    BY <2>2, <2>3, <2>4, <2>5 DEF BeforeConnected, BeforeStream, Plays, Publishes
<1>2. ASSUME client.at # "done", to_client # << >>, Long(Head(to_client))
      PROVE  Head(to_client).chunk_size = client.chunk_in
  <2>1. Head(to_client) = to_client[1] /\ 1 \in 1 .. Len(to_client) /\ to_client[1] \in Chunks
    <3>1. to_client \in Seq(Chunks)
      BY DEF Typed
    <3> QED
      BY <1>2, <3>1
  <2>2. to_client[1] # NewSize
    BY <1>2, <2>1, AnswersArrive
  <2>3. to_client[1].chunk_size = ServerChunkSize
    BY <2>1, <2>2 DEF Chunks, From, Chunk
  <2>4. client.chunk_in = ServerChunkSize
    BY <1>2, <2>2 DEF Connecting, ConnectQueue, AfterConnect
  <2> QED
    BY <2>1, <2>3, <2>4
<1> QED
  BY <1>1, <1>2 DEF ChunkSizesAgree

(* that who is told it publishes does,                                     *)
LEMMA InvHeld == IInv => PublishingIsHeld
<1> SUFFICES ASSUME IInv, client.at = "published", Serving
             PROVE  streams[<< App, Name >>].publisher = Me
  BY DEF PublishingIsHeld
<1>1. publishing_to[Me] = The
  BY DEF IInv, ProtocolInv, Beginning, Publishing
<1> QED
  BY <1>1 DEF IInv, ServerInv, Held, Serving, The

(* and that the end is told once, and told apart.                          *)
LEMMA InvTold == IInv => EndIsTold
<1> SUFFICES ASSUME IInv, client.at = "done", Puller,
                    "Disconnected" \in {events[i] : i \in DOMAIN events}
             PROVE  /\ events[Len(events)] = "Disconnected"
                    /\ events[Len(events) - 1] =
                           IF ended_by = "stream_end" THEN "StreamEnd" ELSE "Error"
                    /\ \A i \in 2 .. Len(events) - 2 : events[i] = "AudioTag"
  BY DEF EndIsTold
<1> USE DEF IInv, ProtocolInv
<1>1. events # << >> /\ events # << "Connected" >>
  OBVIOUS
<1>2. Plays
  BY <1>1 DEF Creating, BeforeStream, Plays
<1> QED
  BY <1>1, <1>2 DEF Pulling, ToldOf

(* Steps that only the registry, or the loop, can tell.                    *)
Protocol == << config, client, server, to_server, to_client, events, ended_by >>

(* A step that neither the queues nor either side can tell keeps the       *)
(* protocol part.                                                          *)
LEMMA QuietStep ==
    ASSUME ProtocolInv, UNCHANGED Protocol,
           Before' <=> Before, Serving' <=> Serving,
           phase[Me] = "closed" => phase'[Me] = "closed",
           publishing_to'[Me] = publishing_to[Me],
           server.playback = None => frame_rx'[Me] = 0 /\ taken'[Me] = 0
    PROVE  ProtocolInv'
<1> USE DEF Protocol, ProtocolInv
<1>1. Typed'
  BY DEF Typed
<1>2. Beginning' /\ Playing'
  BY DEF Beginning, Playing, BeforeConnected, BeforeStream, Plays, Publishes, Puller
<1>3. Connecting' /\ AfterConnect' /\ Creating'
  BY DEF Connecting, ConnectQueue, Concluded, AfterConnect, Creating, BeforeConnected,
         BeforeStream
<1>4. Pulling'
  BY DEF Pulling, PlayRequested, PlayQueue, WillStart, Eof, ToldOf, Plays, Puller
<1>5. Publishing'
  BY DEF Publishing, PublishRequested, Publishes, Puller
<1> QED
  BY <1>1, <1>2, <1>3, <1>4, <1>5

(* The connection ends, or goes on ending, and what has been sent may be   *)
(* lost from some point on, if something of the client is unread.          *)
LEMMA EndingStep ==
    ASSUME NEW n \in Nat, n <= Len(to_client), ProtocolInv,
           UNCHANGED << config, client, server, to_server, events >>,
           phase'[Me] \notin {"waiting", "opening", "serving"},
           phase[Me] = "closed" => phase'[Me] = "closed",
           frame_rx'[Me] \in {frame_rx[Me], 0}, taken'[Me] \in {taken[Me], 0},
           ended_by' = "stream_end" <=> ended_by = "stream_end",
           to_client' = SubSeq(to_client, 1, n),
           to_server = << >> => n = Len(to_client)
    PROVE  ProtocolInv'
<1> USE DEF ProtocolInv
<1>1. /\ to_client' \in Seq(Chunks) /\ Len(to_client') = n /\ Len(to_client) \in Nat
      /\ n \in Nat /\ n <= Len(to_client)
      /\ \A i \in 1 .. n : i \in 1 .. Len(to_client) /\ to_client'[i] = to_client[i]
      /\ n = Len(to_client) => to_client' = to_client
      /\ to_client = << >> => to_client' = << >>
      /\ to_client' # << >> => to_client # << >> /\ to_client'[1] = to_client[1]
  <2>1. to_client \in Seq(Chunks)
    BY DEF Typed
  <2>2. Len(to_client) \in Nat /\ n \in Nat /\ n <= Len(to_client)
    BY <2>1
  <2>3. \A i \in 1 .. n : i \in 1 .. Len(to_client) /\ to_client[i] \in Chunks
    BY <2>1, <2>2
  <2>4. to_client' \in Seq(Chunks) /\ Len(to_client') = n
        /\ \A i \in 1 .. n : to_client'[i] = to_client[i]
    BY <2>2, <2>3, SubSeqProperties
  <2>5. n = Len(to_client) => to_client' = to_client
    BY <2>1, SubSeqFull
  <2>6. to_client = << >> => to_client' = << >>
    BY <2>2, <2>4
  <2>7. to_client' # << >> => to_client # << >> /\ to_client'[1] = to_client[1]
    BY <2>2, <2>3, <2>4
  <2> QED
    BY <2>2, <2>3, <2>4, <2>5, <2>6, <2>7
<1>9. n \in Nat /\ Len(to_client) \in Nat /\ n <= Len(to_client)
  BY <1>1
<1>8. \A i \in 1 .. n : i \in 1 .. Len(to_client) /\ to_client'[i] = to_client[i]
  BY <1>1
<1>2. Typed'
  BY <1>1 DEF Typed
<1>3. Beginning' /\ Playing'
  BY <1>1 DEF Beginning, Playing, Before, BeforeConnected, BeforeStream, Plays, Publishes, Serving,
         Puller
<1>4. Connecting'
  <2>1. ASSUME ConnectQueue
        PROVE  ConnectQueue'
    <3>1. ASSUME NEW i \in 1 .. n
          PROVE  \/ i = 1 /\ to_client'[i] = NewSize
                 \/ \E m \in ConnectAnswers : to_client'[i] = From(m)
                 \/ /\ to_client'[i] = From(ConnectResult(1, Deal(config)))
                    /\ i = n /\ to_server = << >> /\ Concluded
      <4>0. i \in Int /\ i <= n
        BY <1>9, <3>1
      <4>1. i = Len(to_client) => i = n
        BY <1>9, <4>0
      <4>3. i \in 1 .. Len(to_client) /\ to_client'[i] = to_client[i]
        BY <1>8, <3>1
      <4>2. \/ i = 1 /\ to_client[i] = NewSize
            \/ \E m \in ConnectAnswers : to_client[i] = From(m)
            \/ /\ to_client[i] = From(ConnectResult(1, Deal(config)))
               /\ i = Len(to_client) /\ to_server = << >> /\ Concluded
        BY <2>1, <4>3 DEF ConnectQueue
      <4> QED
        BY <4>1, <4>2, <4>3
    <3>2. Concluded' = Concluded
      BY DEF Concluded
    <3>3. (\/ client.chunk_in = ServerChunkSize
           \/ to_client # << >> /\ to_client[1] = NewSize
           \/ to_client = << >> /\ ~Serving)'
      BY <1>1, <2>1 DEF ConnectQueue, Serving
    <3> QED
      BY <1>1, <3>1, <3>2, <3>3 DEF ConnectQueue
  <2> QED
    BY <2>1 DEF Connecting, BeforeConnected
<1>5. AfterConnect' /\ Creating'
  BY <1>1 DEF AfterConnect, Creating, BeforeConnected, BeforeStream
<1>6. Pulling'
  <2>1. ASSUME PlayQueue, ended_by = "stream_end" => ended_by' = "stream_end"
        PROVE  PlayQueue'
    <3>1. \A i \in 1 .. n : \/ \E m \in PlayAnswers : to_client'[i] = From(m)
                            \/ ended_by' = "stream_end" /\ \E m \in Ends : to_client'[i] = From(m)
      BY <1>8, <2>1 DEF PlayQueue
    <3> QED
      BY <1>1, <3>1 DEF PlayQueue
  <2>2. PlayRequested => PlayRequested'
    BY <1>1 DEF PlayRequested
  <2>3. to_server = << >> /\ WillStart => WillStart'
    BY <1>1 DEF WillStart, Eof
  <2>4. to_server = << >> /\ Eof(0) => Eof(0)'
    BY <1>1 DEF Eof
  <2>5. ToldOf => ToldOf'
    BY DEF ToldOf
  <2> QED
    BY <1>1, <2>1, <2>2, <2>3, <2>4, <2>5 DEF Pulling, Plays, Puller, PlayRequested, Playing
<1>7. Publishing'
  <2>1. PublishRequested => PublishRequested'
    BY <1>1, <1>8 DEF PublishRequested
  <2>2. (\A i \in 1 .. Len(to_client) : \E m \in PublishAnswers : to_client[i] = From(m)) =>
            \A i \in 1 .. n : \E m \in PublishAnswers : to_client'[i] = From(m)
    BY <1>8
  <2> QED
    BY <1>1, <2>1, <2>2 DEF Publishing, Publishes, Puller, Serving
<1> QED
  BY <1>2, <1>3, <1>4, <1>5, <1>6, <1>7

----------------------------------------------------------------------------
(* The steps of the server and of the rest.                                *)

(* Another session, the cleanup task, the clock.                           *)
LEMMA ElsewhereStep == IInv /\ Elsewhere => IInv'
<1> SUFFICES ASSUME IInv, Elsewhere
             PROVE  IInv'
  OBVIOUS
<1>1. ServerInv /\ ProtocolInv /\ UNCHANGED Protocol
  BY DEF IInv, Elsewhere, Protocol
<1>2. /\ phase \in [Session -> Server!Phase] /\ publishing_to \in [Session -> Key \cup {NoKey}]
      /\ frame_rx \in [Session -> Nat] /\ taken \in [Session -> Nat]
  BY <1>1 DEF ServerInv, ServerTyped
<1>3. server.playback = None => frame_rx[Me] = 0 /\ taken[Me] = 0
  BY <1>1 DEF ProtocolInv, Playing
<1>4. ASSUME ServerInv', phase'[Me] = phase[Me], publishing_to'[Me] = publishing_to[Me],
             frame_rx'[Me] = frame_rx[Me], taken'[Me] = taken[Me]
      PROVE  IInv'
  <2>1. (Before' <=> Before) /\ (Serving' <=> Serving)
    BY <1>4 DEF Before, Serving
  <2> QED
    BY <1>1, <1>3, <1>4, <2>1, QuietStep DEF IInv
<1>5. ASSUME ServerInv', NEW p, NEW q, Goes(Other, p, q)
      PROVE  IInv'
  <2>1. phase'[Me] = phase[Me]
    BY <1>2, <1>5, MeAndOther DEF Goes
  <2> QED
    BY <1>4, <1>5, <2>1 DEF Goes
<1>6. CASE Server!Open(Other) \/ Server!Serve(Other) \/ Server!LoopEnds(Other)
  BY <1>1, <1>5, <1>6, Moves, MeAndOther
<1>7. ASSUME NEW k \in Key, Server!Publish(Other, MaxStreams + 1, k)
      PROVE  IInv'
  <2>1. /\ ServerInv' /\ publishing_to' = [publishing_to EXCEPT ![Other] = k]
        /\ UNCHANGED << phase, frame_rx, taken, next_stream_id >>
    BY <1>1, <1>7, PublishKeeps
  <2>2. publishing_to'[Me] = publishing_to[Me]
    BY <1>2, <2>1, MeAndOther
  <2> QED
    BY <1>4, <2>1, <2>2
<1>8. CASE Server!Closing(Other)
  <2>1. CASE Server!UnregisterOnDisconnect(Other) \/ Server!UnsubscribeOnDisconnect(Other)
    BY <1>1, <1>5, <2>1, Moves, MeAndOther
  <2>2. CASE Server!Leave(Other)
    <3>1. /\ ServerInv' /\ phase' = [phase EXCEPT ![Other] = "closed"]
          /\ publishing_to' = publishing_to
          /\ frame_rx' = [frame_rx EXCEPT ![Other] = 0] /\ taken' = [taken EXCEPT ![Other] = 0]
      BY <1>1, <2>2, LeaveKeeps, MeAndOther
    <3> QED
      BY <1>2, <1>4, <3>1, MeAndOther
  <2> QED
    BY <1>8, <2>1, <2>2 DEF Server!Closing
<1>9. CASE Server!CleanupTask \/ Server!ClockTick
  <2>1. ServerInv' /\ StaysAt
    BY <1>1, <1>9, BackgroundKeeps
  <2> QED
    BY <1>4, <2>1 DEF StaysAt
<1> QED
  BY <1>6, <1>7, <1>8, <1>9 DEF Elsewhere

(* The handshake begins.                                                   *)
LEMMA ServerOpensStep == IInv /\ ServerOpens => IInv'
<1> SUFFICES ASSUME IInv, ServerOpens
             PROVE  IInv'
  OBVIOUS
<1>1. ServerInv /\ ProtocolInv /\ UNCHANGED Protocol
  BY DEF IInv, ServerOpens, Protocol
<1>2. Goes(Me, "waiting", "opening") /\ ServerInv'
  BY <1>1, Moves, MeAndOther DEF ServerOpens
<1>3. phase[Me] = "waiting" /\ phase'[Me] = "opening"
  BY <1>1, <1>2, MeAndOther DEF Goes, ServerInv, ServerTyped
<1>4. (Before' <=> Before) /\ (Serving' <=> Serving)
  BY <1>3 DEF Before, Serving
<1>5. server.playback = None => frame_rx'[Me] = 0 /\ taken'[Me] = 0
  BY <1>1, <1>2 DEF ProtocolInv, Playing, Goes
<1> QED
  BY <1>1, <1>2, <1>3, <1>4, <1>5, QuietStep DEF IInv, Goes

(* The next turn of the loop.                                              *)
LEMMA ServerTurnsStep == IInv /\ ServerTurns => IInv'
<1> SUFFICES ASSUME IInv, ServerTurns
             PROVE  IInv'
  OBVIOUS
<1>1. ServerInv /\ ProtocolInv /\ UNCHANGED Protocol
  BY DEF IInv, ServerTurns, Protocol
<1>2. ServerInv' /\ frame_rx[Me] # 0 /\ UNCHANGED << phase, publishing_to, next_stream_id >>
  BY <1>1, TurnKeeps DEF ServerTurns
<1>3. server.playback # None
  BY <1>1, <1>2 DEF ProtocolInv, Playing
<1>4. (Before' <=> Before) /\ (Serving' <=> Serving)
  BY <1>2 DEF Before, Serving
<1> QED
  BY <1>1, <1>2, <1>3, <1>4, QuietStep DEF IInv

(* The loop has ended, or was never entered.                               *)
LEMMA EndsStep ==
    ASSUME IInv, ServerInv', UNCHANGED << config, client, server, to_server, to_client, events >>,
           NEW p, NEW q, Goes(Me, p, q), p # "closed",
           q \notin {"waiting", "opening", "serving"},
           ended_by' = "stream_end" <=> ended_by = "stream_end"
    PROVE  IInv'
<1>1. ServerInv /\ ProtocolInv /\ Typed
  BY DEF IInv, ProtocolInv
<1>2. /\ phase[Me] = p /\ phase'[Me] = q
      /\ frame_rx'[Me] = frame_rx[Me] /\ taken'[Me] = taken[Me]
  BY <1>1, MeAndOther DEF Goes, ServerInv, ServerTyped
<1>3. to_client \in Seq(Chunks) /\ to_client' = to_client
  BY <1>1 DEF Typed
<1>4. Len(to_client) \in Nat /\ Len(to_client) <= Len(to_client)
  BY <1>3
<1>5. to_client' = SubSeq(to_client, 1, Len(to_client))
  BY <1>3, SubSeqFull
<1> QED
  BY <1>1, <1>2, <1>4, <1>5, EndingStep DEF IInv

(* The loop ends for a reason of its own, the handshake fails, the cleanup *)
(* runs.                                                                   *)
LEMMA ServerEndsSteps ==
    IInv /\ (ServerOpenFails \/ ServerIdles \/ PeerCloses \/ TooSlow \/ ServerCleansUp) => IInv'
<1> SUFFICES ASSUME IInv
             PROVE  /\ ServerOpenFails => IInv'
                    /\ ServerIdles \/ PeerCloses \/ TooSlow => IInv'
                    /\ ServerCleansUp => IInv'
  OBVIOUS
<1>1. ServerInv /\ (Before \/ Serving => ended_by # "stream_end")
  BY DEF IInv, ProtocolInv, Playing
<1>2. ASSUME ServerOpenFails
      PROVE  IInv'
  <2>1. Goes(Me, "opening", "closed") /\ ServerInv'
    BY <1>1, <1>2, Moves, MeAndOther DEF ServerOpenFails
  <2>2. ended_by # "stream_end" /\ ended_by' # "stream_end"
    BY <1>1, <1>2, <2>1 DEF Before, Goes, ServerOpenFails
  <2> QED
    BY <1>2, <2>1, <2>2, EndsStep DEF ServerOpenFails, KeepServer
<1>3. ASSUME NEW why \in {"idle", "peer_closed", "too_slow"}, ServerEnds(why)
      PROVE  IInv'
  <2>1. Goes(Me, "serving", "unregistering") /\ ServerInv'
    BY <1>1, <1>3, Moves, MeAndOther DEF ServerEnds
  <2>2. ended_by # "stream_end" /\ ended_by' # "stream_end"
    BY <1>1, <1>3, <2>1 DEF Serving, Goes, ServerEnds
  <2> QED
    BY <1>3, <2>1, <2>2, EndsStep DEF ServerEnds, KeepServer
<1>4. ServerIdles \/ PeerCloses \/ TooSlow => IInv'
  BY <1>3 DEF ServerIdles, PeerCloses, TooSlow
<1>5. ASSUME ServerCleansUp
      PROVE  IInv'
  <2>1. UNCHANGED << config, client, server, to_server, to_client, events, ended_by >>
    BY <1>5 DEF ServerCleansUp
  <2>2. ServerInv' /\ \E p \in {"unregistering", "unsubscribing"}, q \in {"unsubscribing", "leaving"} :
                          Goes(Me, p, q)
    BY <1>1, <1>5, Moves, MeAndOther DEF ServerCleansUp
  <2> QED
    BY <2>1, <2>2, EndsStep
<1> QED
  BY <1>2, <1>4, <1>5

(* The socket is closed; of what was sent, a prefix arrives.               *)
LEMMA ServerLeavesStep == IInv /\ ServerLeaves => IInv'
<1> SUFFICES ASSUME IInv, ServerLeaves
             PROVE  IInv'
  OBVIOUS
<1>1. ServerInv /\ ProtocolInv /\ Typed
  BY DEF IInv, ProtocolInv
<1>2. /\ ServerInv'
      /\ phase[Me] = "leaving" /\ phase' = [phase EXCEPT ![Me] = "closed"]
      /\ frame_rx' = [frame_rx EXCEPT ![Me] = 0] /\ taken' = [taken EXCEPT ![Me] = 0]
  BY <1>1, LeaveKeeps, MeAndOther DEF ServerLeaves
<1>3. phase'[Me] = "closed" /\ frame_rx'[Me] = 0 /\ taken'[Me] = 0
  BY <1>1, <1>2, MeAndOther DEF ServerInv, ServerTyped
<1>4. Len(to_client) \in Nat
  <2>1. to_client \in Seq(Chunks)
    BY <1>1 DEF Typed
  <2> QED
    BY <2>1
<1>5. PICK n \in (IF to_server = << >> THEN {Len(to_client)} ELSE 0 .. Len(to_client)) :
          to_client' = SubSeq(to_client, 1, n)
  BY DEF ServerLeaves
<1>6. n \in Nat /\ n <= Len(to_client) /\ (to_server = << >> => n = Len(to_client))
  BY <1>4, <1>5
<1>7. UNCHANGED << config, client, server, to_server, events, ended_by >>
  BY DEF ServerLeaves
<1> QED
  BY <1>1, <1>2, <1>3, <1>5, <1>6, <1>7, EndingStep DEF IInv

(* What the queues are said to hold is among what the server sends.        *)
LEMMA AllAreSent ==
    /\ ConnectAnswers \cup PlayAnswers \cup Ends \cup PublishAnswers \subseteq ServerMessages
    /\ \A c \in Configurations : ConnectResult(1, Deal(c)) \in ServerMessages
    /\ \A id \in 1 .. MaxStreams : CreateStreamResult(2, id) \in ServerMessages
    /\ ChunkSize(ServerChunkSize) \in ServerMessages
<1>1. ConnectAnswers \cup PlayAnswers \cup Ends \cup PublishAnswers \subseteq ServerMessages
  BY DEF ConnectAnswers, PlayAnswers, Ends, PublishAnswers, Start, Announced, ServerMessages
<1>2. \A c \in Configurations : ConnectResult(1, Deal(c)) \in ServerMessages
  BY DEF Deal, Params, ServerMessages
<1>3. /\ \A id \in 1 .. MaxStreams : CreateStreamResult(2, id) \in ServerMessages
      /\ ChunkSize(ServerChunkSize) \in ServerMessages
  BY DEF ServerMessages
<1> QED
  BY <1>1, <1>2, <1>3

(* A queue after something has been appended to it.                        *)
LEMMA Appends ==
    ASSUME to_client \in Seq(Chunks), server.chunk_out = ServerChunkSize,
           NEW messages \in Seq(ServerMessages), to_client' = Answer(messages)
    PROVE  /\ to_client' \in Seq(Chunks) /\ Len(to_client) \in Nat /\ Len(messages) \in Nat
           /\ Len(to_client') = Len(to_client) + Len(messages)
           /\ \A i \in 1 .. Len(to_client') :
                  \/ i \in 1 .. Len(to_client) /\ to_client'[i] = to_client[i]
                  \/ \E j \in 1 .. Len(messages) :
                         i = Len(to_client) + j /\ to_client'[i] = From(messages[j])
           /\ \A i \in 1 .. Len(to_client) :
                  i \in 1 .. Len(to_client') /\ to_client'[i] = to_client[i]
           /\ \A j \in 1 .. Len(messages) :
                  /\ Len(to_client) + j \in 1 .. Len(to_client')
                  /\ to_client'[Len(to_client) + j] = From(messages[j])
<1>1. /\ to_client' \in Seq(Chunks)
      /\ Len(to_client') = Len(to_client) + Len(messages)
      /\ \A i \in 1 .. Len(to_client) : to_client'[i] = to_client[i]
      /\ \A i \in 1 .. Len(messages) : to_client'[Len(to_client) + i] = From(messages[i])
  BY AnswerFacts DEF Chunks
<1>2. Len(to_client) \in Nat /\ Len(messages) \in Nat
  OBVIOUS
<1>3. ASSUME NEW i \in 1 .. Len(to_client')
      PROVE  \/ i \in 1 .. Len(to_client) /\ to_client'[i] = to_client[i]
             \/ \E j \in 1 .. Len(messages) :
                    i = Len(to_client) + j /\ to_client'[i] = From(messages[j])
  <2>1. CASE i <= Len(to_client)
    BY <1>1, <1>2, <1>3, <2>1
  <2>2. CASE i > Len(to_client)
    <3>1. i - Len(to_client) \in 1 .. Len(messages) /\ i = Len(to_client) + (i - Len(to_client))
      BY <1>1, <1>2, <1>3, <2>2
    <3> QED
      BY <1>1, <3>1
  <2> QED
    BY <1>1, <1>2, <1>3, <2>1, <2>2
<1>4. \A i \in 1 .. Len(to_client) : i \in 1 .. Len(to_client')
  BY <1>1, <1>2
<1>5. \A j \in 1 .. Len(messages) : Len(to_client) + j \in 1 .. Len(to_client')
  BY <1>1, <1>2
<1> QED
  BY <1>1, <1>2, <1>3, <1>4, <1>5

(* The chunk size is announced before anything is said.                    *)
LEMMA ServerServesStep == IInv /\ ServerServes => IInv'
<1> SUFFICES ASSUME IInv, ServerServes
             PROVE  IInv'
  OBVIOUS
<1>1. ServerInv /\ ProtocolInv /\ Typed /\ Beginning /\ Playing /\ Connecting
  BY DEF IInv, ProtocolInv
<1>2. /\ client.at = "connecting" /\ Server!Serve(Me)
      /\ to_client' = Answer(<< ChunkSize(ServerChunkSize) >>)
      /\ server' = [server EXCEPT !.chunk_out = ServerChunkSize]
      /\ UNCHANGED << config, client, to_server, events, ended_by >>
  BY DEF ServerServes, KeepServer
<1>3. Goes(Me, "opening", "serving")
  BY <1>1, <1>2, Moves, MeAndOther
<1>4. /\ phase[Me] = "opening" /\ phase'[Me] = "serving"
      /\ publishing_to'[Me] = publishing_to[Me]
      /\ frame_rx'[Me] = frame_rx[Me] /\ taken'[Me] = taken[Me]
  BY <1>1, <1>3, MeAndOther DEF Goes, ServerInv, ServerTyped
<1>5. /\ publishing_to[Me] = NoKey /\ server.playback = None /\ to_client = << >>
      /\ server.chunk_out = DefaultChunkSize /\ events = << >> /\ client.stream_id = 0
  BY <1>1, <1>4 DEF Beginning, Before, BeforeConnected
<1>6. ServerInv'
  <2>1. publishing_to[Me] # The
    BY <1>5, MeAndOther, ClientServerAssumption
  <2> QED
    BY <1>1, <1>2, <2>1, Moves, MeAndOther
<1>7. /\ server' = [app |-> server.app, caps |-> server.caps, playback |-> None,
                    chunk_in |-> server.chunk_in, chunk_out |-> ServerChunkSize]
      /\ server.app \in {"", App} /\ server.caps \in {None, Deal(config)}
      /\ server.chunk_in \in {DefaultChunkSize, ClientChunkSize}
  BY <1>1, <1>2, <1>5 DEF Typed
<1>8. to_client' = << NewSize >>
  <2> DEFINE e == Chunk(ChunkSize(ServerChunkSize), 0, DefaultChunkSize)
             messages == << ChunkSize(ServerChunkSize) >>
             chunk(i) == Chunk(messages[i], IF messages[i][1] = "Command"
                                            THEN messages[i][2].stream_id ELSE 0, server.chunk_out)
  <2>1. chunk(1) = e
    BY <1>5 DEF ChunkSize
  <2>2. to_client' = << >> \o [i \in DOMAIN messages |-> chunk(i)]
    BY <1>2, <1>5 DEF Answer
  <2>3. DOMAIN messages = 1 .. 1
    OBVIOUS
  <2> HIDE DEF messages, chunk
  <2>4. [i \in DOMAIN messages |-> chunk(i)] = << chunk(1) >>
    BY <2>3
  <2> QED
    BY <2>1, <2>2, <2>4 DEF NewSize
<1>9. Typed'
  <2>1. << NewSize >> \in Seq(Chunks)
    BY DEF Chunks
  <2> QED
    BY <1>1, <1>2, <1>7, <1>8, <2>1 DEF Typed
<1>10. Beginning' /\ Playing'
  BY <1>1, <1>2, <1>4, <1>5, <1>7
     DEF Beginning, Playing, Before, Serving, BeforeConnected, BeforeStream, Plays, Publishes
<1>11. Connecting'
  <2>1. Len(to_client') = 1 /\ to_client'[1] = NewSize /\ to_client' # << >>
    BY <1>8
  <2>2. ConnectQueue'
    BY <2>1 DEF ConnectQueue
  <2>3. server'.app = server.app /\ server'.caps = server.caps /\ server'.chunk_in = server.chunk_in
    BY <1>7
  <2> QED
    BY <1>1, <1>2, <1>5, <2>2, <2>3 DEF Connecting, BeforeConnected
<1>12. AfterConnect' /\ Creating' /\ Pulling' /\ Publishing'
  BY <1>2, <1>5 DEF AfterConnect, Creating, Pulling, Publishing, BeforeConnected, BeforeStream, Plays,
                    Publishes
<1> QED
  BY <1>6, <1>9, <1>10, <1>11, <1>12 DEF IInv, ProtocolInv

(* A step of the server while it serves a client that plays.               *)
LEMMA PullingStep ==
    ASSUME ProtocolInv, Plays, Serving, ~Before',
           UNCHANGED << config, client, events >>,
           server' = server \/ server' = [server EXCEPT !.playback = {0}],
           to_client' \in Seq(Chunks),
           server'.playback = None => frame_rx'[Me] = 0 /\ taken'[Me] = 0,
           ended_by' = ended_by \/ ~Serving',
           ended_by' = "stream_end" => server.playback # None,
           PlayRequested' \/ to_server' = << >>,
           \A i \in 1 .. Len(to_client') :
               \/ i \in 1 .. Len(to_client) /\ to_client'[i] = to_client[i]
               \/ \E m \in PlayAnswers : to_client'[i] = From(m)
               \/ ended_by' = "stream_end" /\ \E m \in Ends : to_client'[i] = From(m),
           client.at = "playing" /\ server'.playback # None => WillStart',
           ended_by' = "stream_end" => Eof(0)'
    PROVE  ProtocolInv'
<1>1. Typed /\ Beginning /\ Playing /\ Connecting /\ AfterConnect /\ Creating /\ Pulling
  BY DEF ProtocolInv
<1>2. /\ server' \in [app : {"", App}, caps : {None, Deal(config)}, playback : {None, {0}},
                      chunk_in : {DefaultChunkSize, ClientChunkSize},
                      chunk_out : {DefaultChunkSize, ServerChunkSize}]
      /\ server'.app = server.app /\ server'.caps = server.caps
      /\ server'.chunk_in = server.chunk_in /\ server'.chunk_out = server.chunk_out
      /\ server'.playback = server.playback \/ server'.playback = {0}
  BY <1>1 DEF Typed
<1>3. client.stream_id # 0 /\ config.role = "puller" /\ phase[Me] = "serving"
  BY DEF Plays, Puller, Serving
<1>4. ended_by # "stream_end"
  BY <1>1 DEF Playing
<1>5. Typed'
  BY <1>1, <1>2 DEF Typed
<1>6. Beginning'
  BY <1>1, <1>2, <1>3 DEF Beginning, BeforeConnected, BeforeStream, Plays, Publishes, Puller
<1>7. Playing'
  BY <1>1, <1>2, <1>4 DEF Playing, Plays, Puller, None
<1>8. Connecting' /\ Creating' /\ Publishing'
  BY <1>3 DEF Connecting, Creating, Publishing, BeforeConnected, BeforeStream, Publishes, Puller
<1>9. AfterConnect'
  BY <1>1, <1>2 DEF AfterConnect, BeforeConnected
<1>10. Pulling'
  <2>1. client.at # "done" => PlayQueue'
    <3>1. ASSUME NEW i \in 1 .. Len(to_client'), PlayQueue
          PROVE  \/ \E m \in PlayAnswers : to_client'[i] = From(m)
                 \/ ended_by' = "stream_end" /\ \E m \in Ends : to_client'[i] = From(m)
      BY <1>4, <3>1 DEF PlayQueue
    <3> QED
      BY <1>1, <3>1 DEF Pulling, PlayQueue
  <2>2. client.at = "done" => ToldOf'
    BY <1>1, <1>3, <1>4 DEF Pulling, ToldOf
  <2> QED
    BY <1>1, <1>2, <2>1, <2>2 DEF Pulling, Plays, Puller
<1> QED
  BY <1>5, <1>6, <1>7, <1>8, <1>9, <1>10 DEF ProtocolInv
(* What is said to a client that plays.                                    *)
LEMMA ServerBroadcastsStep == IInv /\ ServerBroadcasts => IInv'
<1> SUFFICES ASSUME IInv, ServerBroadcasts
             PROVE  IInv'
  OBVIOUS
<1>1. ServerInv /\ ProtocolInv /\ Typed /\ Beginning /\ Playing /\ Pulling
  BY DEF IInv, ProtocolInv
<1>2. /\ Serving /\ taken[Me] # 0
      /\ to_client' = Append(to_client, Chunk(Sound, Or(server.playback, 1), server.chunk_out))
      /\ UNCHANGED << serverVars, config, client, server, to_server, events, ended_by >>
  BY DEF ServerBroadcasts, Server!NoChan
<1>3. UNCHANGED << streams, nextChan, phase, publishing_to, frame_rx, taken, next_stream_id >>
  BY <1>2 DEF serverVars
<1>4. ServerInv'
  BY <1>1, <1>3 DEF ServerInv, ServerTyped, Held
<1>5. server.playback # None /\ Plays /\ server.chunk_out = ServerChunkSize
  BY <1>1, <1>2 DEF Playing, Beginning
<1>6. server.playback = {0}
  BY <1>1, <1>5 DEF Typed
<1>7. to_client' = Append(to_client, From(Sound))
  BY <1>2, <1>5, <1>6, OrFacts DEF From
<1>8. to_client \in Seq(Chunks) /\ From(Sound) \in Chunks
  BY <1>1, AllAreSent DEF Typed, Chunks, PlayAnswers
<1>9. /\ to_client' \in Seq(Chunks)
      /\ \A i \in 1 .. Len(to_client') :
             \/ i \in 1 .. Len(to_client) /\ to_client'[i] = to_client[i]
             \/ to_client'[i] = From(Sound)
      /\ \A i \in 1 .. Len(to_client) :
             i \in 1 .. Len(to_client') /\ to_client'[i] = to_client[i]
  <2> HIDE DEF Chunks, From
  <2> QED
    BY <1>7, <1>8
<1>10. WillStart /\ ended_by # "stream_end" => WillStart'
  BY <1>2, <1>9 DEF WillStart
<1>11. to_server = << >>
  BY <1>1, <1>5 DEF Pulling, PlayRequested
<1>12. \A i \in 1 .. Len(to_client') :
               \/ i \in 1 .. Len(to_client) /\ to_client'[i] = to_client[i]
               \/ \E m \in PlayAnswers : to_client'[i] = From(m)
               \/ ended_by' = "stream_end" /\ \E m \in Ends : to_client'[i] = From(m)
  BY <1>9 DEF PlayAnswers
<1>13. ~Before' /\ ended_by # "stream_end"
  BY <1>1, <1>2, <1>3 DEF Before, Serving, Playing
<1>14. client.at = "playing" => WillStart'
  BY <1>1, <1>5, <1>10, <1>13 DEF Pulling
<1>15. ProtocolInv'
  BY <1>1, <1>2, <1>5, <1>9, <1>11, <1>12, <1>13, <1>14, PullingStep
<1> QED
  BY <1>4, <1>15 DEF IInv

(* The channel has closed: StreamEof and Play.Stop to one who plays.       *)
LEMMA ServerStreamEndsStep == IInv /\ ServerStreamEnds => IInv'
<1> SUFFICES ASSUME IInv, ServerStreamEnds
             PROVE  IInv'
  OBVIOUS
<1>1. ServerInv /\ ProtocolInv /\ Typed /\ Beginning /\ Playing /\ Pulling
  BY DEF IInv, ProtocolInv
<1>2. /\ Server!StreamEnded(Me) /\ ended_by' = "stream_end"
      /\ UNCHANGED << config, client, server, to_server, events >>
      /\ to_client' = Answer(IF server.playback = None THEN << >>
                             ELSE << StreamEof(Or(server.playback, 0)),
                                     Status(Or(server.playback, 0), "NetStream.Play.Stop") >>)
  BY DEF ServerStreamEnds, KeepServer
<1>3. ServerInv' /\ Goes(Me, "serving", "unregistering") /\ taken[Me] # 0
  BY <1>1, <1>2, Moves, MeAndOther
<1>4. Serving /\ phase'[Me] = "unregistering"
  BY <1>1, <1>3, MeAndOther DEF Goes, Serving, ServerInv, ServerTyped
<1>5. server.playback # None /\ Plays /\ server.chunk_out = ServerChunkSize
      /\ ended_by # "stream_end"
  BY <1>1, <1>3, <1>4 DEF Playing, Beginning
<1>6. server.playback = {0}
  BY <1>1, <1>5 DEF Typed
<1> DEFINE messages == << StreamEof(0), Status(0, "NetStream.Play.Stop") >>
<1>7. to_client' = Answer(messages)
  BY <1>2, <1>5, <1>6, OrFacts
<1>8. messages \in Seq(ServerMessages)
  <2>1. StreamEof(0) \in ServerMessages /\ Status(0, "NetStream.Play.Stop") \in ServerMessages
    BY AllAreSent DEF Ends
  <2> QED
    BY <2>1
<1>9. Len(messages) = 2 /\ messages[1] = StreamEof(0)
      /\ messages[2] = Status(0, "NetStream.Play.Stop")
  OBVIOUS
<1> HIDE DEF messages
<1>10. to_client \in Seq(Chunks)
  BY <1>1 DEF Typed
<1>11. /\ to_client' \in Seq(Chunks) /\ Len(to_client) \in Nat
       /\ \A i \in 1 .. Len(to_client') :
              \/ i \in 1 .. Len(to_client) /\ to_client'[i] = to_client[i]
              \/ \E j \in 1 .. Len(messages) :
                     i = Len(to_client) + j /\ to_client'[i] = From(messages[j])
       /\ \A i \in 1 .. Len(to_client) :
              i \in 1 .. Len(to_client') /\ to_client'[i] = to_client[i]
       /\ \A j \in 1 .. Len(messages) :
              /\ Len(to_client) + j \in 1 .. Len(to_client')
              /\ to_client'[Len(to_client) + j] = From(messages[j])
  BY <1>5, <1>7, <1>8, <1>10, Appends
<1>12. \A j \in 1 .. Len(messages) : messages[j] \in Ends
  BY <1>9 DEF Ends
<1>13. \A i \in 1 .. Len(to_client') :
           \/ i \in 1 .. Len(to_client) /\ to_client'[i] = to_client[i]
           \/ \E m \in Ends : to_client'[i] = From(m)
  BY <1>11, <1>12
<1>14. /\ Len(to_client) + 1 \in 1 .. Len(to_client')
       /\ to_client'[Len(to_client) + 1] = From(StreamEof(0))
  BY <1>9, <1>11
<1>15. \A i \in 0 .. Len(to_client) : Eof(i)'
  BY <1>11, <1>14 DEF Eof
<1>16. Eof(0)'
  BY <1>11, <1>15
<1>17. WillStart => WillStart'
  <2>1. ASSUME NEW i \in 1 .. Len(to_client), to_client[i] = From(Start)
        PROVE  i \in 1 .. Len(to_client') /\ to_client'[i] = From(Start) /\ Eof(i)'
    BY <1>11, <1>15, <2>1
  <2> QED
    BY <2>1 DEF WillStart
<1>18. to_server = << >>
  BY <1>1, <1>5 DEF Pulling, PlayRequested
<1>19. client.at = "playing" => WillStart'
  BY <1>1, <1>5, <1>17 DEF Pulling
<1>20. ~Before' /\ ~Serving'
  BY <1>4 DEF Before, Serving
<1>21. ProtocolInv'
  BY <1>1, <1>2, <1>4, <1>5, <1>11, <1>13, <1>16, <1>18, <1>19, <1>20, PullingStep
<1> QED
  BY <1>3, <1>21 DEF IInv

(* Heads and tails of short queues.                                        *)
LEMMA Tuples ==
    /\ \A a : Head(<< a >>) = a /\ Tail(<< a >>) = << >>
    /\ \A a, b : Head(<< a, b >>) = a /\ Tail(<< a, b >>) = << b >>
    /\ \A a, b, c : Head(<< a, b, c >>) = a /\ Tail(<< a, b, c >>) = << b, c >>
<1>1. ASSUME NEW a
      PROVE  Head(<< a >>) = a
  OBVIOUS
<1>2. ASSUME NEW a
      PROVE  Tail(<< a >>) = << >>
  OBVIOUS
<1>3. ASSUME NEW a, NEW b
      PROVE  Head(<< a, b >>) = a /\ Tail(<< a, b >>) = << b >>
  OBVIOUS
<1>4. ASSUME NEW a, NEW b, NEW c
      PROVE  Head(<< a, b, c >>) = a /\ Tail(<< a, b, c >>) = << b, c >>
  OBVIOUS
<1> QED
  BY <1>1, <1>2, <1>3, <1>4

(* A step of the server at connect.                                        *)
LEMMA ConnectingStep ==
    ASSUME ProtocolInv, BeforeConnected, Serving, ~Before',
           UNCHANGED << config, client, events >>,
           \/ server' = server
           \/ server' = [server EXCEPT !.app = App, !.caps = Deal(config)],
           to_server' = << >>, to_client' \in Seq(Chunks),
           frame_rx'[Me] = frame_rx[Me], taken'[Me] = taken[Me],
           ended_by' # "stream_end",
           \A i \in 1 .. Len(to_client') :
               \/ i \in 1 .. Len(to_client) /\ to_client'[i] = to_client[i]
               \/ \E m \in ConnectAnswers : to_client'[i] = From(m)
               \/ /\ to_client'[i] = From(ConnectResult(1, Deal(config)))
                  /\ i = Len(to_client') /\ Concluded',
           \A i \in 1 .. Len(to_client) : i \in 1 .. Len(to_client') /\ to_client'[i] = to_client[i],
           to_server # << >>
    PROVE  ProtocolInv'
<1>1. Typed /\ Beginning /\ Playing /\ Connecting
  BY DEF ProtocolInv
<1>2. /\ server' \in [app : {"", App}, caps : {None, Deal(config)}, playback : {None, {0}},
                      chunk_in : {DefaultChunkSize, ClientChunkSize},
                      chunk_out : {DefaultChunkSize, ServerChunkSize}]
      /\ server'.playback = server.playback
      /\ server'.chunk_in = server.chunk_in /\ server'.chunk_out = server.chunk_out
  BY <1>1 DEF Typed
<1>3. events = << >> /\ client.stream_id = 0 /\ phase[Me] = "serving"
  BY DEF BeforeConnected, Serving
<1>4. Typed'
  BY <1>1, <1>2 DEF Typed
<1>5. Beginning'
  BY <1>1, <1>2, <1>3 DEF Beginning, BeforeConnected, BeforeStream, Plays, Publishes, Puller, Serving
<1>6. Playing'
  BY <1>1, <1>2, <1>3 DEF Playing, Plays, Puller
<1>7. ASSUME ConnectQueue
      PROVE  ConnectQueue'
  <2>1. ASSUME NEW i \in 1 .. Len(to_client')
        PROVE  \/ i = 1 /\ to_client'[i] = NewSize
               \/ \E m \in ConnectAnswers : to_client'[i] = From(m)
               \/ /\ to_client'[i] = From(ConnectResult(1, Deal(config)))
                  /\ i = Len(to_client') /\ to_server' = << >> /\ Concluded'
    BY <1>7, <2>1 DEF ConnectQueue
  <2>2. client.chunk_in = ServerChunkSize \/ (to_client # << >> /\ to_client[1] = NewSize)
    BY <1>7 DEF ConnectQueue
  <2>3. to_client # << >> => to_client' # << >> /\ to_client'[1] = to_client[1]
    <3>1. to_client \in Seq(Chunks)
      BY <1>1 DEF Typed
    <3>2. to_client # << >> => 1 \in 1 .. Len(to_client)
      BY <3>1
    <3> QED
      BY <3>2
  <2> QED
    BY <2>1, <2>2, <2>3 DEF ConnectQueue
<1>8. Connecting'
  BY <1>1, <1>2, <1>7 DEF Connecting, BeforeConnected
<1>9. AfterConnect' /\ Creating' /\ Pulling' /\ Publishing'
  BY <1>3 DEF AfterConnect, Creating, Pulling, Publishing, BeforeConnected, BeforeStream, Plays,
              Publishes
<1> QED
  BY <1>4, <1>5, <1>6, <1>8, <1>9 DEF ProtocolInv

(* What a message of the client makes the server do, by the message.       *)
LEMMA ReadsFacts ==
    ASSUME IInv, ServerReads
    PROVE  LET m == Parsed(Head(to_server))
           IN  /\ ServerInv /\ ProtocolInv /\ Serving /\ ~Before
               /\ to_server # << >> /\ to_server' = Tail(to_server)
               /\ UNCHANGED << config, client, events >>
               /\ \/ /\ m[1] = "SetChunkSize"
                     /\ server' = [server EXCEPT !.chunk_in = m[2]]
                     /\ UNCHANGED << serverVars, to_client, ended_by >>
                  \/ /\ m[1] = "UserControl"
                     /\ UNCHANGED << serverVars, server, to_client, ended_by >>
                  \/ m[1] = "Command" /\ HandleCommand(m[2])
                  \/ m[1] = "Audio" /\ HandleAudio
BY DEF IInv, ServerReads, ServerTakes, Serving, Before

(* A handler that returns an error, and one that leaves MediaServer alone. *)
LEMMA EndFacts ==
    ASSUME ServerInv, NEW messages, End(messages)
    PROVE  /\ ServerInv' /\ ~Before' /\ ~Serving'
           /\ to_client' = Answer(messages) /\ server' = server /\ ended_by' = "rejected"
           /\ frame_rx' = frame_rx /\ taken' = taken
<1>1. Server!LoopEnds(Me) /\ to_client' = Answer(messages) /\ ended_by' = "rejected"
      /\ server' = server
  BY DEF End
<1>2. Goes(Me, "serving", "unregistering") /\ ServerInv'
  BY <1>1, Moves, MeAndOther
<1>3. phase'[Me] = "unregistering"
  BY <1>2, MeAndOther DEF Goes, ServerInv, ServerTyped
<1> QED
  BY <1>1, <1>2, <1>3 DEF Goes, Before, Serving

(* Who leaves the variables of MediaServer alone keeps its part.           *)
LEMMA SameServer ==
    ASSUME ServerInv, UNCHANGED serverVars
    PROVE  ServerInv' /\ UNCHANGED << phase, publishing_to, frame_rx, taken >>
BY DEF ServerInv, ServerTyped, Held, serverVars

(* Before Connected, the server reads connect or nothing.                  *)
LEMMA ReadsConnectStep == IInv /\ ServerReads /\ BeforeConnected => IInv'
<1> SUFFICES ASSUME IInv, ServerReads, BeforeConnected
             PROVE  IInv'
  OBVIOUS
<1> DEFINE m == Parsed(Head(to_server))
<1>1. /\ ServerInv /\ ProtocolInv /\ Serving /\ ~Before
      /\ to_server # << >> /\ to_server' = Tail(to_server)
      /\ UNCHANGED << config, client, events >>
  BY ReadsFacts
<1>2. Typed /\ Beginning /\ Playing /\ Connecting
  BY <1>1 DEF ProtocolInv
<1>3. to_server = << Asked(config) >> /\ server.app = "" /\ server.caps = None
  BY <1>1, <1>2 DEF Connecting
<1>4. Head(to_server) = Asked(config) /\ Tail(to_server) = << >>
  BY <1>3, Tuples
<1>5. config \in Configurations
  BY <1>2 DEF Typed
<1>6. /\ m[1] = "Command" /\ m[2].name = "connect" /\ m[2].transaction_id = 1
      /\ m[2].command_object = ConnectObject(config)
  BY <1>4, <1>5, RequestsArrive
<1>7. HandleCommand(m[2])
  BY <1>6, ReadsFacts
<1> HIDE DEF m
<1>8. HandleConnect(m[2])
  BY <1>6, <1>7 DEF HandleCommand
<1>9. ConnectParams(m[2].command_object) = Params(config) /\ Params(config).app = App
  BY <1>5, <1>6, ConnectRead DEF Params
<1>10. \/ Refused(config, Params(config)) /\ End(<< >>)
       \/ ~Refused(config, Params(config)) /\ End(<< ConnectError(1) >>)
       \/ /\ ~Refused(config, Params(config))
          /\ server' = [server EXCEPT !.app = App,
                                      !.caps = IF Deal(config) = None THEN @ ELSE Deal(config)]
          /\ to_client' = Answer(<< WindowAckSize, PeerBandwidth, StreamBegin(0),
                                    ConnectResult(1, Deal(config)) >>)
          /\ UNCHANGED ended_by /\ UNCHANGED serverVars
  BY <1>6, <1>8, <1>9 DEF HandleConnect, GoOn, Deal
<1>11. to_client \in Seq(Chunks) /\ server.chunk_out = ServerChunkSize
  BY <1>1, <1>2 DEF Typed, Beginning
<1>12. ASSUME NEW messages, messages \in Seq(ConnectAnswers), End(messages)
       PROVE  IInv'
  <2>1. /\ ServerInv' /\ ~Before' /\ to_client' = Answer(messages) /\ server' = server
        /\ ended_by' = "rejected" /\ frame_rx' = frame_rx /\ taken' = taken
    BY <1>1, <1>12, EndFacts
  <2>2. messages \in Seq(ServerMessages)
    BY <1>12, AllAreSent
  <2>3. \A j \in 1 .. Len(messages) : messages[j] \in ConnectAnswers
    BY <1>12
  <2>4. /\ to_client' \in Seq(Chunks)
        /\ \A i \in 1 .. Len(to_client') :
               \/ i \in 1 .. Len(to_client) /\ to_client'[i] = to_client[i]
               \/ \E j \in 1 .. Len(messages) :
                      i = Len(to_client) + j /\ to_client'[i] = From(messages[j])
        /\ \A i \in 1 .. Len(to_client) : i \in 1 .. Len(to_client') /\ to_client'[i] = to_client[i]
    BY <1>11, <2>1, <2>2, Appends
  <2>5. \A i \in 1 .. Len(to_client') :
               \/ i \in 1 .. Len(to_client) /\ to_client'[i] = to_client[i]
               \/ \E a \in ConnectAnswers : to_client'[i] = From(a)
    BY <2>3, <2>4
  <2>6. ProtocolInv'
    BY <1>1, <1>4, <2>1, <2>4, <2>5, ConnectingStep
  <2> QED
    BY <2>1, <2>6 DEF IInv
<1>13. CASE End(<< >>) \/ End(<< ConnectError(1) >>)
  <2>1. << >> \in Seq(ConnectAnswers) /\ << ConnectError(1) >> \in Seq(ConnectAnswers)
    BY DEF ConnectAnswers
  <2> QED
    BY <1>12, <1>13, <2>1
<1>14. CASE /\ ~Refused(config, Params(config))
            /\ server' = [server EXCEPT !.app = App,
                                        !.caps = IF Deal(config) = None THEN @ ELSE Deal(config)]
            /\ to_client' = Answer(<< WindowAckSize, PeerBandwidth, StreamBegin(0),
                                      ConnectResult(1, Deal(config)) >>)
            /\ UNCHANGED ended_by /\ UNCHANGED serverVars
  <2> DEFINE result == ConnectResult(1, Deal(config))
             messages == << WindowAckSize, PeerBandwidth, StreamBegin(0), result >>
  <2>1. server' = [server EXCEPT !.app = App, !.caps = Deal(config)]
    BY <1>2, <1>3, <1>14 DEF Typed
  <2>2. server'.app = App /\ server'.caps = Deal(config)
    BY <1>2, <2>1 DEF Typed
  <2>3. Concluded'
    BY <1>1, <1>14, <2>2 DEF Concluded
  <2>4. ServerInv' /\ UNCHANGED << phase, publishing_to, frame_rx, taken >>
    BY <1>1, <1>14, SameServer
  <2>5. messages \in Seq(ServerMessages)
    <3>1. /\ WindowAckSize \in ServerMessages /\ PeerBandwidth \in ServerMessages
          /\ StreamBegin(0) \in ServerMessages /\ result \in ServerMessages
      BY <1>5, AllAreSent DEF ConnectAnswers
    <3> HIDE DEF result
    <3> QED
      BY <3>1
  <2>6. /\ Len(messages) = 4 /\ messages[1] = WindowAckSize /\ messages[2] = PeerBandwidth
        /\ messages[3] = StreamBegin(0) /\ messages[4] = result
    OBVIOUS
  <2>7. to_client' = Answer(messages)
    BY <1>14
  <2> HIDE DEF messages, result
  <2>8. /\ to_client' \in Seq(Chunks) /\ Len(to_client') = Len(to_client) + Len(messages)
        /\ \A i \in 1 .. Len(to_client') :
               \/ i \in 1 .. Len(to_client) /\ to_client'[i] = to_client[i]
               \/ \E j \in 1 .. Len(messages) :
                      i = Len(to_client) + j /\ to_client'[i] = From(messages[j])
        /\ \A i \in 1 .. Len(to_client) : i \in 1 .. Len(to_client') /\ to_client'[i] = to_client[i]
    BY <1>11, <2>5, <2>7, Appends
  <2>9. \A j \in 1 .. Len(messages) : messages[j] \in ConnectAnswers \/ j = 4
    BY <2>6 DEF ConnectAnswers
  <2>10. \A i \in 1 .. Len(to_client') :
               \/ i \in 1 .. Len(to_client) /\ to_client'[i] = to_client[i]
               \/ \E a \in ConnectAnswers : to_client'[i] = From(a)
               \/ to_client'[i] = From(result) /\ i = Len(to_client')
    <3>1. ASSUME NEW i \in 1 .. Len(to_client'), NEW j \in 1 .. Len(messages),
                 i = Len(to_client) + j, to_client'[i] = From(messages[j])
          PROVE  \/ \E a \in ConnectAnswers : to_client'[i] = From(a)
                 \/ to_client'[i] = From(result) /\ i = Len(to_client')
      BY <2>6, <2>8, <2>9, <3>1
    <3> QED
      BY <2>8, <3>1
  <2>11. ~Before' /\ ended_by' # "stream_end"
    BY <1>1, <1>2, <1>14, <2>4 DEF Before, Serving, Playing
  <2>12. \A i \in 1 .. Len(to_client') :
               \/ i \in 1 .. Len(to_client) /\ to_client'[i] = to_client[i]
               \/ \E a \in ConnectAnswers : to_client'[i] = From(a)
               \/ /\ to_client'[i] = From(ConnectResult(1, Deal(config)))
                  /\ i = Len(to_client') /\ Concluded'
    BY <2>3, <2>10 DEF result
  <2>13. ProtocolInv'
    BY <1>1, <1>4, <2>1, <2>4, <2>8, <2>11, <2>12, ConnectingStep
  <2> QED
    BY <2>4, <2>13 DEF IInv
<1> QED
  BY <1>10, <1>13, <1>14

(* A queue of one.                                                         *)
LEMMA Single ==
    ASSUME NEW S, NEW s \in Seq(S), Len(s) = 1
    PROVE  s = << s[1] >>
OBVIOUS

(* Before there is a message stream, it reads a chunk size, then           *)
(* createStream.                                                           *)
LEMMA ReadsCreateStep == IInv /\ ServerReads /\ BeforeStream => IInv'
<1> SUFFICES ASSUME IInv, ServerReads, BeforeStream
             PROVE  IInv'
  OBVIOUS
<1> DEFINE m == Parsed(Head(to_server))
<1>1. /\ ServerInv /\ ProtocolInv /\ Serving /\ ~Before
      /\ to_server # << >> /\ to_server' = Tail(to_server)
      /\ UNCHANGED << config, client, events >>
  BY ReadsFacts
<1>2. Typed /\ Beginning /\ Playing /\ AfterConnect /\ Creating
  BY <1>1 DEF ProtocolInv
<1>3. events # << >> /\ client.stream_id = 0 /\ phase[Me] = "serving"
  BY <1>1 DEF BeforeStream, Serving
<1>4. to_client \in Seq(Chunks) /\ server.chunk_out = ServerChunkSize /\ ended_by # "stream_end"
  BY <1>1, <1>2 DEF Typed, Beginning, Playing
<1>5. server.playback = None
  BY <1>2, <1>3 DEF Playing, Plays
<1>6. ASSUME UNCHANGED << phase, publishing_to, frame_rx, taken >>, ended_by' = ended_by,
             \/ server' = server /\ server.chunk_in = ClientChunkSize
             \/ server' = [server EXCEPT !.chunk_in = ClientChunkSize],
             to_client' \in Seq(Chunks),
             \/ to_server' = << Sent(CreateStreamRequest) >>
             \/ to_server' = << >>,
             client.at # "done" =>
                \/ to_client' = << >>
                \/ /\ to_server' = << >>
                   /\ \E id \in 1 .. MaxStreams :
                          to_client' = << From(CreateStreamResult(2, id)) >>
      PROVE  ProtocolInv'
  <2>1. /\ server' \in [app : {"", App}, caps : {None, Deal(config)}, playback : {None, {0}},
                        chunk_in : {DefaultChunkSize, ClientChunkSize},
                        chunk_out : {DefaultChunkSize, ServerChunkSize}]
        /\ server'.app = server.app /\ server'.caps = server.caps
        /\ server'.playback = server.playback /\ server'.chunk_out = server.chunk_out
        /\ server'.chunk_in = ClientChunkSize
    BY <1>2, <1>6 DEF Typed
  <2>2. Typed'
    BY <1>1, <1>2, <1>6, <2>1 DEF Typed
  <2>3. Beginning' /\ Playing'
    BY <1>1, <1>2, <1>3, <1>4, <1>5, <1>6, <2>1
       DEF Beginning, Playing, Before, Serving, BeforeConnected, BeforeStream, Plays, Publishes, Puller
  <2>4. Connecting' /\ Pulling' /\ Publishing'
    BY <1>1, <1>3 DEF Connecting, Pulling, Publishing, BeforeConnected, Plays, Publishes
  <2>5. AfterConnect'
    BY <1>1, <1>2, <1>3, <2>1 DEF AfterConnect, BeforeConnected
  <2>6. Creating'
    <3>1. events' = << "Connected" >>
      BY <1>1, <1>2 DEF Creating
    <3> QED
      BY <1>1, <1>6, <2>1, <3>1 DEF Creating
  <2> QED
    BY <2>2, <2>3, <2>4, <2>5, <2>6 DEF ProtocolInv
<1>7. CASE to_server = << Sent(ChunkSize(ClientChunkSize)), Sent(CreateStreamRequest) >>
  <2>1. Head(to_server) = Sent(ChunkSize(ClientChunkSize))
        /\ Tail(to_server) = << Sent(CreateStreamRequest) >>
    BY <1>7, Tuples
  <2>2. m[1] = "SetChunkSize" /\ m[2] = ClientChunkSize
    BY <2>1, RequestsArrive
  <2>3. /\ server' = [server EXCEPT !.chunk_in = m[2]]
        /\ UNCHANGED << serverVars, to_client, ended_by >>
    BY <2>2, ReadsFacts
  <2>4. ServerInv' /\ UNCHANGED << phase, publishing_to, frame_rx, taken >>
    BY <1>1, <2>3, SameServer
  <2>5. client.at # "done" => to_client = << >>
    BY <1>1, <1>2, <1>7 DEF Creating
  <2>6. ProtocolInv'
    BY <1>1, <1>4, <1>6, <2>1, <2>2, <2>3, <2>4, <2>5
  <2> QED
    BY <2>4, <2>6 DEF IInv
<1>8. CASE to_server = << Sent(CreateStreamRequest) >> /\ server.chunk_in = ClientChunkSize
  <2>1. Head(to_server) = Sent(CreateStreamRequest) /\ Tail(to_server) = << >>
    BY <1>8, Tuples
  <2>2. m[1] = "Command" /\ m[2].name = "createStream" /\ m[2].transaction_id = 2
    BY <2>1, RequestsArrive
  <2>3. HandleCommand(m[2])
    BY <2>2, ReadsFacts
  <2> HIDE DEF m
  <2>4. HandleCreateStream(m[2])
    BY <2>2, <2>3 DEF HandleCommand
  <2> DEFINE id == next_stream_id[Me]
             messages == << CreateStreamResult(2, id) >>
  <2>5. Server!CreateStream(Me) /\ to_client' = Answer(messages) /\ UNCHANGED << ended_by, server >>
    BY <2>2, <2>4 DEF HandleCreateStream, GoOn
  <2>6. ServerInv' /\ id \in 1 .. MaxStreams /\ UNCHANGED << phase, publishing_to, frame_rx, taken >>
    BY <1>1, <2>5, CreateStreamKeeps
  <2>7. messages \in Seq(ServerMessages) /\ Len(messages) = 1 /\ messages[1] = CreateStreamResult(2, id)
    <3>1. CreateStreamResult(2, id) \in ServerMessages
      BY <2>6, AllAreSent
    <3> QED
      BY <3>1
  <2> HIDE DEF messages, id
  <2>8. /\ to_client' \in Seq(Chunks) /\ Len(to_client') = Len(to_client) + Len(messages)
        /\ \A j \in 1 .. Len(messages) : to_client'[Len(to_client) + j] = From(messages[j])
    BY <1>4, <2>5, <2>7, Appends
  <2>9. to_client = << >> => to_client' = << From(CreateStreamResult(2, id)) >>
    <3>1. ASSUME to_client = << >>
          PROVE  Len(to_client') = 1 /\ to_client'[1] = From(CreateStreamResult(2, id))
      BY <2>7, <2>8, <3>1
    <3> QED
      BY <2>8, <3>1, Single
  <2>10. client.at # "done" => to_client = << >>
    BY <1>1, <1>2, <1>8 DEF Creating
  <2>11. ProtocolInv'
    BY <1>1, <1>6, <1>8, <2>1, <2>5, <2>6, <2>8, <2>9, <2>10
  <2> QED
    BY <2>6, <2>11 DEF IInv
<1> QED
  BY <1>1, <1>2, <1>7, <1>8 DEF Creating

(* A queue with what is appended to it, both of what the server sends.     *)
LEMMA Longer ==
    ASSUME NEW S, NEW s \in Seq(S), NEW r \in Seq(S), Len(s) = 3
    PROVE  s \o r \in Seq(S) /\ 3 \in 1 .. Len(s \o r) /\ (s \o r)[3] = s[3]
<1>1. s \o r \in Seq(S)
  OBVIOUS
<1>4. 3 \in 1 .. Len(s \o r)
  <2>1. Len(s \o r) = Len(s) + Len(r)
    BY ConcatProperties, Zenon
  <2>2. Len(s) = 3 /\ Len(r) \in Nat
    OBVIOUS
  <2> QED
    BY <2>1, <2>2
<1>2. 3 \in 1 .. Len(s) + Len(r) /\ 3 <= Len(s)
  OBVIOUS
<1>3. (s \o r)[3] = s[3]
  <2>1. \A i \in 1 .. Len(s) + Len(r) :
            (s \o r)[i] = IF i <= Len(s) THEN s[i] ELSE r[i - Len(s)]
    BY ConcatProperties, Zenon
  <2>2. (s \o r)[3] = IF 3 <= Len(s) THEN s[3] ELSE r[3 - Len(s)]
    BY <1>2, <2>1, Zenon
  <2> QED
    BY <1>2, <2>2
<1> QED
  BY <1>1, <1>3, <1>4

(* The answers to play.                                                    *)
LEMMA PlayedMessages ==
    ASSUME NEW catchup, catchup = << >> \/ catchup = << Sound >>
    PROVE  LET messages == << StreamBegin(0), Status(0, "NetStream.Play.Reset"), Start >> \o catchup
           IN  /\ messages \in Seq(ServerMessages) /\ messages \in Seq(PlayAnswers)
               /\ 3 \in 1 .. Len(messages) /\ messages[3] = Start
<1>1. /\ StreamBegin(0) \in PlayAnswers /\ Status(0, "NetStream.Play.Reset") \in PlayAnswers
      /\ Start \in PlayAnswers /\ Sound \in PlayAnswers
  BY DEF PlayAnswers
<1> DEFINE begin == StreamBegin(0)  reset == Status(0, "NetStream.Play.Reset")
           told == << begin, reset, Start >>
           messages == told \o catchup
<1> HIDE DEF begin, reset
<1>2. told \in Seq(PlayAnswers) /\ Len(told) = 3 /\ told[3] = Start
  BY <1>1 DEF begin, reset
<1>3. catchup \in Seq(PlayAnswers) /\ Len(catchup) \in Nat
  <2>1. CASE catchup = << >>
    BY <2>1
  <2>2. CASE catchup = << Sound >>
    BY <1>1, <2>2
  <2> QED
    BY <2>1, <2>2
<1> HIDE DEF told
<1>4. messages \in Seq(PlayAnswers) /\ 3 \in 1 .. Len(messages) /\ messages[3] = Start
  BY <1>2, <1>3, Longer
<1> HIDE DEF messages
<1>5. messages \in Seq(ServerMessages)
  BY <1>4, AllAreSent
<1> QED
  BY <1>4, <1>5 DEF messages, told, begin, reset

(* Answers of the server to a client that plays, which do not end it.      *)
LEMMA PlayAnswered ==
    ASSUME Typed, Beginning, Plays, Serving,
           NEW messages \in Seq(ServerMessages), messages \in Seq(PlayAnswers),
           to_client' = Answer(messages)
    PROVE  /\ to_client' \in Seq(Chunks)
           /\ \A i \in 1 .. Len(to_client') :
                  \/ i \in 1 .. Len(to_client) /\ to_client'[i] = to_client[i]
                  \/ \E m \in PlayAnswers : to_client'[i] = From(m)
           /\ \A j \in 1 .. Len(messages) :
                  \E i \in 1 .. Len(to_client') : to_client'[i] = From(messages[j])
<1>1. to_client \in Seq(Chunks) /\ server.chunk_out = ServerChunkSize
  BY DEF Typed, Beginning
<1>2. \A j \in 1 .. Len(messages) : messages[j] \in PlayAnswers
  OBVIOUS
<1>3. /\ to_client' \in Seq(Chunks)
      /\ \A i \in 1 .. Len(to_client') :
             \/ i \in 1 .. Len(to_client) /\ to_client'[i] = to_client[i]
             \/ \E j \in 1 .. Len(messages) :
                    i = Len(to_client) + j /\ to_client'[i] = From(messages[j])
      /\ \A j \in 1 .. Len(messages) :
             /\ Len(to_client) + j \in 1 .. Len(to_client')
             /\ to_client'[Len(to_client) + j] = From(messages[j])
  BY <1>1, Appends
<1> QED
  BY <1>2, <1>3

(* From a puller it then reads the buffer length, and play.                *)
LEMMA ReadsPlayStep == IInv /\ ServerReads /\ Plays => IInv'
<1> SUFFICES ASSUME IInv, ServerReads, Plays
             PROVE  IInv'
  OBVIOUS
<1> DEFINE m == Parsed(Head(to_server))
<1>1. /\ ServerInv /\ ProtocolInv /\ Serving /\ ~Before
      /\ to_server # << >> /\ to_server' = Tail(to_server)
      /\ UNCHANGED << config, client, events >>
  BY ReadsFacts
<1>2. Typed /\ Beginning /\ Playing /\ AfterConnect /\ Pulling
  BY <1>1 DEF ProtocolInv
<1>3. client.stream_id \in 1 .. MaxStreams /\ server.app = App
  <2>1. client.stream_id \in 0 .. MaxStreams /\ client.stream_id # 0
    BY <1>2 DEF Typed, Plays
  <2> QED
    BY <1>2, <2>1, ClientServerAssumption DEF AfterConnect, BeforeConnected
<1>4. PlayRequested
  BY <1>1, <1>2 DEF Pulling
<1>5. to_client = << >> /\ server.playback = None /\ frame_rx[Me] = 0 /\ taken[Me] = 0
      /\ ended_by # "stream_end" /\ to_client \in Seq(Chunks)
  BY <1>1, <1>2, <1>4 DEF PlayRequested, Playing, Typed
<1>6. \A i \in 1 .. Len(to_client) : FALSE
  <2>1. Len(to_client) = 0
    BY <1>5
  <2> QED
    BY <2>1
<1>7. CASE to_server = << Sent(BufferLength(client.stream_id)), Sent(PlayRequest(client.stream_id)) >>
  <2>1. Head(to_server) = Sent(BufferLength(client.stream_id))
        /\ Tail(to_server) = << Sent(PlayRequest(client.stream_id)) >>
    BY <1>7, Tuples
  <2>2. m[1] = "UserControl"
    BY <1>3, <2>1, RequestsArrive
  <2>3. UNCHANGED << serverVars, server, to_client, ended_by >>
    BY <2>2, ReadsFacts
  <2>4. ServerInv' /\ UNCHANGED << phase, publishing_to, frame_rx, taken >>
    BY <1>1, <2>3, SameServer
  <2>5. PlayRequested'
    BY <1>1, <1>5, <2>1, <2>3 DEF PlayRequested
  <2>6. ~Before' /\ ~(\E i \in 1 .. Len(to_client') : TRUE)
    BY <1>1, <1>6, <2>3, <2>4 DEF Before
  <2>7. ProtocolInv'
    BY <1>1, <1>5, <2>3, <2>4, <2>5, <2>6, PullingStep
  <2> QED
    BY <2>4, <2>7 DEF IInv
<1>8. CASE to_server = << Sent(PlayRequest(client.stream_id)) >>
  <2>1. Head(to_server) = Sent(PlayRequest(client.stream_id)) /\ Tail(to_server) = << >>
    BY <1>8, Tuples
  <2>2. /\ m[1] = "Command" /\ m[2].name = "play" /\ m[2].stream_id = 0
        /\ Or(AsStr(First(m[2])), "") = Name
    BY <1>3, <2>1, RequestsArrive
  <2>3. HandleCommand(m[2])
    BY <2>2, ReadsFacts
  <2> HIDE DEF m
  <2>4. KeyOf(m[2]) = The
    BY <1>3, <2>2 DEF KeyOf, The
  <2>5. HandlePlay(m[2])
    BY <2>2, <2>3 DEF HandleCommand
  <2>6. \/ \E catchup \in {<< >>, << Sound >>} :
              /\ Server!Play(Me, StreamOf(m[2]), The)
              /\ to_client' = Answer(<< StreamBegin(0), Status(0, "NetStream.Play.Reset"), Start >>
                                     \o catchup)
              /\ ended_by' = ended_by
              /\ server' = [server EXCEPT !.playback = {0}]
        \/ \E messages \in {<< Refusal(0, "NetStream.Play.StreamNotFound") >>, << >>} :
              /\ to_client' = Answer(messages)
              /\ ended_by' = ended_by /\ server' = server /\ UNCHANGED serverVars
    BY <2>2, <2>4, <2>5 DEF HandlePlay, GoOn, Start
  <2>7. ASSUME NEW catchup \in {<< >>, << Sound >>},
               Server!Play(Me, StreamOf(m[2]), The),
               to_client' = Answer(<< StreamBegin(0), Status(0, "NetStream.Play.Reset"), Start >>
                                   \o catchup),
               ended_by' = ended_by, server' = [server EXCEPT !.playback = {0}]
        PROVE  IInv'
    <3> DEFINE messages == << StreamBegin(0), Status(0, "NetStream.Play.Reset"), Start >> \o catchup
    <3>1. /\ messages \in Seq(ServerMessages) /\ messages \in Seq(PlayAnswers)
          /\ 3 \in 1 .. Len(messages) /\ messages[3] = Start
      BY <2>7, PlayedMessages
    <3>2. to_client' = Answer(messages)
      BY <2>7
    <3> HIDE DEF messages
    <3>3. /\ to_client' \in Seq(Chunks)
          /\ \A i \in 1 .. Len(to_client') :
                 \/ i \in 1 .. Len(to_client) /\ to_client'[i] = to_client[i]
                 \/ \E a \in PlayAnswers : to_client'[i] = From(a)
          /\ \E i \in 1 .. Len(to_client') : to_client'[i] = From(Start)
      BY <1>1, <1>2, <3>1, <3>2, PlayAnswered
    <3>4. ServerInv' /\ UNCHANGED << phase, publishing_to, taken, next_stream_id >>
      BY <1>1, <2>7, PlayKeeps, MeAndOther
    <3>5. ~Before' /\ server'.playback # None
      BY <1>1, <1>2, <2>7, <3>4 DEF Before, Typed, None
    <3>6. WillStart'
      BY <1>5, <2>7, <3>3 DEF WillStart
    <3>7. ProtocolInv'
      BY <1>1, <1>5, <2>1, <2>7, <3>3, <3>5, <3>6, PullingStep
    <3> QED
      BY <3>4, <3>7 DEF IInv
  <2>8. ASSUME NEW messages \in {<< Refusal(0, "NetStream.Play.StreamNotFound") >>, << >>},
               to_client' = Answer(messages),
               ended_by' = ended_by, server' = server, UNCHANGED serverVars
        PROVE  IInv'
    <3>1. messages \in Seq(ServerMessages) /\ messages \in Seq(PlayAnswers)
      <4>1. Refusal(0, "NetStream.Play.StreamNotFound") \in PlayAnswers
        BY DEF PlayAnswers
      <4>2. Refusal(0, "NetStream.Play.StreamNotFound") \in ServerMessages
        BY <4>1, AllAreSent
      <4>3. CASE messages = << >>
        BY <4>3
      <4>4. CASE messages = << Refusal(0, "NetStream.Play.StreamNotFound") >>
        BY <4>1, <4>2, <4>4
      <4> QED
        BY <2>8, <4>3, <4>4
    <3>2. ServerInv' /\ UNCHANGED << phase, publishing_to, frame_rx, taken >>
      BY <1>1, <2>8, SameServer
    <3>3. /\ to_client' \in Seq(Chunks)
          /\ \A i \in 1 .. Len(to_client') :
                 \/ i \in 1 .. Len(to_client) /\ to_client'[i] = to_client[i]
                 \/ \E a \in PlayAnswers : to_client'[i] = From(a)
      BY <1>1, <1>2, <2>8, <3>1, PlayAnswered
    <3>4. ~Before'
      BY <1>1, <3>2 DEF Before
    <3>5. ProtocolInv'
      BY <1>1, <1>5, <2>1, <2>8, <3>2, <3>3, <3>4, PullingStep
    <3> QED
      BY <3>2, <3>5 DEF IInv
  <2> QED
    BY <2>6, <2>7, <2>8
<1> QED
  BY <1>4, <1>7, <1>8 DEF PlayRequested

(* A step of the server while it serves a client that publishes.           *)
LEMMA PublishingStep ==
    ASSUME ProtocolInv, Publishes, Serving, ~Before',
           UNCHANGED << config, client, server, events >>,
           to_client' \in Seq(Chunks),
           frame_rx'[Me] = frame_rx[Me], taken'[Me] = taken[Me],
           ended_by' # "stream_end",
           \/ PublishRequested'
           \/ to_server' \in Seq({SentSound(client.stream_id)}),
           \A i \in 1 .. Len(to_client') :
               \/ i \in 1 .. Len(to_client) /\ to_client'[i] = to_client[i]
               \/ \E m \in PublishAnswers : to_client'[i] = From(m),
           \/ client.at = "published"
           \/ /\ client.at = "publishing"
              /\ \E i \in 1 .. Len(to_client') : to_client'[i] = From(Announced)
           => (Serving' => publishing_to'[Me] = The)
    PROVE  ProtocolInv'
<1>1. Typed /\ Beginning /\ Playing /\ Connecting /\ AfterConnect /\ Publishing
  BY DEF ProtocolInv
<1>2. client.stream_id # 0 /\ config.role # "puller" /\ phase[Me] = "serving"
  BY DEF Publishes, Puller, Serving
<1>3. Typed'
  BY <1>1 DEF Typed
<1>4. Beginning'
  BY <1>1, <1>2 DEF Beginning, BeforeConnected, BeforeStream, Plays, Publishes, Puller, Serving
<1>5. Playing'
  BY <1>1, <1>2 DEF Playing, Plays, Puller
<1>6. Connecting' /\ Creating' /\ Pulling'
  BY <1>2 DEF Connecting, Creating, Pulling, BeforeConnected, BeforeStream, Plays, Puller
<1>7. AfterConnect'
  BY <1>1, <1>2 DEF AfterConnect, BeforeConnected
<1>8. Publishing'
  <2>1. ASSUME client.at # "done"
        PROVE  \A i \in 1 .. Len(to_client') : \E m \in PublishAnswers : to_client'[i] = From(m)
    BY <1>1, <2>1 DEF Publishing
  <2>2. server.chunk_in = ClientChunkSize
    BY <1>1 DEF Publishing
  <2> QED
    BY <2>1, <2>2 DEF Publishing
<1> QED
  BY <1>3, <1>4, <1>5, <1>6, <1>7, <1>8 DEF ProtocolInv

(* Its answers.                                                            *)
LEMMA PublishAnswered ==
    ASSUME Typed, Beginning, Serving,
           NEW messages, messages \in Seq(PublishAnswers), to_client' = Answer(messages)
    PROVE  /\ to_client' \in Seq(Chunks)
           /\ \A i \in 1 .. Len(to_client') :
                  \/ i \in 1 .. Len(to_client) /\ to_client'[i] = to_client[i]
                  \/ \E j \in 1 .. Len(messages) : to_client'[i] = From(messages[j])
           /\ \A j \in 1 .. Len(messages) : messages[j] \in PublishAnswers
<1>1. to_client \in Seq(Chunks) /\ server.chunk_out = ServerChunkSize
  BY DEF Typed, Beginning
<1>2. messages \in Seq(ServerMessages) /\ \A j \in 1 .. Len(messages) : messages[j] \in PublishAnswers
  BY AllAreSent
<1> QED
  BY <1>1, <1>2, Appends

(* From a publisher it reads releaseStream, FCPublish, publish and audio.  *)
LEMMA ReadsPublishStep == IInv /\ ServerReads /\ Publishes => IInv'
<1> SUFFICES ASSUME IInv, ServerReads, Publishes
             PROVE  IInv'
  OBVIOUS
<1> DEFINE m == Parsed(Head(to_server))
           id == client.stream_id
<1>1. /\ ServerInv /\ ProtocolInv /\ Serving /\ ~Before
      /\ to_server # << >> /\ to_server' = Tail(to_server)
      /\ UNCHANGED << config, client, events >>
  BY ReadsFacts
<1>2. Typed /\ Beginning /\ Playing /\ AfterConnect /\ Publishing
  BY <1>1 DEF ProtocolInv
<1>3. id \in 1 .. MaxStreams /\ server.app = App
  <2>1. id \in 0 .. MaxStreams /\ id # 0
    BY <1>2 DEF Typed, Publishes
  <2> QED
    BY <1>2, <2>1, ClientServerAssumption DEF AfterConnect, BeforeConnected
<1>4. ended_by # "stream_end" /\ to_client \in Seq(Chunks) /\ client'.stream_id = id
  BY <1>1, <1>2 DEF Playing, Typed
<1>5. \A i \in 1 .. Len(to_client) :
          \/ i \in 1 .. Len(to_client) /\ to_client[i] = to_client[i]
          \/ \E a \in PublishAnswers : to_client[i] = From(a)
  OBVIOUS
<1> HIDE DEF id
(* Nothing of it has changed what was said and held.                       *)
<1>6. ASSUME UNCHANGED << phase, publishing_to >>
      PROVE  /\ ~Before'
             /\ \/ client.at = "published"
                \/ /\ client.at = "publishing"
                   /\ \E i \in 1 .. Len(to_client) : to_client[i] = From(Announced)
                => (Serving' => publishing_to'[Me] = The)
  BY <1>1, <1>2, <1>6 DEF Before, Publishing
<1>7. ASSUME UNCHANGED << serverVars, server, to_client, ended_by >>,
             PublishRequested' \/ to_server' \in Seq({SentSound(id)})
      PROVE  IInv'
  <2>1. ServerInv' /\ UNCHANGED << phase, publishing_to, frame_rx, taken >>
    BY <1>1, <1>7, SameServer
  <2>2. ProtocolInv'
    BY <1>1, <1>4, <1>5, <1>6, <1>7, <2>1, PublishingStep DEF id
  <2> QED
    BY <2>1, <2>2 DEF IInv
(* The loop ends.                                                          *)
<1>8. ASSUME ServerInv', Goes(Me, "serving", "unregistering"), server' = server,
             ended_by' # "stream_end", to_client' \in Seq(Chunks),
             \A i \in 1 .. Len(to_client') :
                 \/ i \in 1 .. Len(to_client) /\ to_client'[i] = to_client[i]
                 \/ \E a \in PublishAnswers : to_client'[i] = From(a),
             PublishRequested' \/ to_server' \in Seq({SentSound(id)})
      PROVE  IInv'
  <2>1. ~Before' /\ ~Serving' /\ frame_rx'[Me] = frame_rx[Me] /\ taken'[Me] = taken[Me]
    <3>1. phase'[Me] = "unregistering"
      BY <1>1, <1>8, MeAndOther DEF Goes, ServerInv, ServerTyped
    <3> QED
      BY <1>8, <3>1 DEF Before, Serving, Goes
  <2>2. ProtocolInv'
    BY <1>1, <1>8, <2>1, PublishingStep DEF id
  <2> QED
    BY <1>8, <2>2 DEF IInv
<1>9. ASSUME NEW messages, messages \in Seq(PublishAnswers),
             Server!LoopEnds(Me) \/ Server!PublishRefused(Me, The),
             to_client' = Answer(messages), ended_by' = "rejected", server' = server,
             PublishRequested' \/ to_server' \in Seq({SentSound(id)})
      PROVE  IInv'
  <2>1. ServerInv' /\ Goes(Me, "serving", "unregistering")
    BY <1>1, <1>9, Moves, MeAndOther
  <2>2. /\ to_client' \in Seq(Chunks)
        /\ \A i \in 1 .. Len(to_client') :
               \/ i \in 1 .. Len(to_client) /\ to_client'[i] = to_client[i]
               \/ \E a \in PublishAnswers : to_client'[i] = From(a)
    BY <1>1, <1>2, <1>9, PublishAnswered
  <2> QED
    BY <1>8, <1>9, <2>1, <2>2
<1>10. /\ << >> \in Seq(PublishAnswers)
       /\ << Refusal(0, "NetStream.Publish.BadName") >> \in Seq(PublishAnswers)
       /\ << OnFcPublish >> \in Seq(PublishAnswers)
       /\ << StreamBegin(0), Announced >> \in Seq(PublishAnswers)
  BY DEF PublishAnswers
<1>11. ASSUME NEW messages, messages \in Seq(PublishAnswers), End(messages),
              PublishRequested' \/ to_server' \in Seq({SentSound(id)})
       PROVE  IInv'
  BY <1>9, <1>11 DEF End
<1>12. m[1] = "Command" => PublishRequested
  <2>1. ASSUME to_server \in Seq({SentSound(id)})
        PROVE  Head(to_server) = SentSound(id)
    BY <1>1, <2>1
  <2> QED
    BY <1>2, <1>3, <2>1, RequestsArrive DEF Publishing, id
<1>13. PublishRequested =>
           \/ client.at = "done"
           \/ /\ client.at = "publishing"
              /\ \A i \in 1 .. Len(to_client) : to_client[i] = From(OnFcPublish)
  BY DEF PublishRequested
<1>14. From(OnFcPublish) # From(Announced)
  <2>1. OnFcPublish \in ServerMessages /\ Announced \in ServerMessages
    BY AllAreSent DEF PublishAnswers
  <2>2. Parsed(From(OnFcPublish)) = OnFcPublish /\ Parsed(From(Announced)) = Announced
    BY <2>1, AnswersArrive
  <2>3. OnFcPublish[2].name = "onFCPublish" /\ Announced[2].name = "onStatus"
    BY AnswersSay DEF Announced
  <2> QED
    BY <2>2, <2>3
(* While its requests are on their way nothing but onFCPublish is said.    *)
<1>15. ASSUME PublishRequested,
              to_server' \in {<< Sent(FcPublishRequest), Sent(PublishRequest(id)) >>,
                              << Sent(PublishRequest(id)) >>},
              \A i \in 1 .. Len(to_client') :
                  \/ i \in 1 .. Len(to_client) /\ to_client'[i] = to_client[i]
                  \/ to_client'[i] = From(OnFcPublish)
       PROVE  PublishRequested'
  <2>1. to_server' = << Sent(FcPublishRequest), Sent(PublishRequest(client'.stream_id)) >>
        \/ to_server' = << Sent(PublishRequest(client'.stream_id)) >>
    BY <1>4, <1>15
  <2>2. \/ client'.at = "done"
        \/ /\ client'.at = "publishing"
           /\ \A i \in 1 .. Len(to_client') : to_client'[i] = From(OnFcPublish)
    BY <1>1, <1>13, <1>15
  <2> QED
    BY <2>1, <2>2 DEF PublishRequested
<1>16. CASE to_server = << Sent(ReleaseRequest), Sent(FcPublishRequest), Sent(PublishRequest(id)) >>
  <2>1. Head(to_server) = Sent(ReleaseRequest)
        /\ Tail(to_server) = << Sent(FcPublishRequest), Sent(PublishRequest(id)) >>
    BY <1>16, Tuples
  <2>2. m[1] = "Command" /\ m[2].name = "releaseStream"
    BY <2>1, RequestsArrive
  <2>3. HandleCommand(m[2])
    BY <2>2, ReadsFacts
  <2>4. PublishRequested
    BY <1>12, <2>2
  <2> HIDE DEF m
  <2>5. UNCHANGED << serverVars, server, to_client, ended_by >>
    BY <2>2, <2>3 DEF HandleCommand
  <2>6. PublishRequested'
    BY <1>1, <1>15, <2>1, <2>4, <2>5
  <2> QED
    BY <1>7, <2>5, <2>6
<1>17. CASE to_server = << Sent(FcPublishRequest), Sent(PublishRequest(id)) >>
  <2>1. Head(to_server) = Sent(FcPublishRequest)
        /\ Tail(to_server) = << Sent(PublishRequest(id)) >>
    BY <1>17, Tuples
  <2>2. m[1] = "Command" /\ m[2].name = "FCPublish"
    BY <2>1, RequestsArrive
  <2>3. HandleCommand(m[2])
    BY <2>2, ReadsFacts
  <2>4. PublishRequested
    BY <1>12, <2>2
  <2> HIDE DEF m
  <2>5. \/ to_client' = Answer(<< OnFcPublish >>) /\ UNCHANGED << ended_by, serverVars, server >>
        \/ End(<< >>)
    BY <2>2, <2>3 DEF HandleCommand, HandleFcPublish, GoOn
  <2>6. CASE to_client' = Answer(<< OnFcPublish >>) /\ UNCHANGED << ended_by, serverVars, server >>
    <3>1. ServerInv' /\ UNCHANGED << phase, publishing_to, frame_rx, taken >>
      BY <1>1, <2>6, SameServer
    <3> DEFINE messages == << OnFcPublish >>
    <3>2. messages \in Seq(PublishAnswers) /\ Len(messages) = 1 /\ messages[1] = OnFcPublish
          /\ to_client' = Answer(messages)
      BY <1>10, <2>6
    <3> HIDE DEF messages
    <3>3. /\ to_client' \in Seq(Chunks)
          /\ \A i \in 1 .. Len(to_client') :
                 \/ i \in 1 .. Len(to_client) /\ to_client'[i] = to_client[i]
                 \/ \E j \in 1 .. Len(messages) : to_client'[i] = From(messages[j])
      BY <1>1, <1>2, <3>2, PublishAnswered
    <3>4. \A i \in 1 .. Len(to_client') :
              \/ i \in 1 .. Len(to_client) /\ to_client'[i] = to_client[i]
              \/ to_client'[i] = From(OnFcPublish)
      BY <3>2, <3>3
    <3>5. PublishRequested'
      BY <1>1, <1>15, <2>1, <2>4, <3>4
    <3>6. ~(\/ client.at = "published"
            \/ /\ client.at = "publishing"
               /\ \E i \in 1 .. Len(to_client') : to_client'[i] = From(Announced))
      BY <1>13, <1>14, <2>4, <3>4
    <3>7. \A i \in 1 .. Len(to_client') :
              \/ i \in 1 .. Len(to_client) /\ to_client'[i] = to_client[i]
              \/ \E a \in PublishAnswers : to_client'[i] = From(a)
      BY <3>4 DEF PublishAnswers
    <3>8. ~Before'
      BY <1>1, <3>1 DEF Before
    <3>9. ProtocolInv'
      BY <1>1, <1>4, <2>6, <3>1, <3>3, <3>5, <3>6, <3>7, <3>8, PublishingStep
    <3> QED
      BY <3>1, <3>9 DEF IInv
  <2>7. CASE End(<< >>)
    <3>1. to_client' = Answer(<< >>)
      BY <2>7 DEF End
    <3>2. \A i \in 1 .. Len(to_client') :
              \/ i \in 1 .. Len(to_client) /\ to_client'[i] = to_client[i]
              \/ \E j \in 1 .. Len(<< >>) : to_client'[i] = From(<< >>[j])
      BY <1>1, <1>2, <1>10, <3>1, PublishAnswered
    <3>3. PublishRequested'
      <4>1. ~\E j \in 1 .. Len(<< >>) : TRUE
        OBVIOUS
      <4> QED
        BY <1>1, <1>15, <2>1, <2>4, <3>2, <4>1
    <3> QED
      BY <1>10, <1>11, <2>7, <3>3
  <2> QED
    BY <2>5, <2>6, <2>7
<1>18. CASE to_server = << Sent(PublishRequest(id)) >>
  <2>1. Head(to_server) = Sent(PublishRequest(id)) /\ Tail(to_server) = << >>
    BY <1>18, Tuples
  <2>2. /\ m[1] = "Command" /\ m[2].name = "publish" /\ m[2].stream_id = 0
        /\ Or(AsStr(First(m[2])), "") = Name
    BY <1>3, <2>1, RequestsArrive
  <2>3. HandleCommand(m[2])
    BY <2>2, ReadsFacts
  <2> HIDE DEF m
  <2>4. to_server' \in Seq({SentSound(id)})
    <3>1. << >> \in Seq({SentSound(id)})
      OBVIOUS
    <3> QED
      BY <1>1, <2>1, <3>1
  <2>5. KeyOf(m[2]) = The
    BY <1>3, <2>2 DEF KeyOf, The
  <2>6. HandlePublish(m[2])
    BY <2>2, <2>3 DEF HandleCommand
  <2>7. \/ /\ Server!Publish(Me, StreamOf(m[2]), The)
           /\ to_client' = Answer(<< StreamBegin(0), Announced >>)
           /\ ended_by' = ended_by /\ server' = server
        \/ /\ Server!PublishRefused(Me, The)
           /\ to_client' = Answer(<< Refusal(0, "NetStream.Publish.BadName") >>)
           /\ ended_by' = "rejected" /\ server' = server
        \/ End(<< Refusal(0, "NetStream.Publish.BadName") >>)
        \/ End(<< >>)
    BY <2>2, <2>5, <2>6 DEF HandlePublish, GoOn, Announced
  <2>8. CASE /\ Server!Publish(Me, StreamOf(m[2]), The)
             /\ to_client' = Answer(<< StreamBegin(0), Announced >>)
             /\ ended_by' = ended_by /\ server' = server
    <3>1. /\ ServerInv' /\ publishing_to' = [publishing_to EXCEPT ![Me] = The]
          /\ UNCHANGED << phase, frame_rx, taken, next_stream_id >>
      BY <1>1, <2>8, PublishKeeps, MeAndOther
    <3>2. publishing_to'[Me] = The
      BY <1>1, <3>1, MeAndOther DEF ServerInv, ServerTyped
    <3>3. /\ to_client' \in Seq(Chunks)
          /\ \A i \in 1 .. Len(to_client') :
                 \/ i \in 1 .. Len(to_client) /\ to_client'[i] = to_client[i]
                 \/ \E a \in PublishAnswers : to_client'[i] = From(a)
      BY <1>1, <1>2, <1>10, <2>8, PublishAnswered
    <3>4. ~Before'
      BY <1>1, <3>1 DEF Before
    <3>5. ProtocolInv'
      BY <1>1, <1>4, <2>4, <2>8, <3>1, <3>2, <3>3, <3>4, PublishingStep DEF id
    <3> QED
      BY <3>1, <3>5 DEF IInv
  <2> QED
    BY <1>9, <1>10, <1>11, <2>4, <2>7, <2>8
<1>19. CASE to_server \in Seq({SentSound(id)})
  <2>1. Head(to_server) = SentSound(id) /\ to_server' \in Seq({SentSound(id)})
    BY <1>1, <1>19
  <2>2. m[1] = "Audio"
    BY <1>3, <2>1, RequestsArrive
  <2>3. HandleAudio
    BY <2>2, ReadsFacts
  <2>4. CASE UNCHANGED << serverVars, server, to_client, ended_by >>
    BY <1>7, <2>1, <2>4
  <2>5. CASE Server!LoopEnds(Me) /\ ended_by' = "no_stream" /\ UNCHANGED << server, to_client >>
    <3>1. ServerInv' /\ Goes(Me, "serving", "unregistering")
      BY <1>1, <2>5, Moves, MeAndOther
    <3>2. to_client' = to_client
      BY <2>5
    <3> QED
      BY <1>4, <1>5, <1>8, <2>1, <2>5, <3>1, <3>2
  <2> QED
    BY <2>3, <2>4, <2>5 DEF HandleAudio
<1> QED
  BY <1>2, <1>16, <1>17, <1>18, <1>19 DEF Publishing, PublishRequested, id

(* That is all the server reads.                                           *)
LEMMA ServerReadsStep == IInv /\ ServerReads => IInv'
BY ReadsConnectStep, ReadsCreateStep, ReadsPlayStep, ReadsPublishStep
   DEF BeforeConnected, BeforeStream, Plays, Publishes

(* The server keeps the invariant.                                         *)
LEMMA ServerStep == IInv /\ ServerNext => IInv'
BY ServerOpensStep, ServerEndsSteps, ServerServesStep, ServerReadsStep, ServerBroadcastsStep,
   ServerTurnsStep, ServerStreamEndsStep, ServerLeavesStep
   DEF ServerNext

----------------------------------------------------------------------------
(* The steps of the client.                                                *)

(* What the client does leaves the server alone.                           *)
Alone == UNCHANGED << serverVars, config, server, ended_by >>

(* So the part of MediaServer, and what the protocol part says of it,      *)
(* stays.                                                                  *)
LEMMA AloneFacts ==
    ASSUME IInv, Alone
    PROVE  /\ ServerInv' /\ UNCHANGED << phase, publishing_to, frame_rx, taken >>
           /\ config' = config /\ server' = server /\ ended_by' = ended_by
           /\ (Before' <=> Before) /\ (Serving' <=> Serving)
BY SameServer DEF IInv, Alone, Before, Serving

(* The client goes on, or ends, with the stream it has.                    *)
LEMMA LaterStep ==
    ASSUME IInv, Alone, client.stream_id # 0,
           NEW q, (client' = client /\ q = client.at) \/ client' = [client EXCEPT !.at = q],
           \/ Puller /\ q \in {"playing", "pulling", "done"} /\ Pulling'
           \/ ~Puller /\ q \in {"publishing", "published", "done"} /\ Publishing',
           to_client' \in Seq(Chunks), events' \in Seq(Told), events' # << >>
    PROVE  IInv'
<1>1. Typed /\ Beginning /\ Playing /\ AfterConnect
  BY DEF IInv, ProtocolInv
<1>2. /\ ServerInv' /\ UNCHANGED << phase, publishing_to, frame_rx, taken >>
      /\ config' = config /\ server' = server /\ ended_by' = ended_by
      /\ (Before' <=> Before) /\ (Serving' <=> Serving)
  BY AloneFacts
<1>3. /\ client' \in [at : Places, caps : {None, Deal(config)}, stream_id : 0 .. MaxStreams,
                      chunk_in : {DefaultChunkSize, ServerChunkSize},
                      chunk_out : {DefaultChunkSize, ClientChunkSize}]
      /\ client'.at = q /\ client'.stream_id = client.stream_id /\ client'.caps = client.caps
      /\ client'.chunk_in = client.chunk_in /\ client'.chunk_out = client.chunk_out
  BY <1>1 DEF Typed, Places
<1>4. Typed'
  BY <1>1, <1>2, <1>3 DEF Typed
<1>5. ~Before
  BY <1>1 DEF Beginning, BeforeConnected
<1>6. Beginning' /\ Playing'
  BY <1>1, <1>2, <1>3, <1>5
     DEF Beginning, Playing, BeforeConnected, BeforeStream, Plays, Publishes, Puller
<1>7. Connecting' /\ Creating'
  BY <1>3 DEF Connecting, Creating, BeforeConnected, BeforeStream
<1>8. AfterConnect'
  BY <1>1, <1>2, <1>3 DEF AfterConnect, BeforeConnected
<1>9. Pulling' /\ Publishing'
  BY <1>2 DEF Pulling, Publishing, Plays, Publishes, Puller
<1> QED
  BY <1>2, <1>4, <1>6, <1>7, <1>8, <1>9 DEF IInv, ProtocolInv

(* It ends without.                                                        *)
LEMMA EarlyDone ==
    ASSUME IInv, Alone, client.stream_id = 0, client' = [client EXCEPT !.at = "done"],
           UNCHANGED << to_server, events >>, to_client' \in Seq(Chunks),
           to_client = << >> => to_client' = << >>
    PROVE  IInv'
<1>1. Typed /\ Beginning /\ Playing /\ Connecting /\ AfterConnect /\ Creating
  BY DEF IInv, ProtocolInv
<1>2. /\ ServerInv' /\ UNCHANGED << phase, publishing_to, frame_rx, taken >>
      /\ config' = config /\ server' = server /\ ended_by' = ended_by
      /\ (Before' <=> Before) /\ (Serving' <=> Serving)
  BY AloneFacts
<1>3. /\ client' \in [at : Places, caps : {None, Deal(config)}, stream_id : 0 .. MaxStreams,
                      chunk_in : {DefaultChunkSize, ServerChunkSize},
                      chunk_out : {DefaultChunkSize, ClientChunkSize}]
      /\ client'.at = "done" /\ client'.stream_id = 0 /\ client'.caps = client.caps
      /\ client'.chunk_in = client.chunk_in /\ client'.chunk_out = client.chunk_out
  BY <1>1 DEF Typed, Places
<1>4. Typed'
  BY <1>1, <1>2, <1>3 DEF Typed
<1>5. Beginning' /\ Playing'
  BY <1>1, <1>2, <1>3
     DEF Beginning, Playing, BeforeConnected, BeforeStream, Plays, Publishes, Puller
<1>6. Connecting'
  BY <1>1, <1>2, <1>3 DEF Connecting, BeforeConnected
<1>7. AfterConnect' /\ Creating'
  BY <1>1, <1>2, <1>3 DEF AfterConnect, Creating, BeforeConnected, BeforeStream
<1>8. Pulling' /\ Publishing'
  BY <1>3 DEF Pulling, Publishing, Plays, Publishes
<1> QED
  BY <1>2, <1>4, <1>5, <1>6, <1>7, <1>8 DEF IInv, ProtocolInv

(* The handshake is over: connect is sent.                                 *)
LEMMA ClientConnectsStep == IInv /\ ClientConnects => IInv'
<1> SUFFICES ASSUME IInv, ClientConnects
             PROVE  IInv'
  OBVIOUS
<1>1. Typed /\ Beginning /\ Playing /\ Connecting
  BY DEF IInv, ProtocolInv
<1>2. /\ client.at = "handshake" /\ phase[Me] \in {"opening", "serving"}
      /\ client' = [client EXCEPT !.at = "connecting"]
      /\ ClientSends(<< ConnectRequest(config) >>)
      /\ UNCHANGED << to_client, events >> /\ Alone
  BY DEF ClientConnects, KeepClient, Alone
<1>3. /\ ServerInv' /\ UNCHANGED << phase, publishing_to, frame_rx, taken >>
      /\ config' = config /\ server' = server /\ ended_by' = ended_by
      /\ (Before' <=> Before) /\ (Serving' <=> Serving)
  BY <1>2, AloneFacts
<1>4. events = << >> /\ client.stream_id = 0 /\ to_server = << >> /\ to_client = << >> /\ ~Serving
  BY <1>1, <1>2 DEF Beginning, BeforeConnected
<1>5. server.app = "" /\ server.caps = None /\ server.playback = None
  BY <1>1, <1>2, <1>4 DEF Beginning, Before, Serving
<1>6. /\ client.chunk_out = DefaultChunkSize /\ server.chunk_in = DefaultChunkSize
      /\ client.caps = None
  BY <1>1, <1>4 DEF Connecting, BeforeConnected
<1>7. /\ client' \in [at : Places, caps : {None, Deal(config)}, stream_id : 0 .. MaxStreams,
                      chunk_in : {DefaultChunkSize, ServerChunkSize},
                      chunk_out : {DefaultChunkSize, ClientChunkSize}]
      /\ client'.at = "connecting" /\ client'.stream_id = 0 /\ client'.caps = None
      /\ client'.chunk_in = client.chunk_in /\ client'.chunk_out = DefaultChunkSize
  BY <1>1, <1>2, <1>4, <1>6 DEF Typed, Places
<1>8. to_server' = << Asked(config) >>
  BY <1>2, <1>4, <1>7, SendsOne DEF Asked
<1>9. Typed'
  BY <1>1, <1>2, <1>3, <1>7 DEF Typed
<1>10. Beginning' /\ Playing'
  BY <1>1, <1>2, <1>3, <1>4, <1>5, <1>7
     DEF Beginning, Playing, BeforeConnected, BeforeStream, Plays, Publishes, Puller
<1>11. Connecting'
  <2>1. Len(to_client') = 0
    BY <1>2, <1>4
  <2>2. \A i \in 1 .. Len(to_client') : FALSE
    BY <2>1
  <2>3. ConnectQueue'
    BY <1>2, <1>3, <1>4, <2>2 DEF ConnectQueue
  <2> QED
    BY <1>3, <1>5, <1>6, <1>7, <1>8, <2>3 DEF Connecting
<1>12. AfterConnect' /\ Creating' /\ Pulling' /\ Publishing'
  BY <1>2, <1>4, <1>7 DEF AfterConnect, Creating, Pulling, Publishing, BeforeConnected, BeforeStream,
                          Plays, Publishes
<1> QED
  BY <1>3, <1>9, <1>10, <1>11, <1>12 DEF IInv, ProtocolInv

(* The handshake fails.                                                    *)
LEMMA HandshakeFailsStep == IInv /\ HandshakeFails => IInv'
<1> SUFFICES ASSUME IInv, HandshakeFails
             PROVE  IInv'
  OBVIOUS
<1>1. /\ client.at = "handshake" /\ client' = [client EXCEPT !.at = "done"]
      /\ UNCHANGED << to_server, events, to_client >> /\ Alone
  BY DEF HandshakeFails, Fails, KeepClient, Alone
<1>2. client.stream_id = 0 /\ to_client \in Seq(Chunks)
  BY <1>1 DEF IInv, ProtocolInv, Beginning, BeforeConnected, Typed
<1> QED
  BY <1>1, <1>2, EarlyDone

(* Queues of none and of one.                                              *)
LEMMA OneOf ==
    ASSUME NEW S
    PROVE  << >> \in Seq(S) /\ \A a \in S : << a >> \in Seq(S)
<1>1. << >> \in Seq(S)
  OBVIOUS
<1>2. ASSUME NEW a \in S
      PROVE  << a >> \in Seq(S)
  BY <1>2
<1> QED
  BY <1>1, <1>2

(* A queue without its first.                                              *)
LEMMA Rest ==
    ASSUME NEW S, NEW s \in Seq(S), s # << >>
    PROVE  /\ Head(s) = s[1] /\ 1 \in 1 .. Len(s) /\ Head(s) \in S
           /\ Tail(s) \in Seq(S) /\ Len(s) \in Nat /\ Len(Tail(s)) = Len(s) - 1
           /\ \A i \in 1 .. Len(Tail(s)) : i + 1 \in 1 .. Len(s) /\ Tail(s)[i] = s[i + 1]
           /\ \A i \in 1 .. Len(s) : i # 1 =>
                  i - 1 \in 1 .. Len(Tail(s)) /\ Tail(s)[i - 1] = s[i]
<1>1. Len(s) \in Nat /\ Len(s) > 0
  OBVIOUS
<1>2. Head(s) = s[1] /\ 1 \in 1 .. Len(s) /\ Head(s) \in S
  BY <1>1
<1>3. /\ Tail(s) \in Seq(S) /\ Len(Tail(s)) = Len(s) - 1
      /\ \A i \in 1 .. Len(Tail(s)) : Tail(s)[i] = s[i + 1]
  BY HeadTailProperties
<1>4. \A i \in 1 .. Len(Tail(s)) : i + 1 \in 1 .. Len(s)
  BY <1>1, <1>3
<1>5. ASSUME NEW i \in 1 .. Len(s), i # 1
      PROVE  i - 1 \in 1 .. Len(Tail(s)) /\ Tail(s)[i - 1] = s[i]
  <2>1. i - 1 \in 1 .. Len(Tail(s)) /\ (i - 1) + 1 = i
    BY <1>1, <1>3, <1>5
  <2> QED
    BY <1>3, <2>1
<1> QED
  BY <1>1, <1>2, <1>3, <1>4, <1>5

(* What the client does with the first of its queue, by where it waits.    *)
LEMMA ClientTakesFacts ==
    ASSUME IInv, ClientReads
    PROVE  LET m == Parsed(Head(to_client))
           IN  /\ Alone /\ to_client # << >> /\ to_client' = Tail(to_client)
               /\ client.at \in Waits \cup {"pulling"} /\ ~Before
               /\ client.at = "connecting" => ReadsConnectResult(m)
               /\ client.at = "creating" => ReadsStream(m)
               /\ client.at = "playing" => ReadsPlayStatus(m)
               /\ client.at = "publishing" => ReadsPublishStatus(m)
               /\ client.at = "pulling" => Pulls(m)
BY DEF IInv, ProtocolInv, Beginning, ClientReads, ClientTakes, KeepClient, Alone

(* The codes and names that a client looks for.                            *)
LEMMA HearsConnect ==
    /\ \A a \in ConnectAnswers :
           /\ ~Named(a, {"_result"}) /\ a[1] # "SetChunkSize"
           /\ a \in ServerMessages
    /\ ~Named(ChunkSize(ServerChunkSize), {"_result", "_error"})
    /\ ~Named(ChunkSize(ServerChunkSize), {"_result"})
    /\ ~Named(ChunkSize(ServerChunkSize), {"_error"})
<1>1. \A a \in ConnectAnswers : ~Named(a, {"_result"}) /\ a[1] # "SetChunkSize"
  BY AnswersSay DEF ConnectAnswers, Named
<1>2. \A names : ~Named(ChunkSize(ServerChunkSize), names)
  BY AnswersSay DEF Named
<1> QED
  BY <1>1, <1>2, AllAreSent

(* connect is accepted: the client goes on with what the server has agreed *)
(* to, or, if it requires Enhanced RTMP and was not given it, ends.        *)
LEMMA ConnectResultStep ==
    ASSUME IInv, Alone, client.at = "connecting", to_client # << >>, to_client' = Tail(to_client),
           Head(to_client) = From(ConnectResult(1, Deal(config))), Len(to_client) = 1,
           to_server = << >>, Concluded, client.chunk_in = ServerChunkSize,
           ReadsConnectResult(ConnectResult(1, Deal(config)))
    PROVE  IInv'
<1> DEFINE m == ConnectResult(1, Deal(config))
           params == ConnectParams(m[2].command_object)
<1>1. Typed /\ Beginning /\ Playing /\ Connecting
  BY DEF IInv, ProtocolInv
<1>2. /\ ServerInv' /\ UNCHANGED << phase, publishing_to, frame_rx, taken >>
      /\ config' = config /\ server' = server /\ ended_by' = ended_by
      /\ (Before' <=> Before) /\ (Serving' <=> Serving)
  BY AloneFacts
<1>3. /\ config \in Configurations /\ to_client \in Seq(Chunks)
      /\ events = << >> /\ client.stream_id = 0
  BY <1>1 DEF Typed, Beginning, BeforeConnected
<1>4. to_client' = << >>
  BY <1>3, Rest
<1>5. m[1] = "Command" /\ m[2].name = "_result" /\ m[2] = ConnectResponse(1, Deal(config))
  BY AnswersSay
<1>6. /\ HasEnhancedRtmp(params) <=> Deal(config) # None
      /\ Deal(config) # None =>
            /\ config.client_mode # "LegacyOnly"
            /\ Intersect(config.client_caps, ToEnhancedCapabilities(params)).enabled
            /\ Deal(config) = {Intersect(config.client_caps, ToEnhancedCapabilities(params))}
  BY <1>3, <1>5, ResultRead
<1>7. Agreed(m[2]) = Deal(config)
  BY <1>6 DEF Agreed
<1>8. Named(m, {"_result"}) /\ ~Named(m, {"_error"}) /\ Named(m, {"_result", "_error"})
  BY <1>5 DEF Named
<1> HIDE DEF params
<1>9. \/ Fails
      \/ /\ config.client_mode = "EnhancedOnly" => HasEnhancedRtmp(params)
         /\ client' = [client EXCEPT !.at = "creating", !.caps = Agreed(m[2]),
                                     !.chunk_out = ClientChunkSize]
         /\ ClientSends(<< ChunkSize(ClientChunkSize), CreateStreamRequest >>)
         /\ Tell(<< "Connected" >>)
  BY <1>8 DEF ReadsConnectResult, params
<1>12. << >> \in Seq(Chunks) /\ << "Connected" >> \in Seq(Told)
  BY OneOf DEF Told
<1>10. CASE Fails
  <2>1. to_client' \in Seq(Chunks)
    BY <1>4, <1>12
  <2> QED
    BY <1>3, <1>10, <2>1, EarlyDone DEF Fails
<1>11. CASE /\ config.client_mode = "EnhancedOnly" => HasEnhancedRtmp(params)
            /\ client' = [client EXCEPT !.at = "creating", !.caps = Agreed(m[2]),
                                        !.chunk_out = ClientChunkSize]
            /\ ClientSends(<< ChunkSize(ClientChunkSize), CreateStreamRequest >>)
            /\ Tell(<< "Connected" >>)
  <2>1. events' = << "Connected" >>
    BY <1>3, <1>11 DEF Tell
  <2>2. /\ client' \in [at : Places, caps : {None, Deal(config)}, stream_id : 0 .. MaxStreams,
                        chunk_in : {DefaultChunkSize, ServerChunkSize},
                        chunk_out : {DefaultChunkSize, ClientChunkSize}]
        /\ client'.at = "creating" /\ client'.stream_id = 0 /\ client'.caps = Deal(config)
        /\ client'.chunk_in = ServerChunkSize /\ client'.chunk_out = ClientChunkSize
    BY <1>1, <1>3, <1>7, <1>11 DEF Typed, Places
  <2>3. to_server' = << Sent(ChunkSize(ClientChunkSize)), Sent(CreateStreamRequest) >>
    BY <1>11, <2>2, SendsTwo DEF Sent
  <2>4. Typed'
    <3>1. to_client' \in Seq(Chunks) /\ events' \in Seq(Told)
      BY <1>4, <1>12, <2>1
    <3> QED
      BY <1>1, <1>2, <2>2, <3>1 DEF Typed
  <2>5. events' # << >> /\ events # << "Connected" >>
    BY <1>3, <2>1
  <2>6. ~Before /\ server.playback = None /\ server.chunk_in = DefaultChunkSize
    BY <1>1, <1>3 DEF Beginning, Playing, Plays, Connecting, BeforeConnected
  <2>7. Beginning' /\ Playing'
    BY <1>1, <1>2, <1>3, <2>2, <2>5, <2>6
       DEF Beginning, Playing, BeforeConnected, BeforeStream, Plays, Publishes, Puller
  <2>8. Connecting' /\ Pulling' /\ Publishing'
    BY <2>2, <2>5 DEF Connecting, Pulling, Publishing, BeforeConnected, Plays, Publishes
  <2>9. AfterConnect'
    <3>1. ASSUME "EnhancedOnly" \in {config.client_mode, config.server_mode}
          PROVE  Deal(config) # None
      BY <1>3, <1>6, <1>11, <3>1, DealFacts DEF Concluded
    <3> QED
      BY <1>2, <2>2, <3>1 DEF AfterConnect, Concluded
  <2>10. Creating'
    BY <1>2, <1>4, <2>1, <2>3, <2>6 DEF Creating
  <2> QED
    BY <1>2, <2>4, <2>7, <2>8, <2>9, <2>10 DEF IInv, ProtocolInv
<1> QED
  BY <1>9, <1>10, <1>11

(* Waiting for the answer to connect.                                      *)
LEMMA ReadsConnectResultStep == IInv /\ ClientReads /\ client.at = "connecting" => IInv'
<1> SUFFICES ASSUME IInv, ClientReads, client.at = "connecting"
             PROVE  IInv'
  OBVIOUS
<1> DEFINE m == Parsed(Head(to_client))
<1>1. /\ Typed /\ Beginning /\ Playing /\ Connecting
      /\ Alone /\ to_client # << >> /\ to_client' = Tail(to_client) /\ ~Before
      /\ ReadsConnectResult(m)
  BY ClientTakesFacts DEF IInv, ProtocolInv
<1> HIDE DEF m
<1>2. /\ ServerInv' /\ UNCHANGED << phase, publishing_to, frame_rx, taken >>
      /\ config' = config /\ server' = server /\ ended_by' = ended_by
      /\ (Before' <=> Before) /\ (Serving' <=> Serving)
  BY <1>1, AloneFacts
<1>3. /\ config \in Configurations /\ to_client \in Seq(Chunks)
      /\ events = << >> /\ client.stream_id = 0 /\ BeforeConnected
  BY <1>1 DEF Typed, Beginning, BeforeConnected
<1>4. ConnectQueue /\ client.caps = None /\ client.chunk_out = DefaultChunkSize
  BY <1>1, <1>3 DEF Connecting
<1>5. /\ Head(to_client) = to_client[1] /\ 1 \in 1 .. Len(to_client) /\ Len(to_client) \in Nat
      /\ to_client' \in Seq(Chunks) /\ Len(to_client') = Len(to_client) - 1
      /\ \A i \in 1 .. Len(to_client') : i + 1 \in 1 .. Len(to_client) /\ to_client'[i] = to_client[i + 1]
  BY <1>1, <1>3, Rest
<1>6. client.chunk_in = ServerChunkSize \/ Head(to_client) = NewSize
  BY <1>1, <1>4, <1>5 DEF ConnectQueue
(* It waits on.                                                            *)
<1>7. ASSUME client' = [client EXCEPT !.chunk_in = ServerChunkSize], UNCHANGED << to_server, events >>
      PROVE  IInv'
  <2>1. /\ client' \in [at : Places, caps : {None, Deal(config)}, stream_id : 0 .. MaxStreams,
                        chunk_in : {DefaultChunkSize, ServerChunkSize},
                        chunk_out : {DefaultChunkSize, ClientChunkSize}]
        /\ client'.at = "connecting" /\ client'.stream_id = 0 /\ client'.caps = None
        /\ client'.chunk_in = ServerChunkSize /\ client'.chunk_out = client.chunk_out
    BY <1>1, <1>3, <1>4, <1>7 DEF Typed
  <2>2. Typed'
    BY <1>1, <1>2, <1>5, <1>7, <2>1 DEF Typed
  <2>3. Beginning' /\ Playing'
    BY <1>1, <1>2, <1>3, <1>7, <2>1
       DEF Beginning, Playing, BeforeConnected, BeforeStream, Plays, Publishes, Puller
  <2>4. ConnectQueue'
    <3>1. ASSUME NEW i \in 1 .. Len(to_client')
          PROVE  \/ \E a \in ConnectAnswers : to_client'[i] = From(a)
                 \/ /\ to_client'[i] = From(ConnectResult(1, Deal(config)))
                    /\ i = Len(to_client') /\ to_server = << >> /\ Concluded
      <4>1. i + 1 \in 1 .. Len(to_client) /\ to_client'[i] = to_client[i + 1] /\ i + 1 # 1
        BY <1>5, <3>1
      <4>2. i + 1 = Len(to_client) => i = Len(to_client')
        BY <1>5, <3>1
      <4>3. \/ \E a \in ConnectAnswers : to_client[i + 1] = From(a)
            \/ /\ to_client[i + 1] = From(ConnectResult(1, Deal(config)))
               /\ i + 1 = Len(to_client) /\ to_server = << >> /\ Concluded
        BY <1>4, <4>1 DEF ConnectQueue
      <4> QED
        BY <4>1, <4>2, <4>3
    <3>2. Concluded' = Concluded
      BY <1>2 DEF Concluded
    <3> QED
      BY <1>2, <1>7, <2>1, <3>1, <3>2 DEF ConnectQueue
  <2>5. Connecting'
    BY <1>1, <1>2, <1>3, <1>7, <2>1, <2>4 DEF Connecting, BeforeConnected
  <2>6. AfterConnect' /\ Creating' /\ Pulling' /\ Publishing'
    BY <1>3, <1>7, <2>1 DEF AfterConnect, Creating, Pulling, Publishing, BeforeConnected,
                            BeforeStream, Plays, Publishes
  <2> QED
    BY <1>2, <2>2, <2>3, <2>5, <2>6 DEF IInv, ProtocolInv
<1>8. CASE Head(to_client) = NewSize
  <2>1. m = ChunkSize(ServerChunkSize)
    BY <1>8, AnswersArrive DEF m
  <2>2. Stays(m)
    BY <1>1, <2>1, HearsConnect DEF ReadsConnectResult
  <2>3. ChunkIn(m) = ServerChunkSize
    BY <2>1, AnswersSay DEF ChunkIn
  <2> QED
    BY <1>7, <2>2, <2>3 DEF Stays
<1>9. ASSUME NEW a \in ConnectAnswers, Head(to_client) = From(a)
      PROVE  IInv'
  <2>1. m = a /\ ~Named(m, {"_result"}) /\ m[1] # "SetChunkSize"
    BY <1>9, AnswersArrive, HearsConnect DEF m
  <2>2. client.chunk_in = ServerChunkSize
    <3>1. Parsed(NewSize)[1] = "SetChunkSize"
      BY AnswersArrive, AnswersSay
    <3> QED
      BY <1>6, <2>1, <3>1 DEF m
  <2>3. Fails \/ Stays(m)
    BY <1>1, <2>1 DEF ReadsConnectResult
  <2>4. CASE Fails
    BY <1>1, <1>3, <1>5, <2>4, EarlyDone DEF Fails
  <2>5. CASE Stays(m)
    BY <1>7, <2>1, <2>2, <2>5 DEF Stays, ChunkIn
  <2> QED
    BY <2>3, <2>4, <2>5
<1>10. CASE /\ Head(to_client) = From(ConnectResult(1, Deal(config)))
            /\ 1 = Len(to_client) /\ to_server = << >> /\ Concluded
  <2>1. ConnectResult(1, Deal(config)) \in ServerMessages
    BY <1>3, AllAreSent
  <2>2. m = ConnectResult(1, Deal(config))
    BY <1>10, <2>1, AnswersArrive DEF m
  <2>3. client.chunk_in = ServerChunkSize
    <3>1. Parsed(NewSize)[1] = "SetChunkSize" /\ m[1] = "Command"
      BY <2>2, AnswersArrive, AnswersSay
    <3> QED
      BY <1>6, <3>1 DEF m
  <2> QED
    BY <1>1, <1>10, <2>2, <2>3, ConnectResultStep
<1> QED
  BY <1>4, <1>5, <1>8, <1>9, <1>10 DEF ConnectQueue

(* The answer to createStream, and the request that follows.               *)
LEMMA ReadsStreamStep == IInv /\ ClientReads /\ client.at = "creating" => IInv'
<1> SUFFICES ASSUME IInv, ClientReads, client.at = "creating"
             PROVE  IInv'
  OBVIOUS
<1> DEFINE m == Parsed(Head(to_client))
<1>1. /\ Typed /\ Beginning /\ Playing /\ Connecting /\ AfterConnect /\ Creating
      /\ Alone /\ to_client # << >> /\ to_client' = Tail(to_client) /\ ~Before
      /\ ReadsStream(m)
  BY ClientTakesFacts DEF IInv, ProtocolInv
<1> HIDE DEF m
<1>2. /\ ServerInv' /\ UNCHANGED << phase, publishing_to, frame_rx, taken >>
      /\ config' = config /\ server' = server /\ ended_by' = ended_by
      /\ (Before' <=> Before) /\ (Serving' <=> Serving)
  BY <1>1, AloneFacts
<1>3. BeforeStream /\ events # << >> /\ client.stream_id = 0
  BY <1>1 DEF Beginning, BeforeStream
<1>4. PICK id \in 1 .. MaxStreams :
          /\ to_client = << From(CreateStreamResult(2, id)) >> /\ to_server = << >>
          /\ server.chunk_in = ClientChunkSize /\ events = << "Connected" >>
  BY <1>1, <1>3 DEF Creating
<1>5. to_client' = << >> /\ m = CreateStreamResult(2, id)
  <2>1. CreateStreamResult(2, id) \in ServerMessages
    BY AllAreSent
  <2>2. Head(to_client) = From(CreateStreamResult(2, id)) /\ Tail(to_client) = << >>
    BY <1>4, Tuples
  <2> QED
    BY <1>1, <2>1, <2>2, AnswersArrive DEF m
<1>6. /\ Named(m, {"_result"}) /\ m[2].transaction_id = 2
      /\ AsNumber(First(m[2])) = {id}
  BY <1>5, AnswersSay DEF Named
<1>7. AsNumber(First(m[2])) # None /\ Or(AsNumber(First(m[2])), 0) = id
  BY <1>6, OrFacts DEF None
<1>8. /\ client' = [client EXCEPT !.stream_id = id,
                        !.at = IF Puller THEN "playing" ELSE "publishing"]
      /\ ClientSends(IF Puller THEN << BufferLength(id), PlayRequest(id) >>
                     ELSE << ReleaseRequest, FcPublishRequest, PublishRequest(id) >>)
      /\ events' = events
  BY <1>1, <1>6, <1>7 DEF ReadsStream
<1>9. /\ id # 0 /\ id \in 0 .. MaxStreams /\ client.chunk_out = ClientChunkSize
      /\ server.playback = None /\ ended_by # "stream_end"
  BY <1>1, <1>3, ClientServerAssumption DEF AfterConnect, BeforeConnected, Playing, Plays
<1>10. /\ client' \in [at : Places, caps : {None, Deal(config)}, stream_id : 0 .. MaxStreams,
                       chunk_in : {DefaultChunkSize, ServerChunkSize},
                       chunk_out : {DefaultChunkSize, ClientChunkSize}]
       /\ client'.at = (IF Puller THEN "playing" ELSE "publishing")
       /\ client'.stream_id = id /\ client'.caps = client.caps
       /\ client'.chunk_in = client.chunk_in /\ client'.chunk_out = ClientChunkSize
  BY <1>1, <1>8, <1>9 DEF Typed, Places
<1>11. /\ Puller => to_server' = << Sent(BufferLength(id)), Sent(PlayRequest(id)) >>
       /\ ~Puller => to_server' = << Sent(ReleaseRequest), Sent(FcPublishRequest),
                                     Sent(PublishRequest(id)) >>
  BY <1>4, <1>8, <1>10, SendsTwo, SendsThree DEF Sent
<1>12. Typed'
  <2>1. << >> \in Seq(Chunks)
    OBVIOUS
  <2> QED
    BY <1>1, <1>2, <1>5, <1>8, <1>10, <2>1 DEF Typed
<1>13. Beginning' /\ Playing'
  BY <1>1, <1>2, <1>3, <1>8, <1>9, <1>10
     DEF Beginning, Playing, BeforeConnected, BeforeStream, Plays, Publishes, Puller
<1>14. Connecting' /\ Creating'
  BY <1>9, <1>10 DEF Connecting, Creating, BeforeConnected, BeforeStream
<1>15. AfterConnect'
  BY <1>1, <1>2, <1>3, <1>10 DEF AfterConnect, BeforeConnected
<1>16. \A i \in 1 .. Len(to_client') : FALSE
  <2>1. Len(to_client') = 0
    BY <1>5
  <2> QED
    BY <2>1
<1>17. Pulling'
  <2>1. ASSUME Puller
        PROVE  PlayRequested' /\ client'.at = "playing"
    BY <1>2, <1>5, <1>9, <1>10, <1>11, <2>1 DEF PlayRequested
  <2>2. PlayQueue'
    BY <1>16 DEF PlayQueue
  <2> QED
    BY <1>2, <1>4, <1>8, <1>9, <2>1, <2>2 DEF Pulling, Plays, Puller
<1>18. Publishing'
  <2>1. ASSUME ~Puller
        PROVE  PublishRequested' /\ client'.at = "publishing"
    BY <1>10, <1>11, <1>16, <2>1 DEF PublishRequested
  <2> QED
    BY <1>2, <1>4, <1>16, <2>1 DEF Publishing, Publishes, Puller
<1> QED
  BY <1>2, <1>12, <1>13, <1>14, <1>15, <1>17, <1>18 DEF IInv, ProtocolInv

(* What one who waits to play, or plays, hears.                            *)
LEMMA HearsPlay ==
    /\ \A a \in PlayAnswers :
           /\ ~(a[1] = "UserControl" /\ a[2][1] = "StreamEof")
           /\ ~(Named(a, {"onStatus"}) /\ Code(a[2]) = {"NetStream.Play.Stop"})
    /\ Named(Start, {"onStatus"}) /\ Code(Start[2]) = {"NetStream.Play.Start"}
    /\ \A e \in Ends : e[1] # "Audio"
    /\ StreamEof(0)[1] # "Audio"
<1>1. ASSUME NEW code, NEW other
      PROVE  {code} = {other} => code = other
  OBVIOUS
<1>2. ASSUME NEW a \in PlayAnswers
      PROVE  /\ ~(a[1] = "UserControl" /\ a[2][1] = "StreamEof")
             /\ ~(Named(a, {"onStatus"}) /\ Code(a[2]) = {"NetStream.Play.Stop"})
  <2>1. CASE a \in {StreamBegin(0), Sound}
    BY <2>1, AnswersSay DEF Named
  <2>2. ASSUME NEW code \in {"NetStream.Play.Reset", "NetStream.Play.Start",
                             "NetStream.Play.StreamNotFound"},
               a[1] = "Command", Code(a[2]) = {code}
        PROVE  /\ ~(a[1] = "UserControl" /\ a[2][1] = "StreamEof")
               /\ ~(Named(a, {"onStatus"}) /\ Code(a[2]) = {"NetStream.Play.Stop"})
    BY <1>1, <2>2
  <2>3. ASSUME NEW code
        PROVE  /\ Status(0, code)[1] = "Command" /\ Code(Status(0, code)[2]) = {code}
               /\ Refusal(0, code)[1] = "Command" /\ Code(Refusal(0, code)[2]) = {code}
    BY AnswersSay
  <2>4. CASE a = Status(0, "NetStream.Play.Reset")
    BY <2>2, <2>3, <2>4
  <2>5. CASE a = Start
    BY <2>2, <2>3, <2>5 DEF Start
  <2>6. CASE a = Refusal(0, "NetStream.Play.StreamNotFound")
    BY <2>2, <2>3, <2>6
  <2> QED
    BY <2>1, <2>4, <2>5, <2>6 DEF PlayAnswers
<1>3. Named(Start, {"onStatus"}) /\ Code(Start[2]) = {"NetStream.Play.Start"}
  BY AnswersSay DEF Start, Named
<1>4. StreamEof(0)[1] # "Audio" /\ \A e \in Ends : e[1] # "Audio"
  BY AnswersSay DEF Ends
<1> QED
  BY <1>2, <1>3, <1>4

(* The queue of one who plays, without its first.                          *)
LEMMA PlayRest ==
    ASSUME to_client \in Seq(Chunks), to_client # << >>, to_client' = Tail(to_client),
           ended_by' = ended_by
    PROVE  /\ to_client' \in Seq(Chunks)
           /\ PlayQueue => PlayQueue'
           /\ \A i \in 1 .. Len(to_client) : i # 1 /\ Eof(i) => Eof(i - 1)'
           /\ Eof(1) => Eof(0)'
           /\ Head(to_client) # From(Start) /\ WillStart => WillStart'
           /\ Head(to_client) # From(StreamEof(0)) /\ Eof(0) => Eof(0)'
<1>1. /\ Head(to_client) = to_client[1] /\ 1 \in 1 .. Len(to_client)
      /\ to_client' \in Seq(Chunks) /\ Len(to_client) \in Nat
      /\ \A i \in 1 .. Len(to_client') : i + 1 \in 1 .. Len(to_client) /\ to_client'[i] = to_client[i + 1]
      /\ \A i \in 1 .. Len(to_client) : i # 1 =>
             i - 1 \in 1 .. Len(to_client') /\ to_client'[i - 1] = to_client[i]
  BY Rest
<1>2. PlayQueue => PlayQueue'
  BY <1>1 DEF PlayQueue
<1>3. ASSUME NEW i \in 1 .. Len(to_client), Eof(i)
      PROVE  Eof(i - 1)'
  <2>1. PICK j \in 1 .. Len(to_client) : j > i /\ to_client[j] = From(StreamEof(0))
    BY <1>3 DEF Eof
  <2>2. j # 1 /\ j - 1 > i - 1
    BY <1>1, <1>3, <2>1
  <2> QED
    BY <1>1, <2>1, <2>2 DEF Eof
<1>4. Eof(1) => Eof(0)'
  <2>1. ASSUME Eof(1)
        PROVE  Eof(1 - 1)'
    BY <1>1, <1>3, <2>1
  <2>2. 1 - 1 = 0
    OBVIOUS
  <2> QED
    BY <2>1, <2>2
<1>5. ASSUME Head(to_client) # From(Start), WillStart
      PROVE  WillStart'
  <2>1. PICK i \in 1 .. Len(to_client) :
            to_client[i] = From(Start) /\ (ended_by = "stream_end" => Eof(i))
    BY <1>5 DEF WillStart
  <2>2. i # 1
    BY <1>1, <1>5, <2>1
  <2>3. i - 1 \in 1 .. Len(to_client') /\ to_client'[i - 1] = From(Start)
    BY <1>1, <2>1, <2>2
  <2>4. ended_by' = "stream_end" => Eof(i - 1)'
    BY <1>3, <2>1
  <2> QED
    BY <2>3, <2>4 DEF WillStart
<1>6. ASSUME Head(to_client) # From(StreamEof(0)), Eof(0)
      PROVE  Eof(0)'
  <2>1. PICK j \in 1 .. Len(to_client) : to_client[j] = From(StreamEof(0))
    BY <1>6 DEF Eof
  <2>2. j # 1
    BY <1>1, <1>6, <2>1
  <2>3. j - 1 \in 1 .. Len(to_client') /\ to_client'[j - 1] = From(StreamEof(0)) /\ j - 1 > 0
    BY <1>1, <2>1, <2>2
  <2> QED
    BY <2>3 DEF Eof
<1> QED
  BY <1>1, <1>2, <1>3, <1>4, <1>5, <1>6

(* What the application has been told is told.                             *)
LEMMA ToldMore ==
    ASSUME events \in Seq(Told), NEW r \in Seq(Told), Tell(r)
    PROVE  /\ events' \in Seq(Told) /\ Len(events) \in Nat
           /\ Len(events') = Len(events) + Len(r)
           /\ \A i \in 1 .. Len(events) : events'[i] = events[i]
           /\ \A i \in 1 .. Len(r) : events'[Len(events) + i] = r[i]
<1>1. events' = events \o r
  BY DEF Tell
<1>2. Len(events) \in Nat /\ Len(r) \in Nat
  OBVIOUS
<1>3. events' \in Seq(Told) /\ Len(events') = Len(events) + Len(r)
  BY <1>1
<1>4. ASSUME NEW i \in 1 .. Len(events)
      PROVE  events'[i] = events[i]
  BY <1>1, <1>2, <1>4
<1>5. ASSUME NEW i \in 1 .. Len(r)
      PROVE  events'[Len(events) + i] = r[i]
  BY <1>1, <1>2, <1>5
<1> QED
  BY <1>2, <1>3, <1>4, <1>5

(* The same for two events.                                                *)
LEMMA ToldTwo ==
    ASSUME events \in Seq(Told), NEW a \in Told, NEW b \in Told, Tell(<< a, b >>)
    PROVE  /\ events' \in Seq(Told) /\ Len(events) \in Nat
           /\ Len(events') = Len(events) + 2
           /\ \A i \in 1 .. Len(events) : events'[i] = events[i]
           /\ events'[Len(events) + 1] = a /\ events'[Len(events) + 2] = b
<1>1. << a, b >> \in Seq(Told) /\ Len(<< a, b >>) = 2
  OBVIOUS
<1>2. << a, b >>[1] = a /\ << a, b >>[2] = b /\ 1 \in 1 .. 2 /\ 2 \in 1 .. 2
  OBVIOUS
<1> DEFINE r == << a, b >>
<1>3. r \in Seq(Told) /\ Len(r) = 2 /\ r[1] = a /\ r[2] = b /\ Tell(r)
  BY <1>1, <1>2
<1> HIDE DEF r
<1> QED
  BY <1>2, <1>3, ToldMore

(* The end of one who pulled.                                              *)
LEMMA ToldEnd ==
    ASSUME Len(events) \in Nat, Len(events) > 0,
           \A i \in 2 .. Len(events) : events[i] = "AudioTag",
           Len(events') = Len(events) + 2,
           \A i \in 1 .. Len(events) : events'[i] = events[i],
           events'[Len(events) + 2] = "Disconnected",
           \/ events'[Len(events) + 1] = "StreamEnd" /\ ended_by' = "stream_end"
           \/ events'[Len(events) + 1] = "Error" /\ ended_by' # "stream_end"
              /\ phase'[Me] = "closed"
    PROVE  ToldOf'
<1>1. /\ Len(events') > 2 /\ Len(events') - 1 = Len(events) + 1
      /\ Len(events') - 2 = Len(events)
  OBVIOUS
<1>2. ASSUME NEW i \in 2 .. Len(events') - 2
      PROVE  events'[i] = "AudioTag"
  <2>1. i \in 2 .. Len(events) /\ i \in 1 .. Len(events)
    BY <1>1, <1>2
  <2> QED
    BY <2>1
<1>3. events'[Len(events')] = "Disconnected"
  OBVIOUS
<1> QED
  BY <1>1, <1>2, <1>3 DEF ToldOf

(* One who plays has asked, and all that is on its way are answers.        *)
LEMMA PlayerReads ==
    ASSUME IInv, ClientReads, client.at \in {"playing", "pulling"}
    PROVE  /\ Plays /\ server.chunk_in = ClientChunkSize /\ to_server = << >> /\ PlayQueue
           /\ to_client \in Seq(Chunks) /\ events \in Seq(Told) /\ events # << >>
           /\ \/ \E a \in PlayAnswers : Head(to_client) = From(a)
              \/ ended_by = "stream_end" /\ \E e \in Ends : Head(to_client) = From(e)
<1>1. Typed /\ Beginning /\ Pulling /\ to_client # << >>
  BY ClientTakesFacts DEF IInv, ProtocolInv
<1>2. /\ Plays /\ to_client \in Seq(Chunks) /\ events \in Seq(Told)
      /\ client.stream_id # 0 /\ events # << >>
  BY <1>1 DEF Typed, Beginning, Plays
<1>3. server.chunk_in = ClientChunkSize /\ to_server = << >> /\ PlayQueue
  BY <1>1, <1>2 DEF Pulling, PlayRequested
<1>4. Head(to_client) = to_client[1] /\ 1 \in 1 .. Len(to_client)
  BY <1>1, <1>2, Rest
<1> QED
  BY <1>2, <1>3, <1>4 DEF PlayQueue

(* Waiting for the answer to play.                                         *)
LEMMA ReadsPlayStatusStep == IInv /\ ClientReads /\ client.at = "playing" => IInv'
<1> SUFFICES ASSUME IInv, ClientReads, client.at = "playing"
             PROVE  IInv'
  OBVIOUS
<1> DEFINE m == Parsed(Head(to_client))
           q == IF Named(m, {"onStatus"}) /\ Code(m[2]) = {"NetStream.Play.Start"}
                THEN "pulling" ELSE "playing"
<1>1. /\ Playing /\ Pulling /\ Alone /\ to_client # << >> /\ to_client' = Tail(to_client)
      /\ ReadsPlayStatus(m)
  BY ClientTakesFacts DEF IInv, ProtocolInv
<1>2. /\ Plays /\ server.chunk_in = ClientChunkSize /\ to_server = << >> /\ PlayQueue
      /\ to_client \in Seq(Chunks) /\ events \in Seq(Told) /\ events # << >>
  BY PlayerReads
<1>3. /\ (client' = client /\ q = client.at) \/ client' = [client EXCEPT !.at = q]
      /\ UNCHANGED << to_server, events >>
  BY <1>1 DEF ReadsPlayStatus
<1>4. m = Start => q = "pulling"
  BY HearsPlay
<1>5. Head(to_client) = From(Start) => m = Start
  BY AnswersArrive, AllAreSent DEF PlayAnswers
<1>6. /\ config' = config /\ server' = server /\ ended_by' = ended_by
  BY <1>1 DEF Alone
<1>7. q \in {"playing", "pulling"}
  OBVIOUS
<1> HIDE DEF q, m
<1>8. /\ events = << "Connected" >> /\ (server.playback # None => WillStart)
      /\ (server.playback = None => ended_by # "stream_end")
  BY <1>1, <1>2 DEF Pulling, Playing
<1>9. /\ to_client' \in Seq(Chunks) /\ PlayQueue'
      /\ Head(to_client) # From(Start) /\ WillStart => WillStart'
  BY <1>1, <1>2, <1>6, PlayRest
<1>10. q = "playing" => (server.playback # None => WillStart')
  BY <1>4, <1>5, <1>8, <1>9
<1>11. ended_by = "stream_end" => Eof(0)'
  <2>1. ASSUME ended_by = "stream_end"
        PROVE  Eof(0)'
    <3>1. PICK i \in 1 .. Len(to_client) : Eof(i)
      BY <1>8, <2>1 DEF WillStart
    <3>2. PICK j \in 1 .. Len(to_client) : j > i /\ to_client[j] = From(StreamEof(0))
      BY <3>1 DEF Eof
    <3>3. j # 1 /\ j - 1 > 0
      BY <3>1, <3>2
    <3>4. j - 1 \in 1 .. Len(to_client') /\ to_client'[j - 1] = to_client[j]
      BY <1>1, <1>2, <3>3, Rest
    <3> QED
      BY <3>2, <3>3, <3>4 DEF Eof
  <2> QED
    BY <2>1
<1>12. /\ client'.at = q /\ client'.stream_id = client.stream_id
  BY <1>3 DEF IInv, ProtocolInv, Typed
<1>13. Pulling'
  <2>1. Len(events') = 1 /\ \A i \in 2 .. Len(events') : FALSE
    BY <1>3, <1>8
  <2> QED
    BY <1>2, <1>3, <1>6, <1>7, <1>8, <1>9, <1>10, <1>11, <1>12, <2>1 DEF Pulling
<1> QED
  BY <1>1, <1>2, <1>3, <1>7, <1>9, <1>13, LaterStep DEF Plays

(* It pulls: a frame, or the end.                                          *)
LEMMA PullsStep == IInv /\ ClientReads /\ client.at = "pulling" => IInv'
<1> SUFFICES ASSUME IInv, ClientReads, client.at = "pulling"
             PROVE  IInv'
  OBVIOUS
<1> DEFINE m == Parsed(Head(to_client))
<1>1. /\ Pulling /\ Alone /\ to_client # << >> /\ to_client' = Tail(to_client) /\ Pulls(m)
  BY ClientTakesFacts DEF IInv, ProtocolInv
<1>2. /\ Plays /\ server.chunk_in = ClientChunkSize /\ to_server = << >> /\ PlayQueue
      /\ to_client \in Seq(Chunks) /\ events \in Seq(Told) /\ events # << >>
      /\ \/ \E a \in PlayAnswers : Head(to_client) = From(a)
         \/ ended_by = "stream_end" /\ \E e \in Ends : Head(to_client) = From(e)
  BY PlayerReads
<1>3. /\ Len(events) > 0 /\ \A i \in 2 .. Len(events) : events[i] = "AudioTag"
      /\ ended_by = "stream_end" => Eof(0)
  BY <1>1, <1>2 DEF Pulling
<1>4. config' = config /\ server' = server /\ ended_by' = ended_by
  BY <1>1 DEF Alone
<1>5. /\ to_client' \in Seq(Chunks) /\ PlayQueue'
      /\ Head(to_client) # From(StreamEof(0)) /\ Eof(0) => Eof(0)'
  BY <1>1, <1>2, <1>4, PlayRest
<1>6. CASE m[1] = "Audio" /\ Tell(<< "AudioTag" >>) /\ UNCHANGED << client, to_server >>
  <2>1. << "AudioTag" >> \in Seq(Told)
    BY OneOf DEF Told
  <2>2. Head(to_client) # From(StreamEof(0))
    BY <1>6, AnswersArrive, AllAreSent, HearsPlay DEF Ends
  <2>3. /\ events' \in Seq(Told) /\ Len(events) \in Nat
        /\ Len(events') = Len(events) + 1
        /\ \A i \in 1 .. Len(events) : events'[i] = events[i]
        /\ events'[Len(events) + 1] = "AudioTag"
    <3>1. Len(<< "AudioTag" >>) = 1 /\ 1 \in 1 .. 1 /\ << "AudioTag" >>[1] = "AudioTag"
      OBVIOUS
    <3> QED
      BY <1>2, <1>6, <2>1, <3>1, ToldMore
  <2>4. ASSUME NEW i \in 2 .. Len(events')
        PROVE  events'[i] = "AudioTag"
    <3>1. i \in 2 .. Len(events) \/ i = Len(events) + 1
      BY <2>3, <2>4
    <3>2. i \in 2 .. Len(events) => i \in 1 .. Len(events)
      BY <2>3
    <3> QED
      BY <1>3, <2>3, <3>1, <3>2
  <2>5. events' # << >> /\ Len(events') > 0
    BY <2>3
  <2>6. Pulling'
    BY <1>2, <1>3, <1>4, <1>5, <1>6, <2>2, <2>4, <2>5 DEF Pulling
  <2> QED
    BY <1>1, <1>2, <1>5, <1>6, <2>3, <2>5, <2>6, LaterStep DEF Plays
<1>7. CASE /\ \/ m[1] = "UserControl" /\ m[2][1] = "StreamEof"
              \/ Named(m, {"onStatus"}) /\ Code(m[2]) = {"NetStream.Play.Stop"}
           /\ client' = [client EXCEPT !.at = "done"]
           /\ Tell(<< "StreamEnd", "Disconnected" >>)
           /\ UNCHANGED to_server
  <2>1. ended_by = "stream_end"
    <3>1. ASSUME NEW a \in PlayAnswers, Head(to_client) = From(a)
          PROVE  FALSE
      <4>1. m = a
        BY <3>1, AnswersArrive, AllAreSent
      <4> QED
        BY <1>7, <3>1, <4>1, HearsPlay
    <3> QED
      BY <1>2, <3>1
  <2>2. "StreamEnd" \in Told /\ "Disconnected" \in Told
    BY DEF Told
  <2>3. /\ events' \in Seq(Told) /\ Len(events) \in Nat
        /\ Len(events') = Len(events) + 2
        /\ \A i \in 1 .. Len(events) : events'[i] = events[i]
        /\ events'[Len(events) + 1] = "StreamEnd" /\ events'[Len(events) + 2] = "Disconnected"
    BY <1>2, <1>7, <2>2, ToldTwo
  <2>4. ToldOf'
    BY <1>3, <1>4, <2>1, <2>3, ToldEnd
  <2>5. client'.at = "done"
    BY <1>7 DEF IInv, ProtocolInv, Typed
  <2>6. events' # << >>
    BY <2>3
  <2>7. Pulling'
    BY <1>2, <1>4, <1>7, <2>4, <2>5 DEF Pulling
  <2> QED
    BY <1>1, <1>2, <1>5, <1>7, <2>3, <2>6, <2>7, LaterStep DEF Plays
<1> QED
  BY <1>1, <1>6, <1>7 DEF Pulls

(* What one who waits to publish hears.                                    *)
LEMMA HearsPublish ==
    /\ \A a \in PublishAnswers :
           /\ a[1] # "SetChunkSize"
           /\ Named(a, {"onStatus"}) /\ Code(a[2]) = {"NetStream.Publish.Start"} => a = Announced
    /\ ~Named(OnFcPublish, {"onStatus"})
<1>1. \A a \in PublishAnswers : a[1] # "SetChunkSize"
  BY AnswersSay DEF PublishAnswers, Announced
<1>2. ~Named(OnFcPublish, {"onStatus"}) /\ ~Named(StreamBegin(0), {"onStatus"})
  BY AnswersSay DEF Named
<1>3. Code(Refusal(0, "NetStream.Publish.BadName")[2]) # {"NetStream.Publish.Start"}
  <2>1. Code(Refusal(0, "NetStream.Publish.BadName")[2]) = {"NetStream.Publish.BadName"}
    BY AnswersSay
  <2> QED
    BY <2>1
<1> QED
  BY <1>1, <1>2, <1>3 DEF PublishAnswers

(* A step of the publisher, if what is left to read and to do agrees.      *)
LEMMA PublisherGoesOn ==
    ASSUME IInv, Alone, Publishes, NEW q \in {"publishing", "published", "done"},
           (client' = client /\ q = client.at) \/ client' = [client EXCEPT !.at = q],
           to_server' \in Seq({SentSound(client.stream_id)}) \/ PublishRequested',
           to_client' \in Seq(Chunks),
           q # "done" => \A i \in 1 .. Len(to_client') :
                             \E a \in PublishAnswers : to_client'[i] = From(a),
           \/ q = "published"
           \/ q = "publishing" /\ \E i \in 1 .. Len(to_client') : to_client'[i] = From(Announced)
           => (Serving => publishing_to[Me] = The),
           events' \in Seq(Told), events' # << >>
    PROVE  IInv'
<1>1. Publishing /\ Typed
  BY DEF IInv, ProtocolInv
<1>2. client'.at = q /\ client'.stream_id = client.stream_id
  BY <1>1 DEF Typed
<1>3. /\ config' = config /\ server' = server /\ publishing_to' = publishing_to
      /\ (Serving' <=> Serving)
  BY AloneFacts
<1>4. server.chunk_in = ClientChunkSize
  BY <1>1 DEF Publishing
<1>5. Publishing'
  BY <1>2, <1>3, <1>4 DEF Publishing
<1> QED
  BY <1>5, LaterStep DEF Publishes

(* One who publishes, or waits to.                                         *)
LEMMA PublisherFacts ==
    ASSUME IInv, client.at \in {"publishing", "published"}
    PROVE  /\ Publishes /\ Publishing
           /\ to_client \in Seq(Chunks) /\ events \in Seq(Told) /\ events # << >>
           /\ PublishRequested \/ to_server \in Seq({SentSound(client.stream_id)})
           /\ \A i \in 1 .. Len(to_client) : \E a \in PublishAnswers : to_client[i] = From(a)
<1>1. Typed /\ Beginning /\ Publishing
  BY DEF IInv, ProtocolInv
<1>2. /\ Publishes /\ to_client \in Seq(Chunks) /\ events \in Seq(Told)
      /\ client.stream_id # 0 /\ events # << >>
  BY <1>1 DEF Typed, Beginning, Publishes
<1> QED
  BY <1>1, <1>2 DEF Publishing

(* Waiting for the answer to publish.                                      *)
LEMMA ReadsPublishStatusStep == IInv /\ ClientReads /\ client.at = "publishing" => IInv'
<1> SUFFICES ASSUME IInv, ClientReads, client.at = "publishing"
             PROVE  IInv'
  OBVIOUS
<1> DEFINE m == Parsed(Head(to_client))
<1>1. /\ Alone /\ to_client # << >> /\ to_client' = Tail(to_client) /\ ReadsPublishStatus(m)
  BY ClientTakesFacts
<1>2. /\ Publishes /\ Publishing
      /\ to_client \in Seq(Chunks) /\ events \in Seq(Told) /\ events # << >>
      /\ PublishRequested \/ to_server \in Seq({SentSound(client.stream_id)})
      /\ \A i \in 1 .. Len(to_client) : \E a \in PublishAnswers : to_client[i] = From(a)
  BY PublisherFacts
<1>3. /\ Head(to_client) = to_client[1] /\ 1 \in 1 .. Len(to_client)
      /\ to_client' \in Seq(Chunks)
      /\ \A i \in 1 .. Len(to_client') :
             i + 1 \in 1 .. Len(to_client) /\ to_client'[i] = to_client[i + 1]
  BY <1>1, <1>2, Rest
<1>4. PICK a \in PublishAnswers : Head(to_client) = From(a)
  BY <1>2, <1>3
<1>5. m = a
  BY <1>4, AnswersArrive, AllAreSent
<1> HIDE DEF m
<1>6. \A i \in 1 .. Len(to_client') : \E b \in PublishAnswers : to_client'[i] = From(b)
  BY <1>2, <1>3
<1>7. (\E i \in 1 .. Len(to_client) : to_client[i] = From(Announced)) =>
          (Serving => publishing_to[Me] = The)
  BY <1>2 DEF Publishing
<1>8. CASE /\ Named(m, {"onStatus"}) /\ Code(m[2]) = {"NetStream.Publish.Start"}
           /\ client' = [client EXCEPT !.at = "published"]
           /\ Tell(<< "Publishing" >>)
           /\ UNCHANGED to_server
  <2>1. a = Announced
    BY <1>5, <1>8, HearsPublish
  <2>2. Serving => publishing_to[Me] = The
    BY <1>3, <1>4, <1>7, <2>1
  <2>3. to_server \in Seq({SentSound(client.stream_id)})
    <3>1. ASSUME PublishRequested
          PROVE  FALSE
      <4>1. Head(to_client) = From(OnFcPublish)
        BY <1>3, <3>1 DEF PublishRequested
      <4>2. m = OnFcPublish
        BY <4>1, AnswersArrive, AllAreSent DEF m, PublishAnswers
      <4> QED
        BY <1>8, <4>2, HearsPublish
    <3> QED
      BY <1>2, <3>1
  <2>4. << "Publishing" >> \in Seq(Told) /\ Len(<< "Publishing" >>) = 1
    BY OneOf DEF Told
  <2>5. events' \in Seq(Told) /\ events' # << >>
    <3>1. events' \in Seq(Told) /\ Len(events) \in Nat /\ Len(events') = Len(events) + 1
      BY <1>2, <1>8, <2>4, ToldMore
    <3> QED
      BY <3>1
  <2> QED
    BY <1>1, <1>2, <1>3, <1>6, <1>8, <2>2, <2>3, <2>5, PublisherGoesOn
<1>9. CASE Fails
  <2>1. PublishRequested => PublishRequested'
    BY <1>9 DEF PublishRequested, Fails, IInv, ProtocolInv, Typed
  <2> QED
    BY <1>1, <1>2, <1>3, <1>9, <2>1, PublisherGoesOn DEF Fails
<1>10. CASE Stays(m)
  <2>1. client' = client /\ to_server' = to_server /\ events' = events
    <3>1. ChunkIn(m) = client.chunk_in
      BY <1>5, HearsPublish DEF ChunkIn
    <3> QED
      BY <1>10, <3>1 DEF Stays, IInv, ProtocolInv, Typed
  <2>2. PublishRequested => PublishRequested'
    BY <1>3, <2>1 DEF PublishRequested
  <2>3. (\E i \in 1 .. Len(to_client') : to_client'[i] = From(Announced)) =>
            (Serving => publishing_to[Me] = The)
    BY <1>3, <1>7
  <2> QED
    BY <1>1, <1>2, <1>3, <1>6, <2>1, <2>2, <2>3, PublisherGoesOn
<1> QED
  BY <1>1, <1>8, <1>9, <1>10 DEF ReadsPublishStatus

(* Audio, on the stream the client created.                                *)
LEMMA SendAudioStep == IInv /\ SendAudio => IInv'
<1> SUFFICES ASSUME IInv, SendAudio
             PROVE  IInv'
  OBVIOUS
<1>1. /\ client.at = "published" /\ Alone
      /\ to_server' = Append(to_server, Chunk(Sound, client.stream_id, client.chunk_out))
      /\ UNCHANGED << client, to_client, events >>
  BY DEF SendAudio, Alone
<1>2. /\ Publishes /\ Publishing
      /\ to_client \in Seq(Chunks) /\ events \in Seq(Told) /\ events # << >>
      /\ PublishRequested \/ to_server \in Seq({SentSound(client.stream_id)})
      /\ \A i \in 1 .. Len(to_client) : \E a \in PublishAnswers : to_client[i] = From(a)
  BY <1>1, PublisherFacts
<1>3. Serving => publishing_to[Me] = The
  BY <1>1, <1>2 DEF Publishing
<1>4. client.chunk_out = ClientChunkSize
  BY <1>2 DEF IInv, ProtocolInv, AfterConnect, BeforeConnected, Publishes
<1>5. to_server' \in Seq({SentSound(client.stream_id)})
  <2>1. to_server \in Seq({SentSound(client.stream_id)})
    BY <1>1, <1>2 DEF PublishRequested
  <2>2. to_server' = Append(to_server, SentSound(client.stream_id))
    BY <1>1, <1>4 DEF SentSound
  <2> QED
    BY <2>1, <2>2
<1> QED
  BY <1>1, <1>2, <1>3, <1>5, PublisherGoesOn

(* The publisher disconnects.                                              *)
LEMMA DisconnectStep == IInv /\ Disconnect => IInv'
<1> SUFFICES ASSUME IInv, Disconnect
             PROVE  IInv'
  OBVIOUS
<1>1. /\ client.at = "published" /\ Alone
      /\ client' = [client EXCEPT !.at = "done"]
      /\ UNCHANGED << to_server, to_client >> /\ Tell(<< "Disconnected" >>)
  BY DEF Disconnect, KeepClient, Alone
<1>2. /\ Publishes /\ Publishing
      /\ to_client \in Seq(Chunks) /\ events \in Seq(Told) /\ events # << >>
      /\ PublishRequested \/ to_server \in Seq({SentSound(client.stream_id)})
  BY <1>1, PublisherFacts
<1>3. to_server \in Seq({SentSound(client.stream_id)})
  BY <1>1, <1>2 DEF PublishRequested
<1>4. << "Disconnected" >> \in Seq(Told) /\ Len(<< "Disconnected" >>) = 1
  BY OneOf DEF Told
<1>5. events' \in Seq(Told) /\ events' # << >>
  <2>1. events' \in Seq(Told) /\ Len(events) \in Nat /\ Len(events') = Len(events) + 1
    BY <1>1, <1>2, <1>4, ToldMore
  <2> QED
    BY <2>1
<1> QED
  BY <1>1, <1>2, <1>3, <1>5, PublisherGoesOn

(* The socket is closed, and all of it has been read.                      *)
LEMMA ConnectionLostStep == IInv /\ ConnectionLost => IInv'
<1> SUFFICES ASSUME IInv, ConnectionLost
             PROVE  IInv'
  OBVIOUS
<1>1. /\ Typed /\ Beginning /\ Pulling /\ Alone
      /\ phase[Me] = "closed" /\ to_client = << >> /\ to_client' = to_client
  BY DEF ConnectionLost, KeepClient, Alone, IInv, ProtocolInv
<1>2. /\ to_client' \in Seq(Chunks) /\ events \in Seq(Told)
      /\ client.stream_id # 0 => events # << >>
  BY <1>1 DEF Typed, Beginning
<1>3. /\ UNCHANGED << phase, publishing_to >>
      /\ config' = config /\ server' = server /\ ended_by' = ended_by
  BY <1>1, AloneFacts
<1>4. ~Eof(0) /\ ~WillStart
  <2>1. Len(to_client) = 0
    BY <1>1
  <2> QED
    BY <2>1 DEF Eof, WillStart
<1>5. CASE client.at \in {"connecting", "creating"} /\ Fails
  <2>1. client.stream_id = 0
    BY <1>1, <1>5 DEF Beginning, BeforeConnected, BeforeStream
  <2> QED
    BY <1>1, <1>2, <1>5, <2>1, EarlyDone DEF Fails
<1>6. CASE client.at = "playing" /\ Fails
  <2>1. /\ client'.at = "done" /\ client'.stream_id = client.stream_id
        /\ to_server' = to_server /\ events' = events
    BY <1>1, <1>6 DEF Fails, Typed
  <2>2. Plays /\ events = << "Connected" >> /\ server.chunk_in = ClientChunkSize
    BY <1>1, <1>6 DEF Beginning, Pulling
  <2>3. PlayRequested \/ to_server = << >>
    BY <1>1, <2>2 DEF Pulling
  <2>4. Pulling'
    BY <1>1, <1>3, <2>1, <2>2, <2>3 DEF Pulling, PlayRequested, ToldOf
  <2> QED
    BY <1>1, <1>2, <1>6, <2>1, <2>2, <2>4, LaterStep DEF Fails, Plays
<1>7. CASE client.at = "publishing" /\ Fails
  <2>1. PublishRequested => PublishRequested'
    BY <1>1, <1>7 DEF PublishRequested, Fails, Typed
  <2> QED
    BY <1>1, <1>2, <1>7, <2>1, PublisherFacts, PublisherGoesOn DEF Fails
<1>8. CASE /\ client.at = "pulling" /\ client' = [client EXCEPT !.at = "done"]
           /\ Tell(<< "Error", "Disconnected" >>) /\ UNCHANGED to_server
  <2>1. /\ Plays /\ server.chunk_in = ClientChunkSize
        /\ Len(events) > 0 /\ \A i \in 2 .. Len(events) : events[i] = "AudioTag"
        /\ ended_by # "stream_end"
    BY <1>1, <1>4, <1>8 DEF Beginning, Pulling
  <2>2. "Error" \in Told /\ "Disconnected" \in Told
    BY DEF Told
  <2>3. /\ events' \in Seq(Told) /\ Len(events) \in Nat
        /\ Len(events') = Len(events) + 2
        /\ \A i \in 1 .. Len(events) : events'[i] = events[i]
        /\ events'[Len(events) + 1] = "Error" /\ events'[Len(events) + 2] = "Disconnected"
    BY <1>2, <1>8, <2>2, ToldTwo
  <2>4. ToldOf'
    BY <1>1, <1>3, <2>1, <2>3, ToldEnd
  <2>5. client'.at = "done"
    BY <1>1, <1>8 DEF Typed
  <2>6. events' # << >>
    BY <2>3
  <2>7. PlayRequested \/ to_server = << >>
    BY <1>1, <2>1 DEF Pulling
  <2>8. Pulling'
    BY <1>1, <1>3, <1>8, <2>1, <2>4, <2>5, <2>7 DEF Pulling, PlayRequested, Typed
  <2> QED
    BY <1>1, <1>2, <1>8, <2>1, <2>3, <2>6, <2>8, LaterStep DEF Plays
<1> QED
  BY <1>5, <1>6, <1>7, <1>8 DEF ConnectionLost, Waits

(* The client keeps the invariant.                                         *)
LEMMA ClientStep == IInv /\ ClientNext => IInv'
<1>1. IInv /\ ClientReads => IInv'
  <2>1. ClientReads => client.at \in {"connecting", "creating", "playing", "publishing", "pulling"}
    BY DEF ClientReads, ClientTakes, Waits
  <2> QED
    BY <2>1, ReadsConnectResultStep, ReadsStreamStep, ReadsPlayStatusStep, PullsStep,
       ReadsPublishStatusStep
<1> QED
  BY <1>1, ClientConnectsStep, HandshakeFailsStep, ConnectionLostStep, SendAudioStep,
     DisconnectStep DEF ClientNext

(* So does every step.                                                     *)
LEMMA InvStep == IInv /\ [Next]_vars => IInv'
<1>1. IInv /\ UNCHANGED vars => IInv'
  <2> SUFFICES ASSUME IInv, UNCHANGED vars
               PROVE  IInv'
    OBVIOUS
  <2>1. UNCHANGED serverVars /\ UNCHANGED Protocol
    BY DEF vars, serverVars, Protocol
  <2>2. ServerInv' /\ UNCHANGED << phase, publishing_to, frame_rx, taken >>
    BY <2>1, SameServer DEF IInv
  <2>3. ProtocolInv'
    BY <2>1, <2>2, QuietStep DEF IInv, ProtocolInv, Playing, Before, Serving
  <2> QED
    BY <2>2, <2>3 DEF IInv
<1> QED
  BY <1>1, ServerStep, ClientStep, ElsewhereStep DEF Next

----------------------------------------------------------------------------
(* The theorems.                                                           *)

(* The inductive invariant holds of every behaviour.                       *)
THEOREM Invariance == Spec => []IInv
BY InvInit, InvStep, PTL DEF Spec

(* Whatever the two configurations, a client that is connected goes by the *)
(* capabilities the server goes by, and a side that requires Enhanced RTMP *)
(* has it (connection.rs:749, connector.rs:302).                           *)
THEOREM NegotiationIsAgreed == Spec => []NegotiationAgrees
BY Invariance, InvAgrees, PTL

(* No reader ever cuts a message by another size than its writer, although *)
(* both change their sizes while messages are on their way                 *)
(* (connection.rs:232, connector.rs:238).                                  *)
THEOREM ChunkSizesMatch == Spec => []ChunkSizesAgree
BY Invariance, InvSizes, PTL

(* A publisher that was told that it publishes holds its key as long as    *)
(* its connection is served, whatever another publisher and the cleanup    *)
(* task do (connector.rs:417).                                             *)
THEOREM PublisherIsHeld == Spec => []PublishingIsHeld
BY Invariance, InvHeld, PTL

(* An application that pulled is told its end once and last, and the end   *)
(* of the stream is never taken for a failure, although the server closes  *)
(* the socket (connection.rs:399, puller.rs:114).                          *)
THEOREM EndIsToldOnce == Spec => []EndIsTold
BY Invariance, InvTold, PTL

----------------------------------------------------------------------------
(* The refinement of MediaServer.                                          *)

(* What is published or played is what the client's URL names, in the      *)
(* application that connect has named.                                     *)
LEMMA OneKeyIsNamed ==
    ASSUME IInv, ServerTakes, NEW m, m = Parsed(Head(to_server)),
           m[1] = "Command", m[2].name \in {"publish", "play"}
    PROVE  KeyOf(m[2]) = The
<1>1. /\ Typed /\ Connecting /\ AfterConnect /\ Creating /\ Pulling /\ Publishing
      /\ to_server # << >> /\ config \in Configurations
  BY DEF ServerTakes, IInv, ProtocolInv, Typed
<1>2. CASE BeforeConnected
  <2>1. to_server = << Asked(config) >>
    BY <1>1, <1>2 DEF Connecting
  <2>2. Head(to_server) = Asked(config)
    BY <2>1, Tuples
  <2> QED
    BY <1>1, <2>2, RequestsArrive
<1>3. CASE BeforeStream
  <2>1. \/ Head(to_server) = Sent(ChunkSize(ClientChunkSize))
        \/ Head(to_server) = Sent(CreateStreamRequest)
    BY <1>1, <1>3, Tuples DEF Creating
  <2> QED
    BY <2>1, RequestsArrive
<1>4. ASSUME client.stream_id # 0
      PROVE  client.stream_id \in 1 .. MaxStreams /\ server.app = App
  <2>1. client.stream_id \in 0 .. MaxStreams /\ MaxStreams \in Nat
    BY <1>1, ClientServerAssumption DEF Typed
  <2>2. server.app = App
    BY <1>1, <1>4 DEF AfterConnect, BeforeConnected
  <2> QED
    BY <1>4, <2>1, <2>2
<1>5. CASE Plays
  <2>1. \/ Head(to_server) = Sent(BufferLength(client.stream_id))
        \/ Head(to_server) = Sent(PlayRequest(client.stream_id))
    BY <1>1, <1>5, Tuples DEF Pulling, PlayRequested
  <2>2. Or(AsStr(First(m[2])), "") = Name
    BY <1>4, <1>5, <2>1, RequestsArrive DEF Plays
  <2> QED
    BY <1>4, <1>5, <2>2 DEF KeyOf, The, Plays
<1>6. CASE Publishes
  <2>1. \/ Head(to_server) = Sent(ReleaseRequest)
        \/ Head(to_server) = Sent(FcPublishRequest)
        \/ Head(to_server) = Sent(PublishRequest(client.stream_id))
        \/ Head(to_server) = SentSound(client.stream_id)
    <3>1. CASE PublishRequested
      BY <3>1, Tuples DEF PublishRequested
    <3>2. CASE to_server \in Seq({SentSound(client.stream_id)})
      BY <1>1, <3>2
    <3> QED
      BY <1>1, <1>6, <3>1, <3>2 DEF Publishing
  <2>2. Or(AsStr(First(m[2])), "") = Name
    BY <1>4, <1>6, <2>1, RequestsArrive DEF Publishes
  <2> QED
    BY <1>4, <1>6, <2>2 DEF KeyOf, The, Publishes
<1> QED
  BY <1>2, <1>3, <1>5, <1>6 DEF BeforeConnected, BeforeStream, Plays, Publishes

(* The connection and the registry, and nothing else of the model.         *)
ServerSafe == Server!Init /\ [][Server!Next]_serverVars

(* Steps of the two sessions are steps of MediaServer.                     *)
LEMMA MySteps ==
    /\ \/ Server!Open(Me) \/ Server!OpenFails(Me) \/ Server!Serve(Me)
       \/ Server!NextIteration(Me) \/ Server!StreamEnded(Me) \/ Server!LoopEnds(Me)
       \/ Server!CreateStream(Me) \/ Server!Closing(Me)
       \/ \E id \in Server!StreamId, k \in Key : Server!Publish(Me, id, k) \/ Server!Play(Me, id, k)
       \/ \E k \in Key : Server!PublishRefused(Me, k)
       => Server!Next
    /\ \/ Server!Open(Other) \/ Server!Serve(Other) \/ Server!LoopEnds(Other)
       \/ Server!Closing(Other)
       \/ \E k \in Key : Server!Publish(Other, MaxStreams + 1, k)
       => Server!Next
<1>1. MaxStreams + 1 \in Server!StreamId
  BY ClientServerAssumption DEF Server!StreamId
<1>2. \A s \in Session : Server!Connection(s) => Server!Next
  BY DEF Server!Next
<1>3. /\ \/ Server!Open(Me) \/ Server!OpenFails(Me) \/ Server!Serve(Me)
         \/ Server!NextIteration(Me) \/ Server!StreamEnded(Me) \/ Server!LoopEnds(Me)
         \/ Server!CreateStream(Me) \/ Server!Closing(Me)
         \/ \E id \in Server!StreamId, k \in Key : Server!Publish(Me, id, k) \/ Server!Play(Me, id, k)
         \/ \E k \in Key : Server!PublishRefused(Me, k)
         => Server!Connection(Me)
  BY DEF Server!Connection, Server!Command
<1>4. /\ \/ Server!Open(Other) \/ Server!Serve(Other) \/ Server!LoopEnds(Other)
         \/ Server!Closing(Other)
         \/ \E k \in Key : Server!Publish(Other, MaxStreams + 1, k)
         => Server!Connection(Other)
  BY <1>1 DEF Server!Connection, Server!Command
<1> QED
  BY <1>2, <1>3, <1>4, MeAndOther

(* So is what the server does for what the client asks: it names a key     *)
(* there is.                                                               *)
LEMMA ServerStepIsServers == IInv /\ ServerNext => Server!Next \/ UNCHANGED serverVars
<1> SUFFICES ASSUME IInv, ServerNext
             PROVE  Server!Next \/ UNCHANGED serverVars
  OBVIOUS
<1>1. CASE ServerReads
  <2> DEFINE m == Parsed(Head(to_server))
  <2>1. /\ ServerTakes
        /\ \/ UNCHANGED serverVars
           \/ m[1] = "Command" /\ HandleCommand(m[2])
           \/ HandleAudio
    BY <1>1 DEF ServerReads
  <2> HIDE DEF m
  <2>2. ASSUME NEW messages, End(messages)
        PROVE  Server!Next
    BY <2>2, MySteps DEF End
  <2>3. CASE HandleAudio
    BY <2>3, MySteps DEF HandleAudio
  <2>4. ASSUME m[1] = "Command", HandleConnect(m[2])
        PROVE  Server!Next \/ UNCHANGED serverVars
    BY <2>2, <2>4 DEF HandleConnect
  <2>5. ASSUME HandleCreateStream(m[2])
        PROVE  Server!Next
    BY <2>5, MySteps DEF HandleCreateStream
  <2>6. ASSUME HandleFcPublish(m[2])
        PROVE  Server!Next \/ UNCHANGED serverVars
    BY <2>2, <2>6 DEF HandleFcPublish
  <2>7. ASSUME m[1] = "Command", m[2].name \in {"publish", "play"}
        PROVE  KeyOf(m[2]) \in Key /\ StreamOf(m[2]) \in Server!StreamId
    <3>1. KeyOf(m[2]) = The
      BY <2>1, <2>7, OneKeyIsNamed DEF m
    <3>2. StreamOf(m[2]) \in Server!StreamId
      BY ClientServerAssumption DEF StreamOf, Server!StreamId
    <3> QED
      BY <3>1, <3>2, MeAndOther
  <2>8. ASSUME m[1] = "Command", m[2].name = "publish", HandlePublish(m[2])
        PROVE  Server!Next
    BY <2>2, <2>7, <2>8, MySteps DEF HandlePublish
  <2>9. ASSUME m[1] = "Command", m[2].name = "play", HandlePlay(m[2])
        PROVE  Server!Next \/ UNCHANGED serverVars
    BY <2>7, <2>9, MySteps DEF HandlePlay
  <2> QED
    BY <2>1, <2>3, <2>4, <2>5, <2>6, <2>8, <2>9 DEF HandleCommand
<1>2. CASE ServerOpens \/ ServerOpenFails \/ ServerServes \/ ServerTurns \/ ServerCleansUp
           \/ ServerLeaves
  BY <1>2, MySteps DEF ServerOpens, ServerOpenFails, ServerServes, ServerTurns, ServerCleansUp,
                       ServerLeaves, Server!Closing
<1>3. CASE ServerIdles \/ PeerCloses \/ TooSlow \/ ServerStreamEnds
  BY <1>3, MySteps DEF ServerIdles, PeerCloses, TooSlow, ServerStreamEnds, ServerEnds
<1>4. CASE ServerBroadcasts
  BY <1>4 DEF ServerBroadcasts
<1> QED
  BY <1>1, <1>2, <1>3, <1>4 DEF ServerNext

(* What the messages of a client make its connection do is what            *)
(* MediaServer says a connection does: every behaviour of the two sides is *)
(* one of it, seen from the session and the registry (connection.rs:300).  *)
THEOREM ServesAsMediaServer == Spec => ServerSafe
<1>1. Init => Server!Init
  BY DEF Init
<1>2. IInv /\ [Next]_vars => [Server!Next]_serverVars
  <2>1. ClientNext \/ UNCHANGED vars => UNCHANGED serverVars
    BY DEF ClientNext, ClientConnects, HandshakeFails, ClientReads, ConnectionLost, SendAudio,
           Disconnect, KeepClient, vars, serverVars
  <2>2. Elsewhere => Server!Next
    BY MySteps DEF Elsewhere, Server!Next
  <2> QED
    BY <2>1, <2>2, ServerStepIsServers DEF Next
<1> QED
  BY <1>1, <1>2, Invariance, PTL DEF Spec, ServerSafe
=============================================================================
