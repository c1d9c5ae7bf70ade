-------------------------- MODULE StartupConfiguration --------------------------
(***************************************************************************)
(* ConferenceServer::_init: the settings in the order they are checked, what *)
(* they leave in the server and in the core, the start of the core, and the  *)
(* exceptions that may still come after it.                                  *)
(*                                                                           *)
(* The value of a setting is chosen by the step that reads it.  The loops of  *)
(* enableSelectedCodecs, loadFactoryUris and of the accounts take one step a  *)
(* turn.  A codec has several payload types when the core offers it at        *)
(* several clock rates; what is written in the configuration for a codec is   *)
(* the codec and whether it is written in lower case.  Of the identity of the *)
(* server and of its bindings, which are in ServerBindings, only how they may *)
(* end the start is here.                                                     *)
(***************************************************************************)
EXTENDS Integers, Sequences

CONSTANTS
    Codecs,          \* the MIME types
    MaxPayloads,     \* bound on the payload types of the core
    AnyCase,         \* TRUE: codecs may be configured in upper case
    EmptyLists,      \* TRUE: supported-audio-codecs may be empty
    MaxUris,         \* bound on the factory URIs and on the focus URIs
    Domains,         \* the domains of participants
    FactoryDomains,  \* the domain of each factory URI
    LocalDomains,    \* the local-domains setting
    Timeouts,        \* the values of no-rtp-timeout, in milliseconds
    PerSecond,       \* the milliseconds of a second
    IntMax           \* the largest int

ASSUME BoundsAreNat == {MaxPayloads, MaxUris, IntMax} \subseteq Nat /\ PerSecond \in Nat \ {0}
ASSUME DomainsAssumption == LocalDomains \subseteq Domains /\ FactoryDomains \in [1..MaxUris -> Domains]
ASSUME TimeoutsAssumption == Timeouts # {} /\ Timeouts \subseteq Int

Names == [codec : Codecs, lower : IF AnyCase THEN BOOLEAN ELSE {TRUE}]
SeqsUpTo(S, n) == UNION {[1..k -> S] : k \in 0..n}
MediaTypes == {"audio", "video", "text"}

VARIABLES
    pc,               \* the check that comes next; "loaded" at the end, "rejected" by a
                      \* BadConfiguration, "failed" by another exception, "crashed"
    mMediaConfig,     \* the media types enabled
    hasDatabase,      \* database-connection-string is set
    audioEngineMode,  \* "sfu", or "mixer" for the modes that are not
    noRtpTimeout,     \* the setting, and the seconds given to the core
    payloads,         \* core: the MIME type of each payload type, in order
    listed,           \* supported-audio-codecs as enableSelectedCodecs is given it
    turn,             \* the turn of the current loop
    mimeTypes,        \* the configured codecs not found so far
    enabled,          \* the payload types enabled
    factoryUris,      \* the number of conference-factory-uris
    focusUris,        \* the number of conference-focus-uris
    mConfServerUris,  \* the pairs of factory URI and focus URI
    mLocalDomains,    \* ConferenceServer
    hasClientFactory, \* mRegEventClientFactory is set
    core,             \* "none", "created", or "started": the database may be open, and
                      \* the chat rooms it has make requests
    listening,        \* the server is a listener of the core
    served            \* the requests of chat rooms: a domain and what served it

mediaVars == <<mMediaConfig, hasDatabase, audioEngineMode, noRtpTimeout>>
codecVars == <<payloads, listed, mimeTypes, enabled>>
uriVars == <<factoryUris, focusUris, mConfServerUris>>
serverVars == <<mLocalDomains, hasClientFactory, core, listening, served>>
vars == <<pc, turn, mediaVars, codecVars, uriVars, serverVars>>

TypeOK ==
    /\ pc \in {"transport", "media", "database", "engines", "core", "rtp", "audio", "codecs",
               "video", "directory", "uris", "proxy", "accounts", "factory", "category",
               "start", "starting", "uuid", "binding", "loaded", "rejected", "failed", "crashed"}
    /\ turn \in Nat
    /\ mMediaConfig \subseteq MediaTypes
    /\ hasDatabase \in BOOLEAN
    /\ audioEngineMode \in {"mixer", "sfu"}
    /\ noRtpTimeout \in [setting : Timeouts, seconds : (0 - IntMax - 1)..IntMax]
    /\ payloads \in SeqsUpTo(Codecs, MaxPayloads)
    /\ listed \subseteq Names
    /\ mimeTypes \subseteq listed
    /\ enabled \subseteq DOMAIN payloads
    /\ factoryUris \in 0..MaxUris /\ focusUris \in 0..MaxUris
    /\ mConfServerUris \in Seq((1..factoryUris) \X (1..focusUris))
    /\ mLocalDomains \subseteq Domains
    /\ hasClientFactory \in BOOLEAN
    /\ core \in {"none", "created", "started"}
    /\ listening \in BOOLEAN
    /\ served \subseteq Domains \X {"own", "external", "nothing"}

Init ==
    /\ pc = "transport"
    /\ turn = 1
    /\ mMediaConfig = {} /\ hasDatabase = FALSE /\ audioEngineMode = "mixer"
    /\ noRtpTimeout = [setting |-> CHOOSE t \in Timeouts : TRUE, seconds |-> 0]
    /\ payloads = <<>> /\ listed = {} /\ mimeTypes = {} /\ enabled = {}
    /\ factoryUris = 0 /\ focusUris = 0 /\ mConfServerUris = <<>>
    /\ mLocalDomains = {} /\ hasClientFactory = FALSE
    /\ core = "none" /\ listening = FALSE /\ served = {}

-----------------------------------------------------------------------------
(* Before the core is created, and its first settings *)

\* The check at from goes on at to, or ends with an exception.
Checked(from, valid, to) ==
    pc = from /\ pc' = IF valid THEN to ELSE "rejected"

\* The URI of the server; check-capabilities and state-directory are not checked.
ReadTransport ==
    /\ \E valid \in BOOLEAN : Checked("transport", valid, "media")
    /\ UNCHANGED <<turn, mediaVars, codecVars, uriVars, serverVars>>

\* Words that name no media type are not seen.
ReadMediaTypes ==
    /\ mMediaConfig' \in SUBSET MediaTypes
    /\ Checked("media", mMediaConfig' # {}, "database")
    /\ UNCHANGED <<turn, hasDatabase, audioEngineMode, noRtpTimeout, codecVars, uriVars, serverVars>>

ReadDatabase ==
    /\ hasDatabase' \in BOOLEAN
    /\ Checked("database", "text" \in mMediaConfig => hasDatabase', "engines")
    /\ UNCHANGED <<turn, mMediaConfig, audioEngineMode, noRtpTimeout, codecVars, uriVars, serverVars>>

ReadEngineModes ==
    /\ audioEngineMode' \in {"mixer", "sfu"}
    /\ \E valid \in BOOLEAN : Checked("engines", valid, "core")
    /\ UNCHANGED <<turn, mMediaConfig, hasDatabase, noRtpTimeout, codecVars, uriVars, serverVars>>

\* mutant: the core starts when it is created
CreateStartedCore ==
    /\ Checked("core", TRUE, "rtp")
    /\ core' = "started"
    /\ UNCHANGED <<turn, mediaVars, codecVars, uriVars, mLocalDomains, hasClientFactory, listening, served>>

CreateCore ==
    /\ Checked("core", TRUE, "rtp")
    /\ core' = "created"
    /\ UNCHANGED <<turn, mediaVars, codecVars, uriVars, mLocalDomains, hasClientFactory, listening, served>>

\* static_cast<int>
ToInt(n) == ((n + IntMax + 1) % (2 * (IntMax + 1))) - (IntMax + 1)

\* The setting is checked in milliseconds, and given to the core in seconds.  The
\* server is made a listener of the core next.
ReadNoRtpTimeout ==
    /\ \E t \in Timeouts :
         /\ Checked("rtp", t > 0, "audio")
         /\ noRtpTimeout' = [setting |-> t, seconds |-> ToInt(t \div PerSecond)]
    /\ listening' = (pc' = "audio")
    /\ UNCHANGED <<turn, mMediaConfig, hasDatabase, audioEngineMode, codecVars, uriVars,
                   mLocalDomains, hasClientFactory, core, served>>

-----------------------------------------------------------------------------
(* The codecs *)

\* The codecs configured; with the "sfu" engine, only the first of them.  The order
\* and the repetitions of the list make no difference.  The first element of an
\* empty list is undefined: a crash, or a string that names no codec.
ReadAudioCodecs ==
    /\ pc = "audio"
    /\ payloads' \in SeqsUpTo(Codecs, MaxPayloads)
    /\ \/ /\ listed' \in SUBSET Names
          /\ listed' = {} => EmptyLists /\ audioEngineMode = "mixer"
          /\ audioEngineMode = "sfu" => \A m, n \in listed' : m = n
          /\ pc' = "codecs"
       \/ /\ EmptyLists /\ audioEngineMode = "sfu"
          /\ listed' = {}
          /\ pc' \in {"crashed", "rejected"}
    /\ mimeTypes' = listed'
    /\ UNCHANGED <<turn, mediaVars, enabled, uriVars, serverVars>>

\* string_utils::iequals
SameIgnoringCase(codec, name) == name.codec = codec

\* string_utils::toLower of the MIME type of a payload type
Lower(codec) == [codec |-> codec, lower |-> TRUE]

\* mutant: a codec that is not selected is left enabled
SelectCodecKeepingOthers ==
    /\ pc = "codecs"
    /\ turn <= Len(payloads)
    /\ enabled' = enabled \cup {turn}
    /\ mimeTypes' = mimeTypes \ {Lower(payloads[turn])}
    /\ turn' = turn + 1
    /\ UNCHANGED <<pc, payloads, listed, mediaVars, uriVars, serverVars>>

\* mutant: a codec of one payload type too few is looked for
SelectCodecExceptLast ==
    /\ pc = "codecs"
    /\ turn <= Len(payloads)
    /\ \/ /\ turn < Len(payloads)
          /\ \E name \in mimeTypes : SameIgnoringCase(payloads[turn], name)
          /\ enabled' = enabled \cup {turn}
          /\ mimeTypes' = mimeTypes \ {Lower(payloads[turn])}
       \/ /\ \/ turn = Len(payloads)
             \/ \A name \in mimeTypes : ~SameIgnoringCase(payloads[turn], name)
          /\ enabled' = enabled \ {turn}
          /\ UNCHANGED mimeTypes
    /\ turn' = turn + 1
    /\ UNCHANGED <<pc, payloads, listed, mediaVars, uriVars, serverVars>>

\* mutant: the enabled payload types are counted from the next one
SelectNextCodec ==
    /\ pc = "codecs"
    /\ turn <= Len(payloads)
    /\ enabled' = enabled \cup {turn + 1}
    /\ mimeTypes' = mimeTypes \ {Lower(payloads[turn])}
    /\ turn' = turn + 1
    /\ UNCHANGED <<pc, payloads, listed, mediaVars, uriVars, serverVars>>

SelectCodec ==
    /\ pc = "codecs"
    /\ turn <= Len(payloads)
    /\ \/ /\ \E name \in mimeTypes : SameIgnoringCase(payloads[turn], name)
          /\ enabled' = enabled \cup {turn}
          /\ mimeTypes' = mimeTypes \ {Lower(payloads[turn])}
       \/ /\ \A name \in mimeTypes : ~SameIgnoringCase(payloads[turn], name)
          /\ enabled' = enabled \ {turn}
          /\ UNCHANGED mimeTypes
    /\ turn' = turn + 1
    /\ UNCHANGED <<pc, payloads, listed, mediaVars, uriVars, serverVars>>

CodecsDone ==
    /\ turn > Len(payloads)
    /\ Checked("codecs", mimeTypes = {}, "video")
    /\ turn' = 1
    /\ UNCHANGED <<mediaVars, codecVars, uriVars, serverVars>>

\* The video codec must be "vp8", and the core must offer it.
ReadVideoCodec ==
    /\ \E valid \in BOOLEAN : Checked("video", valid, "directory")
    /\ UNCHANGED <<turn, mediaVars, codecVars, uriVars, serverVars>>

-----------------------------------------------------------------------------
(* The URIs and the accounts *)

\* The directory of the certificates, then the lists of URIs.  An encryption that
\* is not known is left to the core's default.
CreateDtlsDirectory ==
    /\ pc = "directory"
    /\ \/ pc' = "failed" /\ UNCHANGED <<factoryUris, focusUris>>
       \/ /\ pc' = "uris"
          /\ factoryUris' \in 0..MaxUris
          /\ focusUris' \in 0..MaxUris
    /\ UNCHANGED <<turn, mediaVars, codecVars, mConfServerUris, serverVars>>

LoadFactoryUri ==
    /\ turn <= factoryUris
    /\ Checked("uris", turn <= focusUris, "uris")
    /\ mConfServerUris' = IF turn <= focusUris THEN Append(mConfServerUris, <<turn, turn>>)
                                               ELSE mConfServerUris
    /\ turn' = turn + 1
    /\ UNCHANGED <<factoryUris, focusUris, mediaVars, codecVars, serverVars>>

FactoryUrisDone ==
    /\ turn > factoryUris
    /\ Checked("uris", TRUE, "proxy")
    /\ turn' = 1
    /\ UNCHANGED <<mediaVars, codecVars, uriVars, serverVars>>

ReadOutboundProxy ==
    /\ \E valid \in BOOLEAN : Checked("proxy", valid, "accounts")
    /\ UNCHANGED <<turn, mediaVars, codecVars, uriVars, serverVars>>

\* Factory::createAddress gives a null pointer for a URI that is not valid, whose
\* domain is then asked for.
AddAccount ==
    /\ pc = "accounts"
    /\ turn <= Len(mConfServerUris)
    /\ \/ /\ mLocalDomains' = mLocalDomains \cup {FactoryDomains[mConfServerUris[turn][1]]}
          /\ UNCHANGED pc
       \/ /\ pc' = "crashed"
          /\ UNCHANGED mLocalDomains
    /\ turn' = turn + 1
    /\ UNCHANGED <<mediaVars, codecVars, uriVars, hasClientFactory, core, listening, served>>

\* mutant: the domains of the factories are replaced
ReplaceLocalDomains ==
    /\ turn > Len(mConfServerUris)
    /\ Checked("accounts", TRUE, "factory")
    /\ mLocalDomains' = LocalDomains
    /\ UNCHANGED <<turn, mediaVars, codecVars, uriVars, hasClientFactory, core, listening, served>>

AddLocalDomains ==
    /\ turn > Len(mConfServerUris)
    /\ Checked("accounts", TRUE, "factory")
    /\ mLocalDomains' = mLocalDomains \cup LocalDomains
    /\ UNCHANGED <<turn, mediaVars, codecVars, uriVars, hasClientFactory, core, listening, served>>

CreateClientFactory ==
    /\ Checked("factory", TRUE, "category")
    /\ hasClientFactory' = TRUE
    /\ UNCHANGED <<turn, mediaVars, codecVars, uriVars, mLocalDomains, core, listening, served>>

\* The last setting that is checked
ReadHandledCategory ==
    /\ \E valid \in BOOLEAN : Checked("category", valid, "start")
    /\ UNCHANGED <<turn, mediaVars, codecVars, uriVars, serverVars>>

-----------------------------------------------------------------------------
(* The core starts *)

StartCore ==
    /\ Checked("start", TRUE, "starting")
    /\ core' = "started"
    /\ UNCHANGED <<turn, mediaVars, codecVars, uriVars, mLocalDomains, hasClientFactory, listening, served>>

CoreStarted ==
    /\ pc = "starting"
    /\ pc' \in {"uuid", "failed"}
    /\ UNCHANGED <<turn, mediaVars, codecVars, uriVars, serverVars>>

\* The uuid chosen by the core is written, which fails without its directory; a uuid
\* that was read must be the one the core kept.
CheckUuid ==
    /\ pc = "uuid"
    /\ pc' \in {"binding", "failed", "rejected"}
    /\ UNCHANGED <<turn, mediaVars, codecVars, uriVars, serverVars>>

\* If the registrar is writable, an invalid factory URI is refused, and another
\* address may fail to be bound.
BindAddresses ==
    /\ pc = "binding"
    /\ \/ pc' \in {"loaded", "failed"}
       \/ mConfServerUris # <<>> /\ pc' = "rejected"
    /\ UNCHANGED <<turn, mediaVars, codecVars, uriVars, serverVars>>

\* ParticipantRegistrationSubscriptionHandler::subscribe, for a participant of a
\* chat room of the database, from the moment the core starts
SubscriptionRequested(d) ==
    /\ core = "started"
    /\ listening
    /\ pc \notin {"rejected", "failed", "crashed"}
    /\ served' = served \cup
         {<<d, IF d \in mLocalDomains THEN "own"
               ELSE IF hasClientFactory THEN "external" ELSE "nothing">>}
    /\ UNCHANGED <<pc, turn, mediaVars, codecVars, uriVars, mLocalDomains, hasClientFactory,
                   core, listening>>

Next ==
    \/ ReadTransport \/ ReadMediaTypes \/ ReadDatabase \/ ReadEngineModes
    \/ CreateCore \/ ReadNoRtpTimeout
    \/ ReadAudioCodecs \/ SelectCodec \/ CodecsDone \/ ReadVideoCodec
    \/ CreateDtlsDirectory \/ LoadFactoryUri \/ FactoryUrisDone \/ ReadOutboundProxy
    \/ AddAccount \/ AddLocalDomains \/ CreateClientFactory \/ ReadHandledCategory
    \/ StartCore \/ CoreStarted \/ CheckUuid \/ BindAddresses
    \/ \E d \in Domains : SubscriptionRequested(d)

Spec == Init /\ [][Next]_vars

-----------------------------------------------------------------------------
Offered == {payloads[i] : i \in DOMAIN payloads}
Wanted == {name.codec : name \in listed}
Local == LocalDomains \cup {FactoryDomains[k] : k \in 1..factoryUris}

(* A server that starts provides every codec of its configuration and no      *)
(* other, every factory URI has a focus URI of its own, a text server has its *)
(* database, and the local domains are those of the factories and of the      *)
(* setting (conference-server.cc:66-89,200-237,274-291,318-340).              *)
LoadedAsConfigured ==
    pc = "loaded" =>
        /\ {payloads[i] : i \in enabled} = Wanted
        /\ mConfServerUris = [k \in 1..factoryUris |-> <<k, k>>]
        /\ "text" \in mMediaConfig => hasDatabase
        /\ mLocalDomains = Local

(* The configuration is rejected for its codecs only when one of them is not  *)
(* supported by the core, as the message of the exception says (288-290).     *)
OnlyUnsupportedCodecsAreRejected ==
    pc = "rejected" /\ mimeTypes # {} => ~(Wanted \subseteq Offered)

(* A configuration is rejected before the core starts: no database is         *)
(* migrated, no chat room loaded nor any request served by a server that then *)
(* gives up.  Two refusals come later, and only these: of a uuid that the     *)
(* core did not keep (268), and of a factory URI that cannot be bound (432,   *)
(* called from 271).                                                          *)
RejectedBeforeTheStart ==
    [][pc' = "rejected" => \/ core # "started" /\ served = {}
                           \/ pc \in {"uuid", "binding"}]_vars

(* The chat rooms of the database may ask for their participants as soon as   *)
(* the core starts.  The server hears them all, those of a domain that is     *)
(* local by a factory or by the setting get an own subscription, and the      *)
(* others find the factory of clients (138,193-233,257).                      *)
RequestsFindTheServerReady ==
    /\ core = "started" => listening
    /\ \A d \in Domains :
         /\ <<d, "nothing">> \notin served
         /\ <<d, "external">> \in served => d \notin Local
         /\ <<d, "own">> \in served => d \in Local

(* A server that starts gives its core a timeout: "duration must be strictly  *)
(* positive" (conference-server.cc:133), and "For performance reasons, this   *)
(* parameter cannot be disabled." (714-715).                                  *)
NoRtpTimeoutIsPositive == pc = "loaded" => noRtpTimeout.seconds > 0

(* A server that starts has an audio codec: "This parameter cannot be empty"  *)
(* (supported-audio-codecs, conference-server.cc:624).                        *)
AudioCodecsAreNotEmpty == pc = "loaded" => enabled # {}

=============================================================================
