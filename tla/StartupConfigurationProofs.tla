----------------------- MODULE StartupConfigurationProofs -----------------------
(***************************************************************************)
(* Theorems about StartupConfiguration, for any codecs, lists of URIs,       *)
(* domains and timeouts.                                                     *)
(*                                                                           *)
(* The invariant says what each stage of the start leaves for the next ones; *)
(* in the three loops, what their turns have done so far.                    *)
(***************************************************************************)
EXTENDS StartupConfiguration, TLAPS

\* The stages from each check on, the last ones first
Ready == {"start", "starting", "uuid", "binding", "loaded"}
WithFactory == Ready \cup {"category"}
WithDomains == WithFactory \cup {"factory"}
WithUris == WithDomains \cup {"proxy", "accounts"}
WithCodecs == WithUris \cup {"video", "directory", "uris"}
WithTimeout == WithCodecs \cup {"audio", "codecs"}
WithDatabase == WithTimeout \cup {"engines", "core", "rtp"}
First == {"transport", "media", "database", "engines", "core", "rtp", "audio"}

\* What the settings that were checked have left
SettingsInv ==
    /\ pc \in WithDatabase => ("text" \in mMediaConfig => hasDatabase)
    /\ pc \in WithTimeout => listening

\* enableSelectedCodecs: what is enabled is configured, and what was found is enabled
CodecsInv ==
    /\ turn # 0
    /\ pc \in First => turn = 1 /\ enabled = {}
    /\ pc = "codecs" => enabled \subseteq 1..(turn - 1)
    /\ pc \in WithCodecs => mimeTypes = {}
    /\ \A i \in enabled : payloads[i] \in Wanted
    /\ \A name \in listed \ mimeTypes : \E i \in enabled : payloads[i] = name.codec

\* loadFactoryUris: the pairs made so far are those of the turns done
UrisInv ==
    /\ pc \in First \cup {"video", "directory", "proxy"} => turn = 1
    /\ pc \in First \cup {"codecs", "video", "directory"} => mConfServerUris = <<>>
    /\ pc = "uris" => Len(mConfServerUris) = turn - 1 /\ turn <= factoryUris + 1
    /\ pc \in WithUris => Len(mConfServerUris) = factoryUris
    /\ \A k \in 1..Len(mConfServerUris) : mConfServerUris[k] = <<k, k>>

\* The accounts and the setting: the local domains
DomainsInv ==
    /\ pc \in First \cup {"codecs", "video", "directory", "uris", "proxy"} => mLocalDomains = {}
    /\ pc = "accounts" =>
         /\ turn <= factoryUris + 1
         /\ mLocalDomains = {FactoryDomains[k] : k \in 1..(turn - 1)}
    /\ pc \in WithDomains => mLocalDomains = Local

\* The core starts when everything its chat rooms need is there.
CoreInv ==
    /\ pc \in WithFactory => hasClientFactory
    /\ core = "started" =>
         /\ pc \in Ready \cup {"failed", "rejected"}
         /\ listening /\ hasClientFactory /\ mLocalDomains = Local
    /\ core # "started" => served = {}
    /\ RequestsFindTheServerReady

\* What is left in mimeTypes was not seen among the payload types so far.
LeftoverInv ==
    /\ \A name \in listed : name.lower
    /\ pc \notin {"codecs", "rejected"} => mimeTypes = {}
    /\ pc = "codecs" => \A name \in mimeTypes, i \in 1..(turn - 1) : payloads[i] # name.codec
    /\ pc = "rejected" => \A name \in mimeTypes, i \in DOMAIN payloads : payloads[i] # name.codec

IInv == TypeOK /\ SettingsInv /\ CodecsInv /\ UrisInv /\ DomainsInv /\ CoreInv

-----------------------------------------------------------------------------
(* The cast gives an int whatever it is given.                                *)
LEMMA ToIntIsInt == \A n \in Int : ToInt(n) \in (0 - IntMax - 1)..IntMax
<1> SUFFICES ASSUME NEW n \in Int PROVE ToInt(n) \in (0 - IntMax - 1)..IntMax
  OBVIOUS
<1> DEFINE m == 2 * (IntMax + 1)
<1>1. m \in Int /\ m > 0 /\ IntMax \in Nat
  BY BoundsAreNat
<1> HIDE DEF m
<1>2. (n + IntMax + 1) % m \in 0..(m - 1)
  BY <1>1
<1> QED
  BY <1>1, <1>2 DEF ToInt, m

-----------------------------------------------------------------------------
LEMMA InitIInv == Init => IInv
<1> SUFFICES ASSUME Init PROVE IInv
  OBVIOUS
<1>1. noRtpTimeout \in [setting : Timeouts, seconds : (0 - IntMax - 1)..IntMax]
  <2>1. (CHOOSE t \in Timeouts : TRUE) \in Timeouts
    BY TimeoutsAssumption
  <2>2. 0 \in (0 - IntMax - 1)..IntMax
    BY BoundsAreNat
  <2> QED
    BY <2>1, <2>2 DEF Init
<1>2. payloads \in SeqsUpTo(Codecs, MaxPayloads)
  <2>1. payloads \in [1..0 -> Codecs] /\ 0 \in 0..MaxPayloads
    BY BoundsAreNat DEF Init
  <2> QED
    BY <2>1 DEF SeqsUpTo
<1>3. TypeOK
  <2>1. factoryUris \in 0..MaxUris /\ focusUris \in 0..MaxUris /\ turn \in Nat
    BY BoundsAreNat DEF Init
  <2>2. mConfServerUris \in Seq((1..factoryUris) \X (1..focusUris))
    BY DEF Init
  <2>3. hasDatabase \in BOOLEAN /\ hasClientFactory \in BOOLEAN /\ listening \in BOOLEAN
    BY Zenon DEF Init
  <2> QED
    BY <1>1, <1>2, <2>1, <2>2, <2>3 DEF Init, TypeOK
<1>4. SettingsInv
  BY DEF Init, SettingsInv, WithDatabase, WithTimeout, WithCodecs, WithUris, WithDomains,
     WithFactory, Ready
<1>5. CodecsInv
  BY DEF Init, CodecsInv, WithCodecs, WithUris, WithDomains, WithFactory, Ready
<1>6. UrisInv
  BY DEF Init, UrisInv, WithUris, WithDomains, WithFactory, Ready
<1>7. DomainsInv /\ CoreInv
  BY DEF Init, DomainsInv, CoreInv, RequestsFindTheServerReady, WithDomains, WithFactory, Ready
<1> QED
  BY <1>3, <1>4, <1>5, <1>6, <1>7 DEF IInv

(* Settings: the two that are checked against each other, and the listener.   *)
LEMMA NextSettingsInv == TypeOK /\ SettingsInv /\ [Next]_vars => SettingsInv'
<1> SUFFICES ASSUME TypeOK, SettingsInv, [Next]_vars PROVE SettingsInv'
  OBVIOUS
<1> USE DEF SettingsInv, WithDatabase, WithTimeout, WithCodecs, WithUris, WithDomains,
            WithFactory, Ready
<1>1. CASE ReadTransport \/ ReadMediaTypes
  BY <1>1 DEF ReadTransport, ReadMediaTypes, Checked
<1>2. CASE ReadDatabase
  BY <1>2 DEF ReadDatabase, Checked
<1>3. CASE ReadEngineModes \/ CreateCore
  BY <1>3 DEF ReadEngineModes, CreateCore, Checked, mediaVars
<1>4. CASE ReadNoRtpTimeout
  <2>1. pc = "rtp" /\ pc' \in {"audio", "rejected"} /\ UNCHANGED <<mMediaConfig, hasDatabase>>
    BY <1>4 DEF ReadNoRtpTimeout, Checked
  <2>2. pc' = "audio" => listening'
    BY <1>4 DEF ReadNoRtpTimeout
  <2> QED
    BY <2>1, <2>2
<1>5. CASE ReadAudioCodecs \/ SelectCodec
  BY <1>5 DEF ReadAudioCodecs, SelectCodec, mediaVars, serverVars
<1>6. CASE CodecsDone \/ ReadVideoCodec \/ FactoryUrisDone \/ ReadOutboundProxy
  BY <1>6 DEF CodecsDone, ReadVideoCodec, FactoryUrisDone, ReadOutboundProxy, Checked,
     mediaVars, serverVars
<1>7. CASE CreateDtlsDirectory \/ LoadFactoryUri
  BY <1>7 DEF CreateDtlsDirectory, LoadFactoryUri, Checked, mediaVars, serverVars
<1>8. CASE AddAccount \/ AddLocalDomains \/ CreateClientFactory
  BY <1>8 DEF AddAccount, AddLocalDomains, CreateClientFactory, Checked, mediaVars
<1>9. CASE ReadHandledCategory \/ CoreStarted \/ CheckUuid \/ BindAddresses
  BY <1>9 DEF ReadHandledCategory, CoreStarted, CheckUuid, BindAddresses, Checked, mediaVars, serverVars
<1>10. CASE StartCore
  BY <1>10 DEF StartCore, Checked, mediaVars
<1>11. CASE \E d \in Domains : SubscriptionRequested(d)
  BY <1>11 DEF SubscriptionRequested, mediaVars
<1>12. CASE UNCHANGED vars
  BY <1>12 DEF vars, mediaVars, serverVars
<1> QED
  BY <1>1, <1>2, <1>3, <1>4, <1>5, <1>6, <1>7, <1>8, <1>9, <1>10, <1>11, <1>12 DEF Next

(* Codecs: one turn of the loop, and the end of it.                           *)
LEMMA NextCodecsInv == TypeOK /\ CodecsInv /\ UrisInv /\ [Next]_vars => CodecsInv'
<1> SUFFICES ASSUME TypeOK, CodecsInv, UrisInv, [Next]_vars PROVE CodecsInv'
  OBVIOUS
<1> USE DEF CodecsInv, First, WithCodecs, WithUris, WithDomains, WithFactory, Ready
<1>1. CASE ReadTransport \/ ReadMediaTypes \/ ReadDatabase \/ ReadEngineModes \/ CreateCore
  BY <1>1 DEF ReadTransport, ReadMediaTypes, ReadDatabase, ReadEngineModes, CreateCore, Checked,
     codecVars, Wanted
<1>2. CASE ReadNoRtpTimeout
  BY <1>2 DEF ReadNoRtpTimeout, Checked, codecVars, Wanted
<1>3. CASE ReadAudioCodecs
  BY <1>3 DEF ReadAudioCodecs
<1>4. CASE SelectCodec
  <2>1. turn \in Nat /\ turn \in DOMAIN payloads
    <3>1. PICK n \in 0..MaxPayloads : payloads \in [1..n -> Codecs]
      BY DEF TypeOK, SeqsUpTo
    <3>2. Len(payloads) = n /\ DOMAIN payloads = 1..n
      BY <3>1, BoundsAreNat
    <3> QED
      BY <3>1, <3>2, <1>4, BoundsAreNat DEF SelectCodec, TypeOK
  <2>2. pc = "codecs" /\ pc' = "codecs" /\ turn' = turn + 1 /\ UNCHANGED <<payloads, listed>>
    BY <1>4 DEF SelectCodec
  <2>3. CASE \E name \in mimeTypes : SameIgnoringCase(payloads[turn], name)
    <3>1. enabled' = enabled \cup {turn} /\ mimeTypes' = mimeTypes \ {Lower(payloads[turn])}
      BY <1>4, <2>3 DEF SelectCodec
    <3>2. payloads[turn] \in Wanted
      BY <2>3 DEF SameIgnoringCase, Wanted, TypeOK
    <3>3. \A i \in enabled' : payloads'[i] \in Wanted'
      BY <2>2, <3>1, <3>2 DEF Wanted
    <3>4. \A name \in listed' \ mimeTypes' : \E i \in enabled' : payloads'[i] = name.codec
      BY <2>2, <3>1 DEF Lower
    <3> QED
      BY <2>1, <2>2, <3>1, <3>3, <3>4
  <2>4. CASE \A name \in mimeTypes : ~SameIgnoringCase(payloads[turn], name)
    <3>1. enabled' = enabled /\ mimeTypes' = mimeTypes
      <4>1. turn \notin enabled
        BY <2>1, <2>2
      <4>2. enabled' = enabled \ {turn} /\ mimeTypes' = mimeTypes
        BY <1>4, <2>4 DEF SelectCodec
      <4> QED
        BY <4>1, <4>2
    <3> QED
      BY <2>1, <2>2, <3>1 DEF Wanted
  <2> QED
    BY <2>3, <2>4
<1>5. CASE CodecsDone
  BY <1>5 DEF CodecsDone, Checked, codecVars, Wanted
<1>6. CASE ReadVideoCodec \/ CreateDtlsDirectory \/ FactoryUrisDone \/ ReadOutboundProxy
  BY <1>6 DEF ReadVideoCodec, CreateDtlsDirectory, FactoryUrisDone, ReadOutboundProxy, Checked,
     codecVars, Wanted
<1>7. CASE LoadFactoryUri
  BY <1>7 DEF LoadFactoryUri, Checked, TypeOK, codecVars, Wanted
<1>8. CASE AddAccount
  BY <1>8 DEF AddAccount, TypeOK, codecVars, Wanted
<1>9. CASE AddLocalDomains \/ CreateClientFactory \/ ReadHandledCategory \/ StartCore
  BY <1>9 DEF AddLocalDomains, CreateClientFactory, ReadHandledCategory, StartCore, Checked,
     codecVars, Wanted
<1>10. CASE \/ CoreStarted \/ CheckUuid \/ BindAddresses
            \/ \E d \in Domains : SubscriptionRequested(d)
  BY <1>10 DEF CoreStarted, CheckUuid, BindAddresses, SubscriptionRequested, codecVars, Wanted
<1>11. CASE UNCHANGED vars
  BY <1>11 DEF vars, codecVars, Wanted
<1> QED
  BY <1>1, <1>2, <1>3, <1>4, <1>5, <1>6, <1>7, <1>8, <1>9, <1>10, <1>11 DEF Next

(* URIs: one turn of the loop, and nothing else, adds a pair.                 *)
LEMMA NextUrisInv == TypeOK /\ CodecsInv /\ UrisInv /\ [Next]_vars => UrisInv'
<1> SUFFICES ASSUME TypeOK, CodecsInv, UrisInv, [Next]_vars PROVE UrisInv'
  OBVIOUS
<1> USE DEF UrisInv, First, WithUris, WithDomains, WithFactory, Ready
<1>1. CASE ReadTransport \/ ReadMediaTypes \/ ReadDatabase \/ ReadEngineModes \/ CreateCore
  BY <1>1 DEF ReadTransport, ReadMediaTypes, ReadDatabase, ReadEngineModes, CreateCore, Checked,
     uriVars
<1>2. CASE ReadNoRtpTimeout
  BY <1>2 DEF ReadNoRtpTimeout, Checked, uriVars
<1>3. CASE ReadAudioCodecs \/ SelectCodec
  BY <1>3 DEF ReadAudioCodecs, SelectCodec, uriVars
<1>4. CASE CodecsDone \/ ReadVideoCodec
  BY <1>4 DEF CodecsDone, ReadVideoCodec, Checked, uriVars
<1>5. CASE CreateDtlsDirectory
  <2>1. mConfServerUris' = <<>> /\ turn' = 1 /\ pc' \in {"failed", "uris"}
    BY <1>5 DEF CreateDtlsDirectory
  <2>2. pc' = "uris" => factoryUris' \in Nat
    BY <1>5, BoundsAreNat DEF CreateDtlsDirectory
  <2> QED
    BY <2>1, <2>2
<1>6. CASE LoadFactoryUri
  <2>1. /\ pc = "uris" /\ turn \in 1..factoryUris /\ turn' = turn + 1
        /\ UNCHANGED factoryUris
        /\ factoryUris \in Nat
    BY <1>6, BoundsAreNat DEF LoadFactoryUri, Checked, TypeOK, CodecsInv
  <2>2. CASE turn <= focusUris
    <3>1. pc' = "uris" /\ mConfServerUris' = Append(mConfServerUris, <<turn, turn>>)
      BY <1>6, <2>2 DEF LoadFactoryUri, Checked
    <3>2. mConfServerUris \in Seq((1..factoryUris) \X (1..focusUris)) /\ turn \in 1..focusUris
      BY <2>1, <2>2, BoundsAreNat DEF TypeOK
    <3>3. /\ Len(mConfServerUris') = turn
          /\ \A k \in 1..(turn - 1) : mConfServerUris'[k] = mConfServerUris[k]
          /\ mConfServerUris'[turn] = <<turn, turn>>
      BY <2>1, <3>1, <3>2
    <3> QED
      BY <2>1, <3>1, <3>3
  <2>3. CASE ~(turn <= focusUris)
    BY <1>6, <2>3 DEF LoadFactoryUri, Checked
  <2> QED
    BY <2>2, <2>3
<1>7. CASE FactoryUrisDone
  <2>1. Len(mConfServerUris) = factoryUris
    BY <1>7, BoundsAreNat DEF FactoryUrisDone, Checked, TypeOK
  <2> QED
    BY <1>7, <2>1 DEF FactoryUrisDone, Checked, uriVars
<1>8. CASE ReadOutboundProxy
  BY <1>8 DEF ReadOutboundProxy, Checked, uriVars
<1>9. CASE AddAccount
  BY <1>9 DEF AddAccount, uriVars
<1>10. CASE AddLocalDomains \/ CreateClientFactory \/ ReadHandledCategory \/ StartCore
  BY <1>10 DEF AddLocalDomains, CreateClientFactory, ReadHandledCategory, StartCore, Checked,
     uriVars
<1>11. CASE \/ CoreStarted \/ CheckUuid \/ BindAddresses
            \/ \E d \in Domains : SubscriptionRequested(d)
  BY <1>11 DEF CoreStarted, CheckUuid, BindAddresses, SubscriptionRequested, uriVars
<1>12. CASE UNCHANGED vars
  BY <1>12 DEF vars, uriVars
<1> QED
  BY <1>1, <1>2, <1>3, <1>4, <1>5, <1>6, <1>7, <1>8, <1>9, <1>10, <1>11, <1>12 DEF Next

(* Domains: an account adds that of its factory, and the setting its own.     *)
LEMMA NextDomainsInv ==
    TypeOK /\ CodecsInv /\ UrisInv /\ DomainsInv /\ [Next]_vars => DomainsInv'
<1> SUFFICES ASSUME TypeOK, CodecsInv, UrisInv, DomainsInv, [Next]_vars PROVE DomainsInv'
  OBVIOUS
<1> USE DEF DomainsInv, First, WithDomains, WithFactory, Ready
<1>1. CASE ReadTransport \/ ReadMediaTypes \/ ReadDatabase \/ ReadEngineModes \/ CreateCore
  BY <1>1 DEF ReadTransport, ReadMediaTypes, ReadDatabase, ReadEngineModes, CreateCore, Checked,
     serverVars
<1>2. CASE ReadNoRtpTimeout
  BY <1>2 DEF ReadNoRtpTimeout, Checked
<1>3. CASE ReadAudioCodecs \/ SelectCodec
  BY <1>3 DEF ReadAudioCodecs, SelectCodec, serverVars
<1>4. CASE CodecsDone \/ ReadVideoCodec \/ FactoryUrisDone
  BY <1>4 DEF CodecsDone, ReadVideoCodec, FactoryUrisDone, Checked, serverVars
<1>5. CASE CreateDtlsDirectory \/ LoadFactoryUri
  BY <1>5 DEF CreateDtlsDirectory, LoadFactoryUri, Checked, serverVars
<1>6. CASE ReadOutboundProxy
  <2>1. /\ pc = "proxy" /\ pc' \in {"accounts", "rejected"}
        /\ UNCHANGED <<turn, mLocalDomains, factoryUris>>
    BY <1>6 DEF ReadOutboundProxy, Checked, serverVars, uriVars
  <2>2. turn = 1 /\ factoryUris \in Nat
    BY <2>1, BoundsAreNat DEF UrisInv, TypeOK
  <2> QED
    BY <2>1, <2>2
<1>7. CASE AddAccount
  <2>1. /\ pc = "accounts" /\ turn \in 1..factoryUris /\ turn' = turn + 1
        /\ UNCHANGED factoryUris
        /\ factoryUris \in Nat
        /\ pc' \in {"accounts", "crashed"}
    BY <1>7, BoundsAreNat DEF AddAccount, TypeOK, CodecsInv, UrisInv, WithUris, uriVars
  <2>2. CASE pc' = "crashed"
    BY <2>2
  <2>3. CASE pc' = "accounts"
    <3>1. mLocalDomains' = mLocalDomains \cup {FactoryDomains[mConfServerUris[turn][1]]}
      BY <1>7, <2>3 DEF AddAccount
    <3>2. mConfServerUris[turn][1] = turn
      BY <2>1 DEF UrisInv, WithUris
    <3>3. mLocalDomains = {FactoryDomains[k] : k \in 1..(turn - 1)}
      BY <2>1
    <3>4. mLocalDomains' = {FactoryDomains[k] : k \in 1..turn}
      BY <2>1, <3>1, <3>2, <3>3
    <3> QED
      BY <2>1, <2>3, <3>4
  <2> QED
    BY <2>1, <2>2, <2>3
<1>8. CASE AddLocalDomains
  <2>1. pc = "accounts" /\ turn = factoryUris + 1
    BY <1>8, BoundsAreNat DEF AddLocalDomains, Checked, TypeOK, UrisInv, WithUris
  <2>2. pc' = "factory" /\ mLocalDomains' = mLocalDomains \cup LocalDomains /\ UNCHANGED factoryUris
    BY <1>8 DEF AddLocalDomains, Checked, uriVars
  <2>3. factoryUris \in Nat
    BY BoundsAreNat DEF TypeOK
  <2> QED
    BY <2>1, <2>2, <2>3 DEF Local
<1>9. CASE CreateClientFactory \/ ReadHandledCategory \/ StartCore
  BY <1>9 DEF CreateClientFactory, ReadHandledCategory, StartCore, Checked, uriVars, serverVars,
     Local
<1>10. CASE \/ CoreStarted \/ CheckUuid \/ BindAddresses
            \/ \E d \in Domains : SubscriptionRequested(d)
  BY <1>10 DEF CoreStarted, CheckUuid, BindAddresses, SubscriptionRequested, uriVars, serverVars, Local
<1>11. CASE UNCHANGED vars
  BY <1>11 DEF vars, uriVars, serverVars, Local
<1> QED
  BY <1>1, <1>2, <1>3, <1>4, <1>5, <1>6, <1>7, <1>8, <1>9, <1>10, <1>11 DEF Next

(* The core: before it starts nothing is served, and after that nothing that  *)
(* its chat rooms rely on changes.                                            *)
LEMMA NextCoreInv == SettingsInv /\ DomainsInv /\ CoreInv /\ [Next]_vars => CoreInv'
<1> SUFFICES ASSUME SettingsInv, DomainsInv, CoreInv, [Next]_vars PROVE CoreInv'
  OBVIOUS
<1> USE DEF CoreInv, RequestsFindTheServerReady, WithFactory, Ready
<1>1. CASE \/ ReadTransport \/ ReadMediaTypes \/ ReadDatabase \/ ReadEngineModes \/ CodecsDone
           \/ ReadVideoCodec \/ FactoryUrisDone \/ ReadOutboundProxy \/ ReadHandledCategory
  <2>1. UNCHANGED <<serverVars, factoryUris>> /\ pc \notin Ready \cup {"failed", "rejected"}
    BY <1>1 DEF ReadTransport, ReadMediaTypes, ReadDatabase, ReadEngineModes, CodecsDone,
       ReadVideoCodec, FactoryUrisDone, ReadOutboundProxy, ReadHandledCategory, Checked, uriVars
  <2>2. pc' \in WithFactory => pc \in WithFactory
    BY <1>1 DEF ReadTransport, ReadMediaTypes, ReadDatabase, ReadEngineModes, CodecsDone,
       ReadVideoCodec, FactoryUrisDone, ReadOutboundProxy, ReadHandledCategory, Checked
  <2> QED
    BY <2>1, <2>2 DEF serverVars
<1>2. CASE CreateCore
  BY <1>2 DEF CreateCore, Checked
<1>3. CASE ReadNoRtpTimeout
  BY <1>3 DEF ReadNoRtpTimeout, Checked
<1>4. CASE ReadAudioCodecs \/ SelectCodec \/ CreateDtlsDirectory \/ LoadFactoryUri
  BY <1>4 DEF ReadAudioCodecs, SelectCodec, CreateDtlsDirectory, LoadFactoryUri, Checked, serverVars
<1>5. CASE AddAccount \/ AddLocalDomains \/ CreateClientFactory
  BY <1>5 DEF AddAccount, AddLocalDomains, CreateClientFactory, Checked
<1>6. CASE StartCore
  <2>1. pc = "start" /\ pc' = "starting" /\ UNCHANGED <<listening, hasClientFactory, mLocalDomains,
          factoryUris, served>> /\ core' = "started"
    BY <1>6 DEF StartCore, Checked, uriVars
  <2>2. listening
    BY <2>1 DEF SettingsInv, WithTimeout, WithCodecs, WithUris, WithDomains
  <2>3. mLocalDomains = Local
    BY <2>1 DEF DomainsInv, WithDomains
  <2> QED
    BY <2>1, <2>2, <2>3 DEF Local
<1>7. CASE CoreStarted \/ CheckUuid \/ BindAddresses
  BY <1>7 DEF CoreStarted, CheckUuid, BindAddresses, serverVars, uriVars, Local
<1>8. ASSUME NEW d \in Domains, SubscriptionRequested(d) PROVE CoreInv'
  BY <1>8 DEF SubscriptionRequested, uriVars, Local
<1>9. CASE UNCHANGED vars
  BY <1>9 DEF vars, serverVars, uriVars, Local
<1> QED
  BY <1>1, <1>2, <1>3, <1>4, <1>5, <1>6, <1>7, <1>8, <1>9 DEF Next

(* Types: the values computed are the seconds, the pairs and the domains.     *)
LEMMA NextTypeOK == TypeOK /\ CodecsInv /\ UrisInv /\ [Next]_vars => TypeOK'
<1> SUFFICES ASSUME TypeOK, CodecsInv, UrisInv, [Next]_vars PROVE TypeOK'
  OBVIOUS
<1> USE DEF TypeOK
<1>1. CASE ReadTransport \/ ReadVideoCodec \/ ReadOutboundProxy \/ ReadHandledCategory
  BY <1>1 DEF ReadTransport, ReadVideoCodec, ReadOutboundProxy, ReadHandledCategory, Checked,
     mediaVars, codecVars, uriVars, serverVars
<1>2. CASE ReadMediaTypes
  BY <1>2 DEF ReadMediaTypes, Checked, codecVars, uriVars, serverVars
<1>3. CASE ReadDatabase
  BY <1>3 DEF ReadDatabase, Checked, codecVars, uriVars, serverVars
<1>4. CASE ReadEngineModes
  BY <1>4 DEF ReadEngineModes, Checked, codecVars, uriVars, serverVars
<1>5. CASE CreateCore
  BY <1>5 DEF CreateCore, Checked, mediaVars, codecVars, uriVars
<1>6. CASE ReadNoRtpTimeout
  <2>1. noRtpTimeout' \in [setting : Timeouts, seconds : (0 - IntMax - 1)..IntMax]
    <3> PICK t \in Timeouts : noRtpTimeout' = [setting |-> t, seconds |-> ToInt(t \div PerSecond)]
      BY <1>6 DEF ReadNoRtpTimeout
    <3>1. t \div PerSecond \in Int
      BY TimeoutsAssumption, BoundsAreNat
    <3> QED
      BY <3>1, ToIntIsInt
  <2>2. listening' \in BOOLEAN
    BY <1>6, Zenon DEF ReadNoRtpTimeout
  <2> QED
    BY <2>1, <2>2, <1>6 DEF ReadNoRtpTimeout, Checked, codecVars, uriVars
<1>7. CASE ReadAudioCodecs
  <2>1. DOMAIN payloads' \subseteq Int /\ enabled' = {}
    BY <1>7 DEF ReadAudioCodecs, CodecsInv, First, SeqsUpTo
  <2> QED
    BY <2>1, <1>7 DEF ReadAudioCodecs, mediaVars, uriVars, serverVars
<1>8. CASE SelectCodec
  <2>1. turn \in DOMAIN payloads
    <3>1. PICK n \in 0..MaxPayloads : payloads \in [1..n -> Codecs]
      BY DEF SeqsUpTo
    <3>2. Len(payloads) = n /\ DOMAIN payloads = 1..n
      BY <3>1, BoundsAreNat
    <3> QED
      BY <3>1, <3>2, <1>8, BoundsAreNat DEF SelectCodec, CodecsInv
  <2>2. enabled' \subseteq DOMAIN payloads' /\ mimeTypes' \subseteq listed'
    BY <2>1, <1>8 DEF SelectCodec
  <2> QED
    BY <2>2, <1>8 DEF SelectCodec, mediaVars, uriVars, serverVars
<1>9. CASE CodecsDone \/ FactoryUrisDone
  BY <1>9 DEF CodecsDone, FactoryUrisDone, Checked, mediaVars, codecVars, uriVars, serverVars
<1>10. CASE CreateDtlsDirectory
  <2>1. mConfServerUris' = <<>>
    BY <1>10 DEF CreateDtlsDirectory, UrisInv
  <2>2. mConfServerUris' \in Seq((1..factoryUris') \X (1..focusUris'))
    BY <2>1
  <2> QED
    BY <2>2, <1>10 DEF CreateDtlsDirectory, mediaVars, codecVars, serverVars
<1>11. CASE LoadFactoryUri
  <2>1. mConfServerUris' \in Seq((1..factoryUris') \X (1..focusUris'))
    <3>1. turn \in 1..factoryUris /\ UNCHANGED <<factoryUris, focusUris>>
      BY <1>11, BoundsAreNat DEF LoadFactoryUri, CodecsInv
    <3>2. CASE turn <= focusUris
      <4>1. <<turn, turn>> \in (1..factoryUris) \X (1..focusUris)
        BY <3>1, <3>2, BoundsAreNat
      <4>2. mConfServerUris' = Append(mConfServerUris, <<turn, turn>>)
        BY <1>11, <3>2 DEF LoadFactoryUri
      <4> QED
        BY <3>1, <4>1, <4>2
    <3>3. CASE ~(turn <= focusUris)
      BY <1>11, <3>1, <3>3 DEF LoadFactoryUri
    <3> QED
      BY <3>2, <3>3
  <2> QED
    BY <2>1, <1>11 DEF LoadFactoryUri, Checked, mediaVars, codecVars, serverVars
<1>12. CASE AddAccount
  <2>1. mLocalDomains' \subseteq Domains
    <3>1. turn \in 1..Len(mConfServerUris) /\ factoryUris \in 0..MaxUris
      BY <1>12 DEF AddAccount, CodecsInv
    <3>2. mConfServerUris[turn] \in (1..factoryUris) \X (1..focusUris)
      BY <3>1
    <3>3. mConfServerUris[turn][1] \in 1..MaxUris
      BY <3>1, <3>2, BoundsAreNat
    <3>4. FactoryDomains[mConfServerUris[turn][1]] \in Domains
      BY <3>3, DomainsAssumption
    <3> QED
      BY <3>4, <1>12 DEF AddAccount
  <2> QED
    BY <2>1, <1>12 DEF AddAccount, mediaVars, codecVars, uriVars
<1>13. CASE AddLocalDomains
  BY <1>13, DomainsAssumption DEF AddLocalDomains, Checked, mediaVars, codecVars, uriVars
<1>14. CASE CreateClientFactory
  BY <1>14 DEF CreateClientFactory, Checked, mediaVars, codecVars, uriVars
<1>15. CASE StartCore
  BY <1>15 DEF StartCore, Checked, mediaVars, codecVars, uriVars
<1>16. CASE CoreStarted \/ CheckUuid \/ BindAddresses
  BY <1>16 DEF CoreStarted, CheckUuid, BindAddresses, mediaVars, codecVars, uriVars, serverVars
<1>17. CASE \E d \in Domains : SubscriptionRequested(d)
  BY <1>17 DEF SubscriptionRequested, mediaVars, codecVars, uriVars
<1>18. CASE UNCHANGED vars
  BY <1>18 DEF vars, mediaVars, codecVars, uriVars, serverVars
<1> QED
  BY <1>1, <1>2, <1>3, <1>4, <1>5, <1>6, <1>7, <1>8, <1>9, <1>10, <1>11, <1>12, <1>13,
     <1>14, <1>15, <1>16, <1>17, <1>18 DEF Next

LEMMA Inductive == Spec => []IInv
<1>1. IInv /\ [Next]_vars => IInv'
  BY NextTypeOK, NextSettingsInv, NextCodecsInv, NextUrisInv, NextDomainsInv, NextCoreInv DEF IInv
<1> QED
  BY <1>1, InitIInv, PTL DEF Spec

-----------------------------------------------------------------------------
(* Every variable keeps its type: the seconds given to the core are an int,   *)
(* whatever the timeout.                                                      *)
THEOREM Typing == Spec => []TypeOK
BY Inductive, PTL DEF IInv

(* A server that starts has the codecs and the pairs of URIs of its           *)
(* configuration, the database if it serves text, and the domains of its      *)
(* factories and of the setting, however its codecs are written and however   *)
(* many payload types the core has (66-89,200-237,274-291,318-340).           *)
THEOREM StartsAsConfigured == Spec => []LoadedAsConfigured
<1>1. IInv => LoadedAsConfigured
  <2> SUFFICES ASSUME IInv, pc = "loaded" PROVE LoadedAsConfigured
    BY DEF LoadedAsConfigured
  <2> USE DEF IInv, WithDatabase, WithTimeout, WithCodecs, WithUris, WithDomains, WithFactory, Ready
  <2>1. {payloads[i] : i \in enabled} = Wanted
    <3>1. \A i \in enabled : payloads[i] \in Wanted
      BY DEF CodecsInv
    <3>2. \A name \in listed : \E i \in enabled : payloads[i] = name.codec
      BY DEF CodecsInv
    <3> QED
      BY <3>1, <3>2 DEF Wanted
  <2>2. mConfServerUris = [k \in 1..factoryUris |-> <<k, k>>]
    <3>1. /\ mConfServerUris \in Seq((1..factoryUris) \X (1..focusUris))
          /\ Len(mConfServerUris) = factoryUris
          /\ \A k \in 1..factoryUris : mConfServerUris[k] = <<k, k>>
      BY DEF TypeOK, UrisInv
    <3> QED
      BY <3>1
  <2>3. /\ "text" \in mMediaConfig => hasDatabase
        /\ mLocalDomains = Local
    BY DEF SettingsInv, DomainsInv
  <2> QED
    BY <2>1, <2>2, <2>3 DEF LoadedAsConfigured
<1> QED
  BY <1>1, Inductive, PTL

(* Once the core has started, a configuration is only rejected for its uuid   *)
(* or for a factory URI that cannot be bound (268,432).                       *)
THEOREM RejectedInTime == Spec => RejectedBeforeTheStart
<1>1. ASSUME IInv, Next, pc' = "rejected", pc \notin {"uuid", "binding"}
      PROVE  core # "started" /\ served = {}
  <2>1. pc \notin Ready \cup {"failed", "rejected"}
    BY <1>1 DEF Ready, Next, ReadTransport, ReadMediaTypes, ReadDatabase, ReadEngineModes,
       CreateCore, ReadNoRtpTimeout, ReadAudioCodecs, SelectCodec, CodecsDone, ReadVideoCodec,
       CreateDtlsDirectory, LoadFactoryUri, FactoryUrisDone, ReadOutboundProxy, AddAccount,
       AddLocalDomains, CreateClientFactory, ReadHandledCategory, StartCore, CoreStarted,
       CheckUuid, BindAddresses, SubscriptionRequested, Checked
  <2> QED
    BY <1>1, <2>1 DEF IInv, CoreInv
<1>2. IInv /\ [Next]_vars =>
        [pc' = "rejected" => \/ core # "started" /\ served = {}
                             \/ pc \in {"uuid", "binding"}]_vars
  BY <1>1
<1> QED
  BY <1>2, Inductive, PTL DEF Spec, RejectedBeforeTheStart

(* The chat rooms of the database always find the server listening, its       *)
(* domains complete and the factory of clients.                               *)
THEOREM ServerIsReady == Spec => []RequestsFindTheServerReady
BY Inductive, PTL DEF IInv, CoreInv

(* Codecs in lower case: a turn takes the payload type off the list, whatever *)
(* its clock rate, and the list is refused for what no turn saw.              *)
LEMMA NextLeftoverInv ==
    ~AnyCase /\ IInv /\ LeftoverInv /\ [Next]_vars => LeftoverInv'
<1> SUFFICES ASSUME ~AnyCase, IInv, LeftoverInv, [Next]_vars PROVE LeftoverInv'
  OBVIOUS
<1> USE DEF LeftoverInv
<1>1. CASE ReadAudioCodecs
  <2>1. \A name \in listed' : name.lower
    BY <1>1 DEF ReadAudioCodecs, Names
  <2>2. turn' = 1 /\ pc' \in {"codecs", "crashed", "rejected"} /\ mimeTypes' = listed'
    BY <1>1 DEF ReadAudioCodecs, IInv, CodecsInv, First
  <2>3. pc' # "codecs" => listed' = {}
    BY <1>1 DEF ReadAudioCodecs
  <2> QED
    BY <2>1, <2>2, <2>3
<1>2. CASE SelectCodec
  <2>1. /\ pc = "codecs" /\ pc' = "codecs" /\ turn' = turn + 1 /\ turn \in Nat \ {0}
        /\ UNCHANGED <<payloads, listed>>
    BY <1>2 DEF SelectCodec, IInv, TypeOK, CodecsInv
  <2>2. mimeTypes' \subseteq mimeTypes /\ mimeTypes \subseteq Names
    BY <1>2 DEF SelectCodec, IInv, TypeOK
  <2>3. ASSUME NEW name \in mimeTypes' PROVE payloads[turn] # name.codec
    <3>1. CASE \E n \in mimeTypes : SameIgnoringCase(payloads[turn], n)
      <4>1. name # Lower(payloads[turn])
        BY <1>2, <2>3, <3>1 DEF SelectCodec
      <4>2. name \in Names /\ name.lower = TRUE
        BY <2>2 DEF IInv, TypeOK, Names
      <4>3. name = [codec |-> name.codec, lower |-> name.lower]
        BY <4>2 DEF Names
      <4> QED
        BY <4>1, <4>2, <4>3 DEF Lower
    <3>2. CASE \A n \in mimeTypes : ~SameIgnoringCase(payloads[turn], n)
      BY <2>2, <3>2 DEF SameIgnoringCase
    <3> QED
      BY <3>1, <3>2
  <2> QED
    BY <2>1, <2>2, <2>3
<1>3. CASE CodecsDone
  <2>1. DOMAIN payloads = 1..Len(payloads) /\ Len(payloads) \in Nat
    <3>1. PICK n \in 0..MaxPayloads : payloads \in [1..n -> Codecs]
      BY DEF IInv, TypeOK, SeqsUpTo
    <3>2. Len(payloads) = n /\ DOMAIN payloads = 1..n
      BY <3>1, BoundsAreNat
    <3> QED
      BY <3>1, <3>2, BoundsAreNat
  <2>2. turn > Len(payloads) /\ pc = "codecs" /\ turn \in Nat
    BY <1>3 DEF CodecsDone, Checked, IInv, TypeOK
  <2>3. UNCHANGED codecVars /\ (pc' = "rejected" \/ (pc' = "video" /\ mimeTypes = {}))
    BY <1>3 DEF CodecsDone, Checked
  <2> QED
    BY <2>1, <2>2, <2>3 DEF codecVars
<1>4. CASE pc \notin {"audio", "codecs"} /\ Next
  <2>1. UNCHANGED codecVars /\ pc' # "codecs" /\ pc # "rejected"
    BY <1>4 DEF Next, ReadTransport, ReadMediaTypes, ReadDatabase, ReadEngineModes, CreateCore,
       ReadNoRtpTimeout, ReadAudioCodecs, SelectCodec, CodecsDone, ReadVideoCodec,
       CreateDtlsDirectory, LoadFactoryUri, FactoryUrisDone, ReadOutboundProxy, AddAccount,
       AddLocalDomains, CreateClientFactory, ReadHandledCategory, StartCore, CoreStarted,
       CheckUuid, BindAddresses, SubscriptionRequested, Checked
  <2> QED
    BY <1>4, <2>1 DEF codecVars
<1>5. CASE pc \in {"audio", "codecs"} /\ (\E d \in Domains : SubscriptionRequested(d))
  BY <1>5 DEF SubscriptionRequested, codecVars
<1>6. CASE UNCHANGED vars
  BY <1>6 DEF vars, codecVars
<1>7. ASSUME Next, pc \in {"audio", "codecs"}
      PROVE  ReadAudioCodecs \/ SelectCodec \/ CodecsDone \/ \E d \in Domains : SubscriptionRequested(d)
  BY <1>7 DEF Next, ReadTransport, ReadMediaTypes, ReadDatabase, ReadEngineModes, CreateCore,
     ReadNoRtpTimeout, ReadVideoCodec, CreateDtlsDirectory, LoadFactoryUri, FactoryUrisDone,
     ReadOutboundProxy, AddAccount, AddLocalDomains, CreateClientFactory, ReadHandledCategory,
     StartCore, CoreStarted, CheckUuid, BindAddresses, Checked
<1> QED
  BY <1>1, <1>2, <1>3, <1>4, <1>5, <1>6, <1>7

(* When all codecs are configured in lower case, a configuration is rejected  *)
(* for its codecs only if the core does not support one of them.  One written *)
(* otherwise is rejected even in the case the core has it in (282).           *)
THEOREM RejectionsAreForUnsupportedCodecs ==
    ASSUME ~AnyCase PROVE Spec => []OnlyUnsupportedCodecsAreRejected
<1>1. Init => LeftoverInv
  BY DEF Init, LeftoverInv
<1>2. IInv /\ LeftoverInv /\ [Next]_vars => LeftoverInv'
  BY NextLeftoverInv
<1>3. IInv /\ LeftoverInv => OnlyUnsupportedCodecsAreRejected
  <2> SUFFICES ASSUME IInv, LeftoverInv, pc = "rejected", NEW name \in mimeTypes
               PROVE  ~(Wanted \subseteq Offered)
    BY DEF OnlyUnsupportedCodecsAreRejected
  <2>1. name.codec \in Wanted
    BY DEF IInv, TypeOK, Wanted
  <2>2. name.codec \notin Offered
    BY DEF LeftoverInv, Offered
  <2> QED
    BY <2>1, <2>2
<1> QED
  BY <1>1, <1>2, <1>3, Inductive, PTL DEF Spec

=============================================================================
