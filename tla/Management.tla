----------------------------- MODULE Management -----------------------------
(***************************************************************************)
(* A message on its way: from the Manager (source/management.cpp) or the   *)
(* Sender's timer through CreateMessage to the devices of the network, and *)
(* from them through NativeReceive (source/receiver.cpp), the parser       *)
(* (source/ptpparser.cpp) and PtpMonkeyHandler to the event handler and to *)
(* the clock an announce describes.  The queue, the timer and the socket   *)
(* between Send and the network are Sender.tla; what the registry and the  *)
(* local clock do with timing messages is PtpMonkeyImplementation.tla and  *)
(* PtpExchange.tla.                                                        *)
(*                                                                         *)
(* The devices, one of them the master, are external: they are taken to    *)
(* answer as IEEE 1588 has it.  The library does not match an answer to a  *)
(* request, so one exchange at a time shows all it does with it.           *)
(***************************************************************************)
EXTENDS ManagementTlv

CONSTANTS
  Self,          (* the identity of this machine: eight octets             *)
  Ports,         (* ports of devices: [id, port]                           *)
  Master,        (* the port that sends timing messages and announces      *)
  m_nDomain,     (* the domain of the parser and of the sender             *)
  Domains,       (* domains in use on the network                          *)
  Multicast,     (* m_bMulticast                                           *)
  SequenceIds,   (* sequence ids of messages                               *)
  Hops, Targets, Numbers, Texts, FlagSets, Times,    (* arguments of calls *)
  Settings,      (* of a grandmaster, without its flags                    *)
  Thresholds,    (* delays to a neighbour                                  *)
  Announces,     (* contents of announces                                  *)
  Devices,       (* numbers that tell the answers of devices apart         *)
  Errors,        (* what a device may answer instead: of enumError         *)
  Extra,         (* what may follow a received message in its buffer       *)
  Garbage        (* what a member that is not initialised may hold         *)

Identities == [1 .. 8 -> Octet]

\* Whole seconds that are read as they were written.
IsTime(time) == time \in Nat /\ time \div Second < Huge - 255

\* A threshold is written in four octets; larger ones than TLC counts are left out.
IsThreshold(delay) == delay \in Nat /\ delay < Huge - 255

GrandmasterSettings ==
  [nClass : Octet, eAccuracy : Octet, nVariance : Word, nUtcOffset : SignedWord,
   eTimeSource : Octet]

Announcements ==
  [originTime : Nat, nUtcOffset : Word, reserved : [1 .. 1 -> Octet],
   nGrandmasterPriority1 : Octet, nGrandmasterClass : Octet, eGrandmasterAccuracy : Octet,
   nGrandmasterVariance : Word, nGrandmasterPriority2 : Octet,
   sGrandmasterClockId : Identities, nStepsRemoved : Word, eTimeSource : Octet]

(* Arguments are of the types of the parameters, a target has the octets   *)
(* of an identity at most, and the identity of a device is no number       *)
(* followed by zeros.                                                      *)
ASSUME ManagementAssumption ==
  /\ Self \in Identities
  /\ Ports \subseteq [id : Identities, port : Word \ {65535}]
  /\ \A device \in Ports : \E i \in 2 .. 8 : device.id[i] # 0
  /\ Master \in Ports
  /\ m_nDomain \in Domains /\ Domains \subseteq Octet
  /\ Multicast \in BOOLEAN
  /\ SequenceIds \subseteq Word
  /\ Hops \subseteq Octet
  /\ Targets \subseteq [identity : [octets : Seq(Octet), upper : BOOLEAN], number : Word]
  /\ \A target \in Targets : Len(target.identity.octets) <= 8
  /\ Numbers \subseteq Octet
  /\ \A text \in Texts : text \in Seq(Octet) /\ Len(text) <= 255
  /\ FlagSets \subseteq SUBSET AllFlags
  /\ Settings \subseteq GrandmasterSettings
  /\ \A delay \in Thresholds : IsThreshold(delay)
  /\ \A time \in Times : IsTime(time)
  /\ Announces \subseteq Announcements
  /\ \A announce \in Announces : IsTime(announce.originTime)
  /\ Devices \subseteq 0 .. 99
  /\ Errors \subseteq Word
  /\ Extra \subseteq Octet
  /\ Garbage \subseteq Nat

VARIABLES
  m_nHops,         (* the Manager's number of boundary hops                *)
  m_target,        (* the Manager's target: [identity, number]             *)
  asked,           (* a message of this machine on the network             *)
  arriving,        (* a message on its way to this machine                 *)
  told,            (* what a handler is being told, and what was meant     *)
  details,         (* what the master's PtpV2Clock says of it              *)
  reported,        (* history: details when the event handler was last told*)
  receiving        (* async_wait is armed again                            *)

manager == <<m_nHops, m_target>>
receiver == <<told, details, reported, receiving>>
vars == <<manager, asked, arriving, receiver>>

kSync == 0
kDelayReq == 1
kFollowUp == 8
kDelayResp == 9
kAnnounce == 11
kManagementMessage == 13

\* An identity as it was given: its octets, and whether in upper case.
AllOnes == [i \in 1 .. 8 |-> 255]
kTargetIdAll == [octets |-> AllOnes, upper |-> TRUE]
kTargetNumberAll == 65535

Init ==
  /\ m_nHops = 1
  /\ m_target = [identity |-> kTargetIdAll, number |-> kTargetNumberAll]
  /\ asked = None /\ arriving = None
  /\ told = None /\ details = None /\ reported = None
  /\ receiving = TRUE
-----------------------------------------------------------------------------
(* What is sent.                                                           *)

CreateHeader(type, length, domain, source, sequence, interval) ==
  Create(ptpV2Header,
    [nType |-> type, nVersion |-> 2, nMessageLength |-> length, nDomain |-> domain,
     nFlags |-> IF Multicast THEN 0 ELSE 1024, nCorrection |-> <<>>,
     reserved1 |-> <<>>, reserved2 |-> <<>>,
     nSourceId |-> source.id, nSourcePort |-> source.port,
     nSequenceId |-> sequence, nControl |-> 1, nInterval |-> interval])

\* A message of this machine with its header; Sender.tla has its sequence ids.
CreateMessage(type, payload, interval, sequence) ==
  CreateHeader(type, HeaderSize + Len(payload), m_nDomain, [id |-> Self, port |-> 1],
               sequence, interval) \o payload

\* One exchange at a time, although nothing waits for what it asked.
Free == asked = None /\ arriving = None /\ told = None

Ask(type, action, id, data, payload, interval) ==
  /\ Free
  /\ \E sequence \in SequenceIds :
       asked' = [octets |-> CreateMessage(type, payload, interval, sequence),
                 type |-> type, action |-> action, id |-> id, data |-> data]
  /\ UNCHANGED <<manager, arriving, receiver>>

\* The message a call of the Manager has m_pSender queue.
SendManagement(action, id, data) ==
  Ask(kManagementMessage, action, id, data,
      CreatePayload(action, m_nHops, m_target.identity.octets, m_target.number,
                    CreateTlv(id, data)), 127)

SendDelayRequest(now) ==
  LET data == [originTime |-> now]
  IN  Ask(kDelayReq, "kGet", None, data, Create(ptpV2Payload, data), 0)

Configure == Free /\ UNCHANGED <<asked, arriving, receiver>>

SetHops(nHops) ==
  /\ m_nHops' = nHops
  /\ UNCHANGED m_target
  /\ Configure

Target(target) ==
  /\ m_target' = target
  /\ UNCHANGED m_nHops
  /\ Configure

Get(id) == \E garbage \in Garbage : SendManagement("kGet", id, GetData(id, garbage))

\* Faulty: every device and every port together have to be meant.
TargetSet_Both ==
  ~(m_target.identity = kTargetIdAll /\ m_target.number = kTargetNumberAll)

TargetSet ==
  m_target.identity # kTargetIdAll /\ m_target.number # kTargetNumberAll

Set(id, data) ==
  /\ TargetSet
  /\ SendManagement("kSet", id, data)

SetBasic(id, nValue) == Set(id, [nValue |-> nValue, nReserved |-> 0])

SetPriority1(nPriority) == SetBasic("kPriority1", nPriority)

SetPriority2(nPriority) == SetBasic("kPriority2", nPriority)

SetAlternateTimeOffsetEnable(nKeyField, bEnable) ==
  Set("kAlternateTimeOffsetEnable", [nValue |-> nKeyField, nReserved |-> bEnable])

SetAlternateTimeOffsetName(nKeyField, sName) ==
  Set("kAlternateTimeOffsetName",
      [nKeyField |-> nKeyField, sName |-> SubSeq(sName, 1, Min({10, Len(sName)}))])

SetAlternateTimeOffsetProperties(nKeyField, nCurrentOffset, nJumpSeconds, nextJump) ==
  Set("kAlternateTimeOffsetProperties",
      [nKeyField |-> nKeyField, nCurrentOffset |-> nCurrentOffset,
       nJumpSeconds |-> nJumpSeconds, nextJump |-> nextJump])

SetGrandmasterSettings(nClass, eAccuracy, nVariance, nUtcOffset, eTimeSource, flags) ==
  Set("kGrandmasterSettingsNp",
      [nClass |-> nClass, eAccuracy |-> eAccuracy,
       nOffsetScaledLogVariance |-> nVariance, nUtcOffset |-> nUtcOffset,
       eTimeSource |-> eTimeSource, flags |-> flags])

SetSynchonizationUncertain(eState) == SetBasic("kSynchronizationUncertainNp", eState)

SetPortDataSetNP(neighbourPropDelayThresh, bCapable) ==
  Set("kPortDataSetNp", [neighbourPropDelayThresh |-> neighbourPropDelayThresh,
                         bCapable |-> bCapable])

SetUserDescription(sName, sLocation) ==
  Set("kUserDescription", [sName_sLocation |-> <<sName, sLocation>>])

SetDomain(nDomain) == SetBasic("kDomain", nDomain)

SetSlaveOnly(bSlaveOnly) == SetBasic("kSlaveOnly", bSlaveOnly)

SetAnnounceInterval(eInterval) == SetBasic("kLogAnnounceInterval", eInterval % 256)

SetAnnounceReceiptTimeout(nTimeout) == SetBasic("kAnnounceReceiptTimeout", nTimeout)

SetSyncInterval(eInterval) == SetBasic("kLogSyncInterval", eInterval % 256)

SetVersionNumber(nVersion) == SetBasic("kVersionNumber", nVersion)

\* The fraction of a nanosecond is not used.
SetTime(timestamp) == Set("kTime", [timestamp |-> timestamp])
-----------------------------------------------------------------------------
(* The network, and the devices on it.                                     *)

TargetOf(octets) ==
  [id |-> SubSeq(octets, 35, 42), port |-> Number(SubSeq(octets, 43, 44), FALSE)]

Accepts(device, octets) ==
  LET target == TargetOf(octets)
  IN  /\ target.id \in {device.id, AllOnes}
      /\ target.port \in {device.port, kTargetNumberAll}

SequenceOf(octets) == Number(SubSeq(octets, 31, 32), FALSE)

\* A message of a device, the setting it confirms, if any, and what it means.
Arrive(device, type, domain, sequence, payload, setting, meant) ==
  arriving' = [octets |-> CreateHeader(type, HeaderSize + Len(payload), domain, device,
                                       sequence, 0) \o payload,
               setting |-> setting,
               meant |-> [sequence |-> sequence, contents |-> meant]]

\* What a device has in a field: something else in each.
Sample(layout, k) ==
  LET of(field, n) ==
        CASE field.kind = "unsigned" -> n
          [] field.kind = "signed"   -> -n
          [] field.kind = "nibble"   -> n % 16
          [] field.kind \in {"one", "nonzero"} -> n % 2
          [] field.kind = "bits"     -> {w \in field.weights : w > n}
          [] field.kind = "hex"      -> [j \in 1 .. field.width |-> (n + j) % 256]
          [] field.kind \in {"counted", "text"} -> [j \in 1 .. n % 4 |-> 64 + n]
          [] field.kind = "name+location" -> << <<64, 64 + n>>, <<80 + n>> >>
          [] field.kind = "time"     -> (n * Second) + (n % Second)
      at(name) == CHOOSE i \in DOMAIN layout : layout[i].name = name
  IN  [name \in {layout[i].name : i \in DOMAIN layout} |->
         of(layout[at(name)], k + at(name))]

\* The response of a device with a TLV of a type and its octets.
Respond(device, type, tlv, setting, meant) ==
  /\ asked.type = kManagementMessage
  /\ Accepts(device, asked.octets)
  /\ Arrive(device, kManagementMessage, m_nDomain, SequenceOf(asked.octets),
            SubSeq(asked.octets, 21, 30)
              \o Create(MessageFields, [nStartingBoundaryHops |-> 1, nBoundaryHops |-> 1,
                                        eAction |-> enumAction.kResponse, reserved |-> <<>>])
              \o Octets(type, 2) \o Octets(Len(tlv), 2) \o tlv,
            setting, meant)
  /\ asked' = None
  /\ UNCHANGED <<manager, receiver>>

AnswerGet(device, k) ==
  LET sample == Sample(Layouts[asked.id], k)
  IN  /\ asked # None /\ asked.action = "kGet"
      /\ asked.id \in DOMAIN Layouts
      /\ Respond(device, kManagement,
                 Octets(enumId[asked.id], 2) \o Pad(Create(Layouts[asked.id], sample)),
                 {}, [eId |-> enumId[asked.id], pData |-> sample])

\* A device sends back what it has set; it has to have got all the data.
AnswerSet(device) ==
  /\ asked # None /\ asked.action = "kSet"
  /\ Len(asked.octets) > HeaderSize + 20
  /\ Respond(device, kManagement, SubSeq(asked.octets, HeaderSize + 19, Len(asked.octets)),
             {[id |-> asked.id, data |-> asked.data]},
             [eId |-> enumId[asked.id], pData |-> asked.data])

AnswerError(device, error, text) ==
  LET status == [eError |-> error, eId |-> enumId[asked.id], nReserved |-> 0,
                 sError |-> text]
  IN  /\ asked # None
      /\ Respond(device, kManagementErrorStatus, Pad(Create(ErrorStatus, status)), {}, status)

DelayResponse(now) ==
  /\ asked # None /\ asked.type = kDelayReq
  /\ Arrive(Master, kDelayResp, m_nDomain, SequenceOf(asked.octets),
            FromSecNano(now) \o SubSeq(asked.octets, 21, 30), {},
            [originTime |-> now, nRequestId |-> Self, nRequestPort |-> 1])
  /\ asked' = None
  /\ UNCHANGED <<manager, receiver>>

\* Another machine asks what this one meant to ask, and is heard here too.
Overhear(device) ==
  LET octets == asked.octets
  IN  /\ asked # None
      /\ arriving' = [octets |-> SubSeq(octets, 1, 20) \o Create(Pid("id", "port"), device)
                                  \o SubSeq(octets, 31, Len(octets)),
                      setting |-> {},
                      meant |-> [sequence |-> SequenceOf(octets),
                                 contents |-> IF asked.type = kDelayReq THEN asked.data
                                              ELSE None]]
      /\ asked' = None
      /\ UNCHANGED <<manager, receiver>>

SyncOrFollowUp(type, now) ==
  /\ Free
  /\ Arrive(Master, type, m_nDomain, 0, FromSecNano(now), {}, [originTime |-> now])
  /\ UNCHANGED <<manager, asked, receiver>>

Announced(announce, domain) ==
  /\ Free
  /\ Arrive(Master, kAnnounce, domain, 0, Create(ptpAnnounce, announce), {}, announce)
  /\ UNCHANGED <<manager, asked, receiver>>

Lose ==
  /\ asked # None \/ arriving # None
  /\ asked' = None /\ arriving' = None
  /\ UNCHANGED <<manager, receiver>>
-----------------------------------------------------------------------------
(* What is received.                                                       *)

\* Faulty: exactly the octets that were received.
NativeReceive_Exact(octets, next) ==
  IF Len(octets) > HeaderSize THEN octets ELSE <<>>

\* The octets received, and the one after them in the buffer.
NativeReceive(octets, next) ==
  IF Len(octets) > HeaderSize THEN octets \o <<next>> ELSE <<>>

\* The payload of a message of the parser's domain, by type.
ParseV2(octets) ==
  LET header  == Read(ptpV2Header, octets)
      payload == SubSeq(octets, HeaderSize + 1, Len(octets))
  IN  [header  |-> header,
       payload |->
         IF header.nDomain # m_nDomain THEN None
         ELSE CASE header.nType \in {kSync, kDelayReq, kFollowUp} -> Read(ptpV2Payload, payload)
                [] header.nType = kDelayResp -> Read(ptpDelayResponse, payload)
                [] header.nType = kAnnounce  -> Read(ptpAnnounce, payload)
                [] header.nType = kManagementMessage -> ptpManagement(payload)
                [] OTHER -> None]

\* Version 1 messages are not parsed; of version 2 those with a payload are.
ParseMessage(octets) ==
  IF Len(octets) < HeaderSize \/ octets[2] % 16 # 2 THEN None
  ELSE LET message == ParseV2(octets)
       IN  IF message.payload = None THEN None ELSE message

Compared ==
  {"nUtcOffset", "nGrandmasterPriority1", "nGrandmasterClass", "eGrandmasterAccuracy",
   "nGrandmasterVariance", "nGrandmasterPriority2", "nStepsRemoved", "eTimeSource"}

Describe(message, gm, isMaster) ==
  [nDomain |-> message.header.nDomain, nFlags |-> message.header.nFlags,
   sClockId |-> message.header.nSourceId,
   sGrandmasterClockId |-> gm, m_bGrandMaster |-> isMaster,
   announced |-> [field \in Compared |-> message.payload[field]]]

\* The constructor does not take over the identity of the grandmaster.
PtpV2Clock(message) == Describe(message, <<>>, FALSE)

\* An identity up to its first colon, which is its first octet.
UpToColon(identity) == SubSeq(identity, 1, 1)

\* Faulty: the number of steps is taken over without noting the change.
UpdateAnnounce_StepsUnnoted(message) ==
  LET updated == Describe(message, message.payload.sGrandmasterClockId, FALSE)
      steps   == updated.announced.nStepsRemoved
  IN  /\ details' = updated
      /\ reported' = IF updated # [details EXCEPT !.announced.nStepsRemoved = steps]
                     THEN updated ELSE reported

\* ClockUpdated is called when anything has changed.
UpdateAnnounce(message) ==
  LET gm      == message.payload.sGrandmasterClockId
      updated == Describe(message, gm,
                          IF gm = details.sGrandmasterClockId THEN details.m_bGrandMaster
                          ELSE gm = UpToColon(message.header.nSourceId))
  IN  /\ details' = updated
      /\ reported' = IF updated # details THEN updated ELSE reported

\* Announce: the clock is registered by the first, with ClockAdded.
Announce(message) ==
  IF details = None
  THEN details' = PtpV2Clock(message) /\ reported' = PtpV2Clock(message)
  ELSE UpdateAnnounce(message)

\* By type; the handlers of timing messages are in other modules.
HandleParsedMessage(message) ==
  /\ told' = [type |-> message.header.nType, setting |-> arriving.setting,
              meant |-> arriving.meant, first |-> details = None,
              read |-> [sequence |-> message.header.nSequenceId,
                        contents |-> IF message.header.nType = kManagementMessage
                                     THEN message.payload.pTlv ELSE message.payload]]
  /\ IF message.header.nType = kAnnounce THEN Announce(message)
                                         ELSE UNCHANGED <<details, reported>>

\* DoReceive: the handler of async_wait, which is armed again.
DoReceive(next) ==
  LET message == ParseMessage(NativeReceive(arriving.octets, next))
  IN  /\ receiving
      /\ arriving # None
      /\ arriving' = None
      /\ IF message = None THEN UNCHANGED <<told, details, reported>>
                           ELSE HandleParsedMessage(message)
      /\ UNCHANGED <<manager, asked, receiving>>

\* The handlers have returned.
Return ==
  /\ told # None
  /\ told' = None
  /\ UNCHANGED <<manager, asked, arriving, details, reported, receiving>>

\* async_wait fails: it is not armed any more, and nothing else is received.
WaitError ==
  /\ receiving
  /\ receiving' = FALSE
  /\ UNCHANGED <<manager, asked, arriving, told, details, reported>>
-----------------------------------------------------------------------------
Booleans == {0, 1}

SetAny ==
  \/ \E n \in Numbers :
       \/ SetPriority1(n)
       \/ SetPriority2(n)
       \/ SetDomain(n)
       \/ SetAnnounceReceiptTimeout(n)
       \/ SetVersionNumber(n)
       \/ SetAnnounceInterval(n - 8)
       \/ SetSyncInterval(n - 8)
       \/ \E b \in Booleans : SetAlternateTimeOffsetEnable(n, b)
       \/ \E text \in Texts : SetAlternateTimeOffsetName(n, text)
       \/ SetAlternateTimeOffsetProperties(n, n, n, n)
  \/ \E delay \in Thresholds, b \in Booleans : SetPortDataSetNP(delay, b)
  \/ \E s \in Settings, flags \in FlagSets :
       SetGrandmasterSettings(s.nClass, s.eAccuracy, s.nVariance, s.nUtcOffset,
                              s.eTimeSource, flags)
  \/ \E b \in Booleans : SetSlaveOnly(b)
  \/ \E eState \in {0, 1, 255} : SetSynchonizationUncertain(eState)
  \/ \E name, location \in Texts : SetUserDescription(name, location)
  \/ \E time \in Times : SetTime(time)

Application ==
  \/ \E nHops \in Hops : SetHops(nHops)
  \/ \E target \in Targets : Target(target)
  \/ \E id \in enumGet : Get(id)
  \/ SetAny

Network ==
  \/ \E device \in Ports :
       \/ \E k \in Devices : AnswerGet(device, k)
       \/ AnswerSet(device)
       \/ Overhear(device)
       \/ \E error \in Errors, text \in Texts : AnswerError(device, error, text)
  \/ \E now \in Times :
       \/ DelayResponse(now)
       \/ \E type \in {kSync, kFollowUp} : SyncOrFollowUp(type, now)
  \/ \E announce \in Announces, domain \in Domains : Announced(announce, domain)
  \/ Lose

Library ==
  \/ \E now \in Times : SendDelayRequest(now)
  \/ \E next \in Extra : DoReceive(next)
  \/ Return
  \/ WaitError

Next == Application \/ Network \/ Library

Spec == Init /\ [][Next]_vars
-----------------------------------------------------------------------------
TypeOK ==
  /\ m_nHops \in Octet
  /\ m_target.identity.octets \in Seq(Octet) /\ m_target.number \in Word
  /\ receiving \in BOOLEAN
  /\ asked # None => asked.octets \in Seq(Octet)
  /\ arriving # None => arriving.octets \in Seq(Octet)

(* What the message of a setting cannot carry: more than one flag, a       *)
(* version above four bits, and a description with an empty name or with a *)
(* separator in it, or too long.  The properties of an alternate offset    *)
(* are not carried at all, and no device confirms them.                    *)
Carried(id, data) ==
  CASE id = "kGrandmasterSettingsNp" -> Cardinality(data.flags) <= 1
    [] id = "kVersionNumber"         -> data.nValue < 16
    [] id = "kUserDescription"       ->
         LET both == data.sName_sLocation
         IN  /\ both[1] # <<>>
             /\ \A i \in {1, 2} : Separator \notin Range(both[i])
             /\ Len(both[1]) + Len(both[2]) < MaxDescription
    [] OTHER -> TRUE

(* A setting that a device confirms comes back as the caller gave it:      *)
(* CreateMessage, the padding, the octet NativeReceive adds and ParseTlv   *)
(* together change nothing, except for what no message carries.            *)
SettingsComeBack ==
  told # None => \A setting \in told.setting :
                   Carried(setting.id, setting.data) => told.read = told.meant

(* The event handler, the clocks and the local clock are told exactly what *)
(* a device means: the data of every TLV, errors with their texts, times,  *)
(* and in a Delay_Resp the identity and the sequence id of the request.    *)
AnswersAreUnderstood ==
  told # None /\ told.setting = {} => told.read = told.meant

(* The lengths in a message agree with it: the message's counts all its    *)
(* octets, and the TLV's is even (ptpstructs.h:487) and counts all that    *)
(* follows it, if there is data.                                           *)
LengthsAgree ==
  asked # None =>
    /\ Number(SubSeq(asked.octets, 3, 4), FALSE) = Len(asked.octets)
    /\ asked.type = kManagementMessage =>
         LET nLength == Number(SubSeq(asked.octets, 51, 52), FALSE)
         IN  /\ nLength % 2 = 0
             /\ asked.data # None => nLength = Len(asked.octets) - 52

(* No setting reaches two ports, whatever Target was given; unless the     *)
(* identity of all devices is not spelt as kTargetIdAll is.                *)
SetsReachOnePort ==
  /\ asked # None /\ asked.action = "kSet"
  /\ m_target.identity.octets = AllOnes => m_target.identity.upper
  => Cardinality({device \in Ports : Accepts(device, asked.octets)}) <= 1

(* The event handler has been told of the master as it is known now, and   *)
(* what is known is what was announced last; the grandmaster from the      *)
(* second announce on.                                                     *)
ChangesAreReported ==
  /\ reported = details
  /\ told # None /\ told.type = kAnnounce =>
       /\ \A field \in Compared : details.announced[field] = told.meant.contents[field]
       /\ ~told.first =>
            details.sGrandmasterClockId = told.meant.contents.sGrandmasterClockId
=============================================================================
