---------------------------- MODULE ManagementTlv ----------------------------
(***************************************************************************)
(* The management messages of source/ptpstructs.cpp: the data of each TLV  *)
(* (its struct in include/ptpstructs.h, its constructor and CreateMessage),*)
(* the TLV around it and the message around that.                          *)
(***************************************************************************)
EXTENDS PtpStructs

CONSTANTS
  None           (* a null pointer                                         *)

enumId ==
  [kClockDescription |-> 1, kUserDescription |-> 2,
   kDefaultDataSet |-> 8192, kCurrentDataSet |-> 8193, kParentDataSet |-> 8194,
   kTimePropertiesDataSet |-> 8195, kPortDataSet |-> 8196,
   kPriority1 |-> 8197, kPriority2 |-> 8198, kDomain |-> 8199,
   kSlaveOnly |-> 8200, kLogAnnounceInterval |-> 8201,
   kAnnounceReceiptTimeout |-> 8202, kLogSyncInterval |-> 8203,
   kVersionNumber |-> 8204, kTime |-> 8207, kClockAccuracy |-> 8208,
   kTraceabilityProperties |-> 8210, kTimescaleProperties |-> 8211,
   kAlternateTimeOffsetEnable |-> 8222, kAlternateTimeOffsetName |-> 8223,
   kAlternateTimeOffsetProperties |-> 8225, kMasterOnly |-> 12289,
   kDelayMechanism |-> 24576, kLogMinPdelayReqInterval |-> 24577,
   kTimeStatusNp |-> 49152, kGrandmasterSettingsNp |-> 49153,
   kPortDataSetNp |-> 49154, kSubscribeEventsNp |-> 49155,
   kPortPropertiesNp |-> 49156, kPortStatsNp |-> 49157,
   kSynchronizationUncertainNp |-> 49158, kPortServiceStatsNp |-> 49159]

\* Every one of them but this can be asked for.
enumGet == DOMAIN enumId \ {"kPortDataSetNp"}

enumAction == [kGet |-> 0, kSet |-> 1, kResponse |-> 2]

enumFlags ==
  [kLI_61 |-> 1, kLI_59 |-> 2, kUtcOffsetValid |-> 4, kTimescale |-> 8,
   kTimeTraceable |-> 16, kFreqTraceable |-> 32]

AllFlags == {enumFlags[f] : f \in DOMAIN enumFlags}
-----------------------------------------------------------------------------
(* The layouts as read.                                                    *)
tlvBasic == Us(<<"nValue", "nReserved">>, 1)

tlvClockAccuracy == tlvBasic

tlvTraceable(kind) == Flags("traceable", kind, 1, {16, 32}) \o Hex("nReserved", 1)

tlvTimescale == Flags("bPtpTimescale", "bits", 1, {8}) \o Hex("nReserved", 1)

tlvVersion == Field("nValue", "nibble", 1) \o U("nReserved", 1)

tlvUserDescription == Field("sName_sLocation", "name+location", 1)

tlvClockDescription(kind) ==
  Flags("bClock", kind, 2, {32768, 16384, 8192, 4096, 2048})
    \o Text("sPhysicalLayerProtocol") \o Field("sPhysicalAddress", "counted", 2)
    \o U("nProtocol", 2) \o Field("sAddress", "counted", 2)
    \o Hex("sManufacturerIdentity", 3) \o Hex("reserved", 1)
    \o Text("sProductDescription") \o Text("sRevisionData")
    \o Text("sUserDescription") \o Hex("sProfileIdentity", 6)

clockQuality == Us(<<"nClass", "eAccuracy">>, 1) \o U("nOffsetScaledLogVariance", 2)

\* The number of ports and the first priority are read, and not written.
tlvDefaultDataSet(more) ==
  Flags("b2Step_bSlaveOnly", "bits", 1, {1, 2}) \o U("nReserved1", 1) \o more
    \o clockQuality \o U("nPriority2", 1) \o Hex("sClockIdentity", 8)
    \o Us(<<"nDomain", "nReserved2">>, 1)

tlvCurrentDataSet ==
  U("nStepsRemoved", 2) \o SubNano("offsetFromMaster", "offsetFromMaster.sub")
    \o SubNano("meanPathDelay", "meanPathDelay.sub")

tlvParentDataSet ==
  Pid("sParentPortIdentity", "parentPort") \o Us(<<"nParentStats", "nReserved">>, 1)
    \o U("nObservedParentOffsetScaledLogVariance", 2)
    \o U("nObservedParentClockPhaseChangeRate", 4)
    \o U("nGrandmasterPriority1", 1) \o clockQuality
    \o U("nGrandmasterPriority2", 1) \o Hex("sGrandmasterIdentity", 8)

tlvTimePropertiesDataSet(kind) ==
  U("nCurrentUtcOffset", 2) \o Flags("flags", kind, 1, AllFlags) \o U("eTimeSource", 1)

tlvPortDataSet ==
  Pid("sPortIdentity", "port") \o Us(<<"nPortState", "nLogMinDelayReqInterval">>, 1)
    \o SubNano("peerMeanPathDelay", "peerMeanPathDelay.sub")
    \o I("nLogAnnounceInterval", 1) \o U("nAnnounceReceiptTimeout", 1)
    \o I("nLogSyncInterval", 1) \o U("eDelayMechanism", 1)
    \o I("nLogMinPdelayReqInterval", 1) \o Field("nVersionNumber", "nibble", 1)

tlvAlternateTimeOffsetName == U("nKeyField", 1) \o Text("sName")

tlvAlternateTimeOffsetProperties ==
  U("nKeyField", 1) \o I("nCurrentOffset", 4) \o I("nJumpSeconds", 4) \o U("nextJump", 6)

tlvTimeStatusNP ==
  I("masterOffset", 8) \o I("ingressTime", 8)
    \o I("nCumulativeScaledRateOffset", 4) \o I("nScaledLastGmPhaseChange", 4)
    \o Us(<<"nGmTimeBaseIndicator", "nanoseconds_msb">>, 2) \o U("nanoseconds_lsb", 8)
    \o U("fractional_nanoseconds", 2) \o Field("bGmPresent", "nonzero", 4)
    \o Hex("sGmIdentity", 8)

tlvGrandmasterSettingsNP(kind) ==
  clockQuality \o I("nUtcOffset", 2) \o Flags("flags", kind, 1, AllFlags)
    \o U("eTimeSource", 1)

tlvPortPropertiesNP ==
  Pid("sPortIdentity", "port") \o Us(<<"nPortState", "nTimestamping">>, 1)
    \o Text("sInterface")

\* Sixteen counters each way, of eight octets each.
tlvPortStatsNP == Pid("sPortIdentity", "port") \o Hex("rx", 128) \o Hex("tx", 128)

tlvPortServiceStatsNP ==
  Pid("sPortIdentity", "port")
    \o Us(<<"nAnnounceTimeout", "nSyncTimeout", "nDelayTimeout",
            "nUnicastServiceTimeout", "nUnicastRequestTimeout",
            "nMasterAnnounceTimeout", "nMasterSyncTimeout",
            "nQualificationTimeout", "nSyncMismatch", "nFollowupMismatch">>, 8)

tlvPortDataSetNP == U("neighbourPropDelayThresh", 4) \o Field("bCapable", "one", 4)

tlvTime == Field("timestamp", "time", 10)
-----------------------------------------------------------------------------
\* The cases of ParseTlv.
Layouts ==
  [id \in DOMAIN enumId \ {"kSubscribeEventsNp"} |->
     CASE id = "kClockDescription"      -> tlvClockDescription("bits")
       [] id = "kUserDescription"       -> tlvUserDescription
       [] id = "kDefaultDataSet"        ->
            tlvDefaultDataSet(U("nNumberPorts", 2) \o U("nPriority1", 1))
       [] id = "kCurrentDataSet"        -> tlvCurrentDataSet
       [] id = "kParentDataSet"         -> tlvParentDataSet
       [] id = "kTimePropertiesDataSet" -> tlvTimePropertiesDataSet("bits")
       [] id = "kPortDataSet"           -> tlvPortDataSet
       [] id = "kVersionNumber"         -> tlvVersion
       [] id = "kTime"                  -> tlvTime
       [] id = "kClockAccuracy"         -> tlvClockAccuracy
       [] id = "kTraceabilityProperties" -> tlvTraceable("bits")
       [] id = "kTimescaleProperties"   -> tlvTimescale
       [] id = "kAlternateTimeOffsetName" -> tlvAlternateTimeOffsetName
       [] id = "kAlternateTimeOffsetProperties" -> tlvAlternateTimeOffsetProperties
       [] id = "kTimeStatusNp"          -> tlvTimeStatusNP
       [] id = "kGrandmasterSettingsNp" -> tlvGrandmasterSettingsNP("bits")
       [] id = "kPortDataSetNp"         -> tlvPortDataSetNP
       [] id = "kPortPropertiesNp"      -> tlvPortPropertiesNP
       [] id = "kPortStatsNp"           -> tlvPortStatsNP
       [] id = "kPortServiceStatsNp"    -> tlvPortServiceStatsNP
       [] OTHER                         -> tlvBasic]

(* The layouts as written.  The conditional expressions that add up flags  *)
(* bind more weakly than the + between them: the first flag that is set is *)
(* all that is written.  SetVersionNumber writes a tlvBasic.               *)
Written ==
  [id \in DOMAIN Layouts |->
     CASE id = "kClockDescription"      -> tlvClockDescription("greatest")
       [] id = "kDefaultDataSet"        -> tlvDefaultDataSet(<<>>)
       [] id = "kTimePropertiesDataSet" -> tlvTimePropertiesDataSet("least")
       [] id = "kTraceabilityProperties" -> tlvTraceable("sixteens")
       [] id = "kGrandmasterSettingsNp" -> tlvGrandmasterSettingsNP("least")
       [] id \in {"kAlternateTimeOffsetProperties", "kPortStatsNp"} -> <<>>
       [] OTHER                         -> Layouts[id]]

(* What a member is before it is given a value: false, zero or empty, ...  *)
Initial(field, garbage) ==
  CASE field.kind \in {"bits", "least", "greatest", "sixteens"} ->
         {w \in field.weights : field.name \in {"bClock", "traceable", "bPtpTimescale"}
                                  /\ (garbage \div w) % 2 = 1}
    [] field.kind \in {"hex", "counted", "text"} -> <<>>
    [] field.kind = "name+location" -> << <<>>, <<>> >>
    [] OTHER -> 0

(* ... except for what an initialiser says, and what has none.             *)
Blank(id, garbage) ==
  LET layout  == Written[id]
      members == {layout[i] : i \in DOMAIN layout}
  IN  [name \in {m.name : m \in members} |->
         CASE id = "kPortDataSet" /\ name = "eDelayMechanism"        -> 1
           [] id = "kPortPropertiesNp" /\ name = "sInterface"        -> <<0>>
           [] id = "kVersionNumber" /\ name = "nValue"               -> garbage % 256
           [] id = "kAlternateTimeOffsetName" /\ name = "nKeyField"  -> garbage % 256
           [] id = "kTime"                                           -> garbage
           [] OTHER -> Initial(CHOOSE m \in members : m.name = name, garbage)]

\* The data a Get is sent with: of the type of its id, as it is constructed.
\* The case of kPortDataSetNp, which cannot be asked for, falls through.
GetData(id, garbage) ==
  IF id \in DOMAIN Written \ {"kPortDataSetNp"} THEN Blank(id, garbage) ELSE None

Pad(octets) == IF Len(octets) % 2 = 0 THEN octets ELSE octets \o <<0>>

kManagement == 1
kManagementErrorStatus == 2

ErrorStatus == Us(<<"eError", "eId">>, 2) \o U("nReserved", 4) \o Text("sError")

\* Faulty: data of an odd length is left as it is.
CreateTlv_NoPad(id, data) ==
  IF data = None THEN Octets(kManagement, 2) \o Octets(0, 2) \o Octets(enumId[id], 2)
  ELSE LET vTlv == Create(Written[id], data)
       IN  Octets(kManagement, 2) \o Octets(Len(vTlv) + 2, 2) \o Octets(enumId[id], 2) \o vTlv

\* managementTlvResponse::CreateMessage
CreateTlv(id, data) ==
  IF data = None THEN Octets(kManagement, 2) \o Octets(0, 2) \o Octets(enumId[id], 2)
  ELSE LET vTlv == Pad(Create(Written[id], data))
       IN  Octets(kManagement, 2) \o Octets(Len(vTlv) + 2, 2) \o Octets(enumId[id], 2) \o vTlv

\* An id ParseTlv has no case for gives no data.
ParseTlv(octets) ==
  LET number == Number(SubSeq(octets, 5, 6), FALSE)
      ids    == {id \in DOMAIN Layouts : enumId[id] = number}
  IN  [eId |-> number,
       pData |-> IF ids = {} THEN None
                 ELSE Read(Layouts[CHOOSE id \in ids : TRUE],
                           SubSeq(octets, 7, Len(octets)))]

\* The constructor of managementTlvResponse for a received TLV.
managementTlvResponse(octets) ==
  LET eType == Number(SubSeq(octets, 1, 2), FALSE)
  IN  CASE eType = kManagement            -> ParseTlv(octets)
        [] eType = kManagementErrorStatus ->
             Read(ErrorStatus, SubSeq(octets, 5, Len(octets)))
        [] OTHER                          -> [eType |-> eType]

MessageFields ==
  Us(<<"nStartingBoundaryHops", "nBoundaryHops">>, 1)
    \o Field("eAction", "nibble", 1) \o Hex("reserved", 1)

\* ptpManagement::CreateMessage
CreatePayload(action, hops, identity, number, tlv) ==
  FromPidStr(identity, number)
    \o Create(MessageFields, [nStartingBoundaryHops |-> hops, nBoundaryHops |-> hops,
                              eAction |-> enumAction[action], reserved |-> <<>>])
    \o tlv

\* The constructor of ptpManagement: only a response may have a TLV.
ptpManagement(octets) ==
  LET message == Read(Pid("nTargetId", "nTargetPort") \o MessageFields, octets)
  IN  [message |-> message,
       pTlv    |-> IF Len(octets) > 19 /\ message.eAction = enumAction.kResponse
                   THEN managementTlvResponse(SubSeq(octets, 15, Len(octets)))
                   ELSE None]
=============================================================================
