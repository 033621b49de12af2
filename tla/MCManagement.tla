---------------------------- MODULE MCManagement ----------------------------
(***************************************************************************)
(* A small instance of Management: a clock with two ports and a clock with *)
(* one, targets for one port, for all ports and for none, numbers on both  *)
(* sides of the sign bit and texts of even and odd lengths.                *)
(***************************************************************************)
EXTENDS Management, TLC

Clock(n) == [i \in 1 .. 8 |-> IF i \in {4, 5} THEN 259 - i ELSE n]

MCSelf   == Clock(10)
MCMaster == [id |-> Clock(20), port |-> 1]
MCPorts  == {MCMaster, [id |-> Clock(20), port |-> 2], [id |-> Clock(30), port |-> 1]}

Only(octets, number) == [identity |-> [octets |-> octets, upper |-> TRUE], number |-> number]

MCTargets ==
  {Only(Clock(20), 1), Only(Clock(20), 65535), Only(AllOnes, 1), Only(<<>>, 1),
   [identity |-> [octets |-> AllOnes, upper |-> FALSE], number |-> 1]}

MCTexts == {<<>>, <<65>>, <<66, 67>>, <<65, 59, 67>>, [i \in 1 .. 11 |-> 70 + i]}

MCFlagSets == {{}, {4, 32}, AllFlags} \cup {{f} : f \in AllFlags}

MCSettings ==
  {[nClass |-> 6, eAccuracy |-> 33, nVariance |-> 300, nUtcOffset |-> 37, eTimeSource |-> 32],
   [nClass |-> 248, eAccuracy |-> 254, nVariance |-> 65535, nUtcOffset |-> -300,
    eTimeSource |-> 160]}

MCAnnounces ==
  {[originTime |-> 0, nUtcOffset |-> 37, reserved |-> <<0>>,
    nGrandmasterPriority1 |-> 128, nGrandmasterClass |-> 6, eGrandmasterAccuracy |-> 33,
    nGrandmasterVariance |-> 300, nGrandmasterPriority2 |-> 127,
    sGrandmasterClockId |-> Clock(gm), nStepsRemoved |-> steps, eTimeSource |-> 32]
   : gm \in {20, 30}, steps \in {0, 1}}
=============================================================================
