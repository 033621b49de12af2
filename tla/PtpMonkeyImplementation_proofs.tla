------------------- MODULE PtpMonkeyImplementation_proofs -------------------
(***************************************************************************)
(* What the two threads cannot break between them, for any number of       *)
(* clocks and domains.  RegistryInv is inductive: HandlerInv adds what the *)
(* handler under way still knows after the fields it read were cleared.    *)
(***************************************************************************)
EXTENDS PtpMonkeyImplementation, TLAPS

(* Nothing is registered and nobody is announced at first. *)
LEMMA RegistryInitInv == Init => RegistryInv
  <1>. SUFFICES ASSUME Init PROVE RegistryInv
    OBVIOUS
  <1>1. context.at = "idle" /\ app.at = "idle" /\ context \in Contexts /\ app \in Calls
    BY DEF Init, Idle, Contexts, Calls
  <1>2. TypeOK
    <2>1. born \in 0 .. MaxClocks
      BY RegistryAssumption DEF Init
    <2>2. /\ m_mClocks \subseteq Clocks /\ added \subseteq Clocks
          /\ m_pSyncMaster \in Clocks \cup {None} /\ m_pLocal \in Clocks \cup {None}
          /\ announced \in Clocks \cup {None}
          /\ m_nLocalClockId \in {Self, None} /\ m_endpoint \in Ids \cup {None}
          /\ parserDomain \in Domains
      BY RegistryAssumption DEF Init
    <2>3. /\ m_mutex \in {"free", "app"} /\ runner \in {"thread", "caller", "nobody"}
          /\ stopped \in BOOLEAN /\ m_pThread \in BOOLEAN /\ restarted \in BOOLEAN
      BY DEF Init
    <2>. QED BY <1>1, <2>1, <2>2, <2>3 DEF TypeOK
  <1>3. HandlerInv
    BY <1>1 DEF HandlerInv
  <1>4. MasterIsAnnounced /\ RequestsGoToMaster /\ ClocksAreReported /\ MeasuresRegisteredSelf
    BY DEF Init, MasterIsAnnounced, RequestsGoToMaster, ClocksAreReported,
           MeasuresRegisteredSelf, Registered
  <1>. QED BY <1>2, <1>3, <1>4 DEF RegistryInv

(* The handler that begins knows its message, and nothing else changes. *)
LEMMA ParseInv ==
  ASSUME RegistryInv, NEW m \in Messages, ParseV2(m)
  PROVE  RegistryInv'
  <1>1. /\ context = Idle /\ born < MaxClocks
        /\ m.source = Self => m.kind = "request"
        /\ context' = [at |-> "find", message |-> m]
        /\ UNCHANGED <<registry, parserDomain, m_mutex, lifecycle, app, born, history>>
    BY DEF ParseV2
  <1>2. context'.at = "find" /\ context'.message = m
    BY <1>1
  <1>3. TypeOK'
    BY <1>1 DEF registry, lifecycle, history, RegistryInv, TypeOK, Contexts
  <1>4. HandlerInv'
    BY <1>1, <1>2 DEF HandlerInv
  <1>5. MasterIsAnnounced' /\ RequestsGoToMaster' /\ ClocksAreReported' /\ MeasuresRegisteredSelf'
    BY <1>1, <1>2 DEF Idle, registry, lifecycle, history, RegistryInv, MasterIsAnnounced,
                RequestsGoToMaster, ClocksAreReported, MeasuresRegisteredSelf, Registered
  <1>. QED BY <1>3, <1>4, <1>5 DEF RegistryInv

Working == {"local", "added", "from", "become", "assign"}

(* Past the search a handler holds a message and the clock that sent it, and *)
(* going on to the next place changes neither.                               *)
LEMMA HandlerAt ==
  ASSUME TypeOK, context.at \in Working
  PROVE  /\ context.message \in Messages /\ context.clock \in Clocks
         /\ \A x \in Working : LET next == [context EXCEPT !.at = x]
                               IN  /\ next \in Contexts /\ next.at = x
                                   /\ next.message = context.message
                                   /\ next.clock = context.clock
  <1>1. context \in [at : Working, message : Messages, clock : Clocks]
    BY DEF TypeOK, Contexts, Working
  <1>. QED BY <1>1 DEF Contexts, Working

(* A clock found is a registered one. *)
LEMMA FindInv ==
  ASSUME RegistryInv, FindClock
  PROVE  RegistryInv'
  <1>1. PICK c \in Registered(context.message.source) :
          context' = [at |-> "from", message |-> context.message, clock |-> c]
    BY DEF FindClock
  <1>2. /\ context.at = "find" /\ c \in m_mClocks /\ c \in Clocks /\ c.id = context.message.source
        /\ context.message \in Messages
        /\ UNCHANGED <<registry, parserDomain, m_mutex, lifecycle, app, born, history>>
    BY DEF FindClock, RegistryInv, TypeOK, Registered, Contexts
  <1>3. /\ context' \in Contexts /\ context'.at = "from" /\ context'.clock = c
        /\ context'.message = context.message
    BY <1>1, <1>2 DEF Contexts
  <1>4. TypeOK'
    BY <1>2, <1>3 DEF registry, lifecycle, history, RegistryInv, TypeOK
  <1>5. HandlerInv'
    BY <1>2, <1>3 DEF RegistryInv, HandlerInv
  <1>6. MasterIsAnnounced' /\ RequestsGoToMaster' /\ ClocksAreReported' /\ MeasuresRegisteredSelf'
    BY <1>2, <1>3 DEF registry, lifecycle, history, RegistryInv, MasterIsAnnounced,
                RequestsGoToMaster, ClocksAreReported, MeasuresRegisteredSelf, Registered
  <1>. QED BY <1>4, <1>5, <1>6 DEF RegistryInv

(* A clock created is the only one of its identity; unless it announced    *)
(* itself, which this machine does not, it may become the measured one.    *)
LEMMA CreateInv ==
  ASSUME RegistryInv, CreateClock
  PROVE  RegistryInv'
  <1>. DEFINE m == context.message
              c == [id |-> m.source, domain |-> m.domain, number |-> born + 1]
              place == IF m.kind = "announce" THEN "added" ELSE "local"
  <1>1. /\ context.at = "find" /\ Registered(m.source) = {}
        /\ m_mClocks' = m_mClocks \cup {c} /\ born' = born + 1
        /\ context' = [at |-> place, message |-> m, clock |-> c]
        /\ UNCHANGED <<m_pSyncMaster, m_pLocal, m_nLocalClockId, m_endpoint, parserDomain,
                       m_mutex, lifecycle, app, history>>
    BY DEF CreateClock
  <1>2. /\ m \in Messages /\ born < MaxClocks /\ born \in Nat /\ MaxClocks \in Nat
        /\ m.source = Self => m.kind = "request"
    BY <1>1, RegistryAssumption DEF RegistryInv, TypeOK, HandlerInv, Contexts
  <1>3. c \in Clocks /\ c.id = m.source
    BY <1>2 DEF Clocks, Messages
  <1>4. place \in {"added", "local"} /\ (m.source = Self => place = "local")
    BY <1>2
  <1>. HIDE DEF c, m, place
  <1>5. context' \in Contexts /\ context'.at = place /\ context'.message = m /\ context'.clock = c
    BY <1>1, <1>2, <1>3, <1>4 DEF Contexts
  <1>6. TypeOK'
    BY <1>1, <1>2, <1>3, <1>5 DEF lifecycle, history, RegistryInv, TypeOK
  <1>7. \A d \in m_mClocks' : d.id = c.id => d = c
    BY <1>1, <1>3 DEF Registered
  <1>8. HandlerInv'
    BY <1>2, <1>3, <1>4, <1>5, <1>7 DEF HandlerInv, Registered
  <1>9. ClocksAreReported'
    BY <1>1, <1>4, <1>5 DEF history, RegistryInv, ClocksAreReported
  <1>10. MeasuresRegisteredSelf'
    <2>. SUFFICES ASSUME NEW d \in Registered(m_nLocalClockId)'
                  PROVE  \/ m_pLocal' = d
                         \/ context'.at = "local" /\ context'.clock = d
                         \/ app'.at \in {"master", "id"}
      BY DEF MeasuresRegisteredSelf
    <2>1. CASE d = c
      <3>1. m.source = Self
        BY <1>1, <1>3, <2>1, RegistryAssumption DEF Registered, RegistryInv, TypeOK, Clocks
      <3>. QED BY <1>4, <1>5, <2>1, <3>1
    <2>2. CASE d \in Registered(m_nLocalClockId)
      BY <1>1, <2>2 DEF RegistryInv, MeasuresRegisteredSelf
    <2>. QED BY <1>1, <2>1, <2>2 DEF Registered
  <1>11. MasterIsAnnounced' /\ RequestsGoToMaster'
    BY <1>1 DEF lifecycle, history, RegistryInv, MasterIsAnnounced, RequestsGoToMaster
  <1>. QED BY <1>6, <1>8, <1>9, <1>10, <1>11 DEF RegistryInv

(* The new clock of this machine becomes the measured one. *)
LEMMA SetLocalInv ==
  ASSUME RegistryInv, SetLocalClock
  PROVE  RegistryInv'
  <1>1. /\ context.at = "local" /\ context' = [context EXCEPT !.at = "added"]
        /\ m_pLocal' = IF context.clock.id = m_nLocalClockId THEN context.clock ELSE m_pLocal
        /\ UNCHANGED <<m_mClocks, m_pSyncMaster, m_nLocalClockId, m_endpoint, parserDomain,
                       m_mutex, lifecycle, app, born, history>>
    BY DEF SetLocalClock
  <1>2. /\ context'.at = "added" /\ context'.message = context.message
        /\ context'.clock = context.clock /\ context' \in Contexts /\ context.clock \in Clocks
    BY <1>1, HandlerAt DEF RegistryInv, Working
  <1>3. TypeOK'
    BY <1>1, <1>2 DEF lifecycle, history, RegistryInv, TypeOK
  <1>4. HandlerInv'
    BY <1>1, <1>2 DEF RegistryInv, HandlerInv
  <1>5. MeasuresRegisteredSelf'
    BY <1>1, <1>2 DEF RegistryInv, MeasuresRegisteredSelf, HandlerInv, Registered
  <1>6. MasterIsAnnounced' /\ RequestsGoToMaster' /\ ClocksAreReported'
    BY <1>1, <1>2 DEF lifecycle, history, RegistryInv, MasterIsAnnounced, RequestsGoToMaster,
                      ClocksAreReported
  <1>. QED BY <1>3, <1>4, <1>5, <1>6 DEF RegistryInv

(* The clock is reported before its handler goes on. *)
LEMMA ClockAddedInv ==
  ASSUME RegistryInv, ClockAdded
  PROVE  RegistryInv'
  <1>1. /\ context.at = "added" /\ added' = added \cup {context.clock}
        /\ context' = IF context.message.kind = "announce" THEN Idle
                      ELSE [context EXCEPT !.at = "from"]
        /\ UNCHANGED <<registry, parserDomain, m_mutex, lifecycle, app, born, announced>>
    BY DEF ClockAdded
  <1>2. /\ context' \in Contexts /\ context'.at \in {"idle", "from"} /\ context.clock \in Clocks
        /\ context'.at = "from" => /\ context'.message = context.message
                                   /\ context'.clock = context.clock
    <2>1. Idle \in Contexts /\ Idle.at = "idle"
      BY DEF Idle, Contexts
    <2>. QED BY <1>1, <2>1, HandlerAt DEF RegistryInv, Working
  <1>3. TypeOK'
    BY <1>1, <1>2 DEF registry, lifecycle, RegistryInv, TypeOK
  <1>4. HandlerInv'
    BY <1>1, <1>2 DEF RegistryInv, HandlerInv
  <1>5. MasterIsAnnounced' /\ RequestsGoToMaster' /\ ClocksAreReported' /\ MeasuresRegisteredSelf'
    BY <1>1, <1>2 DEF registry, lifecycle, RegistryInv, MasterIsAnnounced, RequestsGoToMaster,
                      ClocksAreReported, MeasuresRegisteredSelf, Registered
  <1>. QED BY <1>3, <1>4, <1>5 DEF RegistryInv

(* Comparing with the master changes nothing. *)
LEMMA FromInv ==
  ASSUME RegistryInv, FromClock
  PROVE  RegistryInv'
  <1>1. /\ context.at = "from"
        /\ context' \in {Idle, [context EXCEPT !.at = "become"]}
        /\ UNCHANGED <<registry, parserDomain, m_mutex, lifecycle, app, born, history>>
    BY DEF FromClock
  <1>2. /\ context' \in Contexts /\ context'.at \in {"idle", "become"}
        /\ context'.at = "become" => /\ context'.message = context.message
                                     /\ context'.clock = context.clock
    <2>1. Idle \in Contexts /\ Idle.at = "idle"
      BY DEF Idle, Contexts
    <2>. QED BY <1>1, <2>1, HandlerAt DEF RegistryInv, Working
  <1>3. TypeOK'
    BY <1>1, <1>2 DEF registry, lifecycle, history, RegistryInv, TypeOK
  <1>4. HandlerInv'
    BY <1>1, <1>2 DEF RegistryInv, HandlerInv
  <1>5. MasterIsAnnounced' /\ RequestsGoToMaster' /\ ClocksAreReported' /\ MeasuresRegisteredSelf'
    BY <1>1, <1>2 DEF registry, lifecycle, history, RegistryInv, MasterIsAnnounced,
                      RequestsGoToMaster, ClocksAreReported, MeasuresRegisteredSelf, Registered
  <1>. QED BY <1>3, <1>4, <1>5 DEF RegistryInv

(* What is announced is what will be assigned. *)
LEMMA BecomeInv ==
  ASSUME RegistryInv, ClockBecomeMaster
  PROVE  RegistryInv'
  <1>1. /\ context.at = "become" /\ announced' = context.clock
        /\ context' = [context EXCEPT !.at = "assign"]
        /\ UNCHANGED <<registry, parserDomain, m_mutex, lifecycle, app, born, added>>
    BY DEF ClockBecomeMaster
  <1>2. /\ context'.at = "assign" /\ context'.message = context.message
        /\ context'.clock = context.clock /\ context' \in Contexts /\ context.clock \in Clocks
    BY <1>1, HandlerAt DEF RegistryInv, Working
  <1>3. TypeOK'
    BY <1>1, <1>2 DEF registry, lifecycle, RegistryInv, TypeOK
  <1>4. HandlerInv'
    BY <1>1, <1>2 DEF RegistryInv, HandlerInv
  <1>5. MasterIsAnnounced' /\ RequestsGoToMaster' /\ ClocksAreReported' /\ MeasuresRegisteredSelf'
    BY <1>1, <1>2 DEF registry, lifecycle, RegistryInv, MasterIsAnnounced, RequestsGoToMaster,
                      ClocksAreReported, MeasuresRegisteredSelf, Registered
  <1>. QED BY <1>3, <1>4, <1>5 DEF RegistryInv

(* The master assigned is the one announced, and the endpoint follows it. *)
LEMMA ChangeInv ==
  ASSUME RegistryInv, ChangeSyncMaster
  PROVE  RegistryInv'
  <1>1. /\ context.at = "assign" /\ m_pSyncMaster' = context.clock
        /\ m_endpoint' = IF Multicast THEN m_endpoint ELSE context.clock.id
        /\ context' = Idle /\ announced = context.clock /\ context.clock \in Clocks
        /\ UNCHANGED <<m_mClocks, m_pLocal, m_nLocalClockId, parserDomain, m_mutex, lifecycle,
                       app, born, history>>
    BY HandlerAt DEF ChangeSyncMaster, RegistryInv, HandlerInv, Working
  <1>2. context' \in Contexts /\ context'.at = "idle"
    BY <1>1 DEF Idle, Contexts
  <1>3. m_endpoint' \in Ids \cup {None}
    BY <1>1 DEF RegistryInv, TypeOK, Clocks
  <1>4. TypeOK'
    BY <1>1, <1>2, <1>3 DEF lifecycle, history, RegistryInv, TypeOK
  <1>5. HandlerInv'
    BY <1>2 DEF HandlerInv
  <1>6. MasterIsAnnounced' /\ RequestsGoToMaster'
    BY <1>1, <1>2 DEF lifecycle, history, RegistryInv, MasterIsAnnounced, RequestsGoToMaster
  <1>7. ClocksAreReported' /\ MeasuresRegisteredSelf'
    BY <1>1, <1>2 DEF lifecycle, history, RegistryInv, ClocksAreReported,
                      MeasuresRegisteredSelf, Registered
  <1>. QED BY <1>4, <1>5, <1>6, <1>7 DEF RegistryInv

(* The end of the context thread is between two handlers. *)
LEMMA RunReturnsInv ==
  ASSUME RegistryInv, RunReturns
  PROVE  RegistryInv'
  <1>1. /\ runner' = "nobody"
        /\ UNCHANGED <<registry, parserDomain, m_mutex, stopped, m_pThread, restarted, context,
                       app, born, history>>
    BY DEF RunReturns
  <1>. QED BY <1>1 DEF registry, history, RegistryInv, TypeOK, HandlerInv, MasterIsAnnounced,
                       RequestsGoToMaster, ClocksAreReported, MeasuresRegisteredSelf, Registered

Setting == {"clear", "local", "master", "id", "parser"}

(* Inside SetDomain a call holds a domain, and going on keeps it. *)
LEMMA CallAt ==
  ASSUME TypeOK, app.at \in Setting
  PROVE  /\ app.domain \in Domains
         /\ \A x \in Setting : LET next == [app EXCEPT !.at = x]
                               IN  next \in Calls /\ next.at = x
  <1>1. app \in [at : Setting, domain : Domains]
    BY DEF TypeOK, Calls, Setting
  <1>. QED BY <1>1 DEF Calls, Setting

(* A call that clears a field takes away what the invariant speaks of; the *)
(* measured clock is gone before its identity is.                          *)
LEMMA SetDomainInv ==
  ASSUME RegistryInv,
         \/ \E d \in Domains : SetDomain(d)
         \/ SetDomainClear \/ SetDomainForgetLocal \/ SetDomainForgetMaster
         \/ SetDomainForgetId \/ SetDomainParser
  PROVE  RegistryInv'
  <1>1. ASSUME NEW d \in Domains, SetDomain(d)
        PROVE  RegistryInv'
    <2>1. /\ app = Idle /\ m_mutex' = "app" /\ app' = [at |-> "clear", domain |-> d]
          /\ UNCHANGED <<registry, parserDomain, lifecycle, context, born, history>>
      BY <1>1 DEF SetDomain
    <2>2. app.at = "idle" /\ app' \in Calls
      BY <1>1, <2>1 DEF Idle, Calls
    <2>3. TypeOK'
      BY <2>1, <2>2 DEF registry, lifecycle, history, RegistryInv, TypeOK
    <2>. QED BY <2>1, <2>2, <2>3 DEF registry, lifecycle, history, RegistryInv, HandlerInv,
                MasterIsAnnounced, RequestsGoToMaster, ClocksAreReported,
                MeasuresRegisteredSelf, Registered
  <1>2. CASE SetDomainClear
    <2>1. /\ app.at = "clear" /\ m_mClocks' = {} /\ app' = [app EXCEPT !.at = "local"]
          /\ UNCHANGED <<m_pSyncMaster, m_pLocal, m_nLocalClockId, m_endpoint, parserDomain,
                         m_mutex, lifecycle, context, born, history>>
      BY <1>2 DEF SetDomainClear
    <2>2. TypeOK'
      BY <2>1, CallAt DEF lifecycle, history, RegistryInv, TypeOK, Setting
    <2>. QED BY <2>1, <2>2 DEF lifecycle, history, RegistryInv, HandlerInv,
                MasterIsAnnounced, RequestsGoToMaster, ClocksAreReported,
                MeasuresRegisteredSelf, Registered
  <1>3. CASE SetDomainForgetLocal
    <2>1. /\ app.at = "local" /\ m_pLocal' = None /\ app' = [app EXCEPT !.at = "master"]
          /\ UNCHANGED <<m_mClocks, m_pSyncMaster, m_nLocalClockId, m_endpoint, parserDomain,
                         m_mutex, lifecycle, context, born, history>>
      BY <1>3 DEF SetDomainForgetLocal
    <2>2. app' \in Calls /\ app'.at = "master"
      BY <2>1, CallAt DEF RegistryInv, Setting
    <2>3. TypeOK'
      BY <2>1, <2>2 DEF lifecycle, history, RegistryInv, TypeOK
    <2>. QED BY <2>1, <2>2, <2>3 DEF lifecycle, history, RegistryInv, HandlerInv,
                MasterIsAnnounced, RequestsGoToMaster, ClocksAreReported,
                MeasuresRegisteredSelf, Registered
  <1>4. CASE SetDomainForgetMaster
    <2>1. /\ app.at = "master" /\ m_pSyncMaster' = None /\ app' = [app EXCEPT !.at = "id"]
          /\ UNCHANGED <<m_mClocks, m_pLocal, m_nLocalClockId, m_endpoint, parserDomain,
                         m_mutex, lifecycle, context, born, history>>
      BY <1>4 DEF SetDomainForgetMaster
    <2>2. app' \in Calls /\ app'.at = "id"
      BY <2>1, CallAt DEF RegistryInv, Setting
    <2>3. TypeOK'
      BY <2>1, <2>2 DEF lifecycle, history, RegistryInv, TypeOK
    <2>. QED BY <2>1, <2>2, <2>3 DEF lifecycle, history, RegistryInv, HandlerInv,
                MasterIsAnnounced, RequestsGoToMaster, ClocksAreReported,
                MeasuresRegisteredSelf, Registered
  <1>5. CASE SetDomainForgetId
    <2>1. /\ app.at = "id" /\ m_nLocalClockId' = None /\ app' = [app EXCEPT !.at = "parser"]
          /\ UNCHANGED <<m_mClocks, m_pSyncMaster, m_pLocal, m_endpoint, parserDomain,
                         m_mutex, lifecycle, context, born, history>>
      BY <1>5 DEF SetDomainForgetId
    <2>2. app' \in Calls
      BY <2>1, CallAt DEF RegistryInv, Setting
    <2>3. TypeOK'
      BY <2>1, <2>2 DEF lifecycle, history, RegistryInv, TypeOK
    <2>4. Registered(m_nLocalClockId)' = {}
      BY <2>1, RegistryAssumption DEF Registered, RegistryInv, TypeOK, Clocks
    <2>5. MeasuresRegisteredSelf'
      BY <2>4 DEF MeasuresRegisteredSelf
    <2>. QED BY <2>1, <2>3, <2>5 DEF lifecycle, history, RegistryInv, HandlerInv,
                MasterIsAnnounced, RequestsGoToMaster, ClocksAreReported, Registered
  <1>6. CASE SetDomainParser
    <2>1. /\ app.at = "parser" /\ parserDomain' = app.domain /\ m_mutex' = "free" /\ app' = Idle
          /\ UNCHANGED <<registry, lifecycle, context, born, history>>
      BY <1>6 DEF SetDomainParser
    <2>2. app' \in Calls /\ parserDomain' \in Domains
      BY <2>1, CallAt DEF RegistryInv, Setting, Idle, Calls
    <2>3. TypeOK'
      BY <2>1, <2>2 DEF registry, lifecycle, history, RegistryInv, TypeOK
    <2>. QED BY <2>1, <2>3 DEF registry, lifecycle, history, RegistryInv, HandlerInv,
                MasterIsAnnounced, RequestsGoToMaster, ClocksAreReported,
                MeasuresRegisteredSelf, Registered
  <1>. QED BY <1>1, <1>2, <1>3, <1>4, <1>5, <1>6

(* Stop and Restart leave m_pLocal, and no clock it should have been. *)
LEMMA StopInv ==
  ASSUME RegistryInv, Stop \/ StopForget \/ StopClear \/ StopJoin \/ Restart
  PROVE  RegistryInv'
  <1>1. \A x \in {"idle", "forget", "empty", "join", "running"} :
          [at |-> x] \in Calls /\ [at |-> x].at = x
    BY DEF Calls
  <1>2. /\ app.at \notin {"master", "id"}
        /\ app' \in Calls
        /\ UNCHANGED <<m_pLocal, m_nLocalClockId, context, born, history>>
    <2>1. /\ app.at \notin {"master", "id"}
          /\ app' \in Calls
      <3>1. Idle.at = "idle" /\ Idle \in Calls
        BY <1>1 DEF Idle
      <3>2. CASE Stop
        BY <1>1, <3>1, <3>2 DEF Stop
      <3>3. CASE StopForget \/ StopClear \/ StopJoin
        BY <1>1, <3>1, <3>3 DEF StopForget, StopClear, StopJoin
      <3>4. CASE Restart
        BY <1>1, <3>1, <3>4 DEF Restart
      <3>. QED BY <3>2, <3>3, <3>4
    <2>2. UNCHANGED <<m_pLocal, m_nLocalClockId, context, born, history>>
      BY DEF Stop, StopForget, StopClear, StopJoin, Restart, registry
    <2>. QED BY <2>1, <2>2
  <1>3. /\ m_mClocks' \subseteq m_mClocks
        /\ m_pSyncMaster' \in {m_pSyncMaster, None}
        /\ \/ m_endpoint' = m_endpoint /\ restarted' = restarted
           \/ m_endpoint' = None /\ restarted' = TRUE
    BY DEF Stop, StopForget, StopClear, StopJoin, Restart, registry, lifecycle
  <1>4. TypeOK'
    <2>1. /\ stopped' \in BOOLEAN /\ m_pThread' \in BOOLEAN /\ restarted' \in BOOLEAN
          /\ runner' \in {"thread", "caller", "nobody"} /\ m_mutex' = m_mutex
          /\ parserDomain' \in Domains
      BY RegistryAssumption
         DEF Stop, StopForget, StopClear, StopJoin, Restart, lifecycle, RegistryInv, TypeOK
    <2>. QED BY <1>2, <1>3, <2>1 DEF history, RegistryInv, TypeOK
  <1>5. HandlerInv'
    BY <1>2, <1>3 DEF history, RegistryInv, HandlerInv, Registered
  <1>6. MasterIsAnnounced' /\ RequestsGoToMaster'
    BY <1>2, <1>3 DEF history, RegistryInv, MasterIsAnnounced, RequestsGoToMaster
  <1>7. ClocksAreReported' /\ MeasuresRegisteredSelf'
    BY <1>2, <1>3 DEF history, RegistryInv, ClocksAreReported, MeasuresRegisteredSelf, Registered
  <1>. QED BY <1>4, <1>5, <1>6, <1>7 DEF RegistryInv
-----------------------------------------------------------------------------
(* RegistryInv holds throughout, wherever the calls cut into the handlers. *)
THEOREM RegistryInvariant == Spec => []RegistryInv
  <1>1. Init => RegistryInv
    BY RegistryInitInv
  <1>2. RegistryInv /\ [Next]_vars => RegistryInv'
    <2>. SUFFICES ASSUME RegistryInv, [Next]_vars
                  PROVE  RegistryInv'
      OBVIOUS
    <2>1. ASSUME NEW m \in Messages, ParseV2(m)
          PROVE  RegistryInv'
      BY <2>1, ParseInv
    <2>2. CASE HandleMessage
      BY <2>2, FindInv, CreateInv, SetLocalInv, ClockAddedInv, FromInv, BecomeInv, ChangeInv
         DEF HandleMessage
    <2>3. CASE RunReturns
      BY <2>3, RunReturnsInv
    <2>4. CASE (\E d \in Domains : SetDomain(d)) \/ InCall \/ Stop \/ Restart
      BY <2>4, SetDomainInv, StopInv DEF InCall
    <2>5. CASE UNCHANGED vars
      BY <2>5 DEF vars, registry, lifecycle, history, RegistryInv, TypeOK, HandlerInv,
                  MasterIsAnnounced, RequestsGoToMaster, ClocksAreReported,
                  MeasuresRegisteredSelf, Registered
    <2>. QED BY <2>1, <2>2, <2>3, <2>4, <2>5 DEF Next
  <1>. QED BY <1>1, <1>2, PTL DEF Spec

(* Every variable of the registry keeps its type. *)
THEOREM RegistryTypeCorrect == Spec => []TypeOK
  BY RegistryInvariant, PTL DEF RegistryInv

(* The master there is, if any, is the one last announced. *)
THEOREM MasterStaysAnnounced == Spec => []MasterIsAnnounced
  BY RegistryInvariant, PTL DEF RegistryInv

(* Until a restart delay requests go to the master there is. *)
THEOREM EndpointFollowsMaster == Spec => []RequestsGoToMaster
  BY RegistryInvariant, PTL DEF RegistryInv

(* No clock is registered without being reported. *)
THEOREM ClocksStayReported == Spec => []ClocksAreReported
  BY RegistryInvariant, PTL DEF RegistryInv

(* The measured clock is the registered clock of this machine, if there is one. *)
THEOREM RegisteredSelfIsMeasured == Spec => []MeasuresRegisteredSelf
  BY RegistryInvariant, PTL DEF RegistryInv
=============================================================================
