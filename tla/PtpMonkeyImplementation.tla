---------------------- MODULE PtpMonkeyImplementation ----------------------
(***************************************************************************)
(* The registry of clocks (source/ptpmonkeyimplementation.cpp) between its *)
(* two threads.  The context thread runs m_context: it parses a message,   *)
(* finds or creates the clock that sent it, tells the event handler and    *)
(* makes the sender of timing messages the master.  A thread of the        *)
(* application calls SetDomain, Stop and Restart.  m_mutex is held for     *)
(* SetDomain and for the assignment at the end of ChangeSyncMaster; all    *)
(* else the threads share they share unprotected.                          *)
(*                                                                         *)
(* Three kinds of message differ for the registry: "timing" (Sync,         *)
(* Follow_Up, Delay_Resp), whose sender becomes master, "request"          *)
(* (Delay_Req, received or just sent) and "announce".  What the handlers   *)
(* then do with the clock of this machine is PtpExchange.                  *)
(*                                                                         *)
(* Each access to a shared field is a step.  A step on a std::map that the *)
(* other thread is changing is undefined; it is taken to happen before or  *)
(* after, and an iterator to an erased entry to keep its clock.            *)
(***************************************************************************)
EXTENDS Naturals

CONSTANTS
  Ids,           (* clock identities                                       *)
  Self,          (* the identity of this machine                           *)
  Domains,       (* PTP domains                                            *)
  m_nDomain,     (* the domain given to the constructor, never assigned    *)
  Multicast,     (* delay requests are multicast: m_mode                   *)
  None,          (* a null pointer, or no identity                         *)
  MaxClocks      (* bound of the model: clock objects ever created         *)

ASSUME RegistryAssumption ==
  /\ Self \in Ids
  /\ m_nDomain \in Domains
  /\ Multicast \in BOOLEAN
  /\ None \notin Ids
  /\ MaxClocks \in Nat

VARIABLES
  m_mClocks,        (* the registered clocks                               *)
  m_pSyncMaster,    (* the current master                                  *)
  m_pLocal,         (* the clock of this machine                           *)
  m_nLocalClockId,  (* the identity taken for this machine's               *)
  m_endpoint,       (* where the Sender sends: an identity, None multicast *)
  parserDomain,     (* m_pParser's m_nDomain                               *)
  m_mutex,          (* who holds the lock                                  *)
  stopped,          (* m_context has been stopped                          *)
  m_pThread,        (* the thread object exists                            *)
  runner,           (* who runs m_context: "thread", "caller" or "nobody"  *)
  context,          (* where the context thread is, with what              *)
  app,              (* where the application's thread is, with what        *)
  born,             (* how many clock objects have been created            *)
  added,            (* history: the clocks ClockAdded was called for       *)
  announced,        (* history: the clock ClockBecomeMaster was last called for *)
  restarted         (* history: Restart has been called                    *)

registry == <<m_mClocks, m_pSyncMaster, m_pLocal, m_nLocalClockId, m_endpoint>>
lifecycle == <<stopped, m_pThread, runner, restarted>>
history == <<added, announced>>
vars == <<registry, parserDomain, m_mutex, lifecycle, context, app, born, history>>

\* A clock object; number tells apart the objects one identity has had.
Clocks == [id : Ids, domain : Domains, number : 1 .. MaxClocks]

Messages == [kind : {"timing", "request", "announce"}, source : Ids, domain : Domains]

\* Where the handler of a message is, and where a call of the application is.
Contexts ==
  [at : {"idle"}] \cup [at : {"find"}, message : Messages]
    \cup [at : {"local", "added", "from", "become", "assign"},
          message : Messages, clock : Clocks]

Calls ==
  [at : {"idle", "forget", "empty", "join", "running"}]
    \cup [at : {"clear", "local", "master", "id", "parser"}, domain : Domains]

Idle == [at |-> "idle"]

Registered(id) == {c \in m_mClocks : c.id = id}
-----------------------------------------------------------------------------
Init ==
  /\ m_mClocks = {}
  /\ m_pSyncMaster = None /\ m_pLocal = None
  /\ m_nLocalClockId = Self
  /\ m_endpoint = None
  /\ parserDomain = m_nDomain
  /\ m_mutex = "free"
  /\ stopped = FALSE /\ m_pThread = TRUE /\ runner = "thread" /\ restarted = FALSE
  /\ context = Idle /\ app = Idle
  /\ born = 0
  /\ added = {} /\ announced = None

(* The context thread picks up a message of the parser's domain, or the    *)
(* completion of a delay request, which may be one of the domain before.   *)
(* This machine is no master, and sends requests once it has known one.    *)
ParseV2(m) ==
  /\ runner # "nobody" /\ ~stopped
  /\ context = Idle
  /\ \/ m.domain = parserDomain
     \/ m.source = Self /\ m.domain = m_nDomain
  /\ m.source = Self => m.kind = "request" /\ announced # None
  /\ born < MaxClocks
  /\ context' = [at |-> "find", message |-> m]
  /\ UNCHANGED <<registry, parserDomain, m_mutex, lifecycle, app, born, history>>

(* GetOrCreateClock and Announce: find the sender of the message, ...      *)
FindClock ==
  /\ context.at = "find"
  /\ \E c \in Registered(context.message.source) :
       context' = [at |-> "from", message |-> context.message, clock |-> c]
  /\ UNCHANGED <<registry, parserDomain, m_mutex, lifecycle, app, born, history>>

(* ... or register it.  Announce does not ask whether it is this machine.  *)
CreateClock ==
  LET m == context.message
      c == [id |-> m.source, domain |-> m.domain, number |-> born + 1]
  IN  /\ context.at = "find"
      /\ Registered(m.source) = {}
      /\ m_mClocks' = m_mClocks \cup {c}
      /\ born' = born + 1
      /\ context' = [at |-> IF m.kind = "announce" THEN "added" ELSE "local",
                     message |-> m, clock |-> c]
      /\ UNCHANGED <<m_pSyncMaster, m_pLocal, m_nLocalClockId, m_endpoint, parserDomain,
                     m_mutex, lifecycle, app, history>>

\* Faulty: the clock of this machine is set once.
SetLocalClock_Once ==
  /\ context.at = "local"
  /\ m_pLocal' = IF context.clock.id = m_nLocalClockId /\ m_pLocal = None
                 THEN context.clock ELSE m_pLocal
  /\ context' = [context EXCEPT !.at = "added"]
  /\ UNCHANGED <<m_mClocks, m_pSyncMaster, m_nLocalClockId, m_endpoint, parserDomain,
                 m_mutex, lifecycle, app, born, history>>

\* Faulty: with the identity forgotten, the next clock is taken for this machine.
SetLocalClock_Adopts ==
  /\ context.at = "local"
  /\ m_nLocalClockId' = IF m_nLocalClockId = None THEN context.clock.id ELSE m_nLocalClockId
  /\ m_pLocal' = IF context.clock.id = m_nLocalClockId' THEN context.clock ELSE m_pLocal
  /\ context' = [context EXCEPT !.at = "added"]
  /\ UNCHANGED <<m_mClocks, m_pSyncMaster, m_endpoint, parserDomain, m_mutex, lifecycle,
                 app, born, history>>

(* GetOrCreateClock: a new clock with the identity of this machine is the  *)
(* one that is measured.                                                   *)
SetLocalClock ==
  /\ context.at = "local"
  /\ m_pLocal' = IF context.clock.id = m_nLocalClockId THEN context.clock ELSE m_pLocal
  /\ context' = [context EXCEPT !.at = "added"]
  /\ UNCHANGED <<m_mClocks, m_pSyncMaster, m_nLocalClockId, m_endpoint, parserDomain,
                 m_mutex, lifecycle, app, born, history>>

\* Faulty: a clock that announces itself is not reported.
ClockAdded_NotAnnounced ==
  /\ context.at = "added"
  /\ added' = IF context.message.kind = "announce" THEN added ELSE added \cup {context.clock}
  /\ context' = IF context.message.kind = "announce" THEN Idle
                ELSE [context EXCEPT !.at = "from"]
  /\ UNCHANGED <<registry, parserDomain, m_mutex, lifecycle, app, born, announced>>

(* The event handler is told of a new clock.                               *)
ClockAdded ==
  /\ context.at = "added"
  /\ added' = added \cup {context.clock}
  /\ context' = IF context.message.kind = "announce" THEN Idle
                ELSE [context EXCEPT !.at = "from"]
  /\ UNCHANGED <<registry, parserDomain, m_mutex, lifecycle, app, born, announced>>

(* Sync, FollowUp, DelayResponse: a timing message from another clock than *)
(* the master changes the master.                                          *)
FromClock ==
  /\ context.at = "from"
  /\ context' = IF context.message.kind = "timing" /\ m_pSyncMaster # context.clock
                THEN [context EXCEPT !.at = "become"]
                ELSE Idle
  /\ UNCHANGED <<registry, parserDomain, m_mutex, lifecycle, app, born, history>>

\* Faulty: the first master is not reported, for want of one it replaces.
ClockBecomeMaster_OnlyChanges ==
  /\ context.at = "become"
  /\ announced' = IF m_pSyncMaster = None THEN announced ELSE context.clock
  /\ context' = [context EXCEPT !.at = "assign"]
  /\ UNCHANGED <<registry, parserDomain, m_mutex, lifecycle, app, born, added>>

(* ChangeSyncMaster tells the event handler before it takes the lock, ...  *)
ClockBecomeMaster ==
  /\ context.at = "become"
  /\ announced' = context.clock
  /\ context' = [context EXCEPT !.at = "assign"]
  /\ UNCHANGED <<registry, parserDomain, m_mutex, lifecycle, app, born, added>>

\* Faulty: the endpoint keeps following the first master.
ChangeSyncMaster_KeepsEndpoint ==
  /\ context.at = "assign"
  /\ m_mutex = "free"
  /\ m_pSyncMaster' = context.clock
  /\ m_endpoint' = IF Multicast \/ m_endpoint # None THEN m_endpoint ELSE context.clock.id
  /\ context' = Idle
  /\ UNCHANGED <<m_mClocks, m_pLocal, m_nLocalClockId, parserDomain, m_mutex, lifecycle,
                 app, born, history>>

(* ... and sets the master and, unless multicast, the Sender's endpoint.   *)
ChangeSyncMaster ==
  /\ context.at = "assign"
  /\ m_mutex = "free"
  /\ m_pSyncMaster' = context.clock
  /\ m_endpoint' = IF Multicast THEN m_endpoint ELSE context.clock.id
  /\ context' = Idle
  /\ UNCHANGED <<m_mClocks, m_pLocal, m_nLocalClockId, parserDomain, m_mutex, lifecycle,
                 app, born, history>>

(* m_context.run returns once it is stopped and no handler is running.     *)
RunReturns ==
  /\ stopped /\ runner = "thread" /\ context = Idle
  /\ runner' = "nobody"
  /\ UNCHANGED <<registry, parserDomain, m_mutex, stopped, m_pThread, restarted, context,
                 app, born, history>>

HandleMessage ==
  \/ FindClock \/ CreateClock \/ SetLocalClock \/ ClockAdded
  \/ FromClock \/ ClockBecomeMaster \/ ChangeSyncMaster
-----------------------------------------------------------------------------
(* SetDomain does nothing for the domain of the constructor.  For another  *)
(* it takes the lock, forgets what it knows field by field, and changes    *)
(* the domain of the parser last (that of the Sender with it).             *)
SetDomain(d) ==
  /\ app = Idle
  /\ m_nDomain # d
  /\ m_mutex = "free"
  /\ m_mutex' = "app"
  /\ app' = [at |-> "clear", domain |-> d]
  /\ UNCHANGED <<registry, parserDomain, lifecycle, context, born, history>>

SetDomainClear ==
  /\ app.at = "clear"
  /\ m_mClocks' = {}
  /\ app' = [app EXCEPT !.at = "local"]
  /\ UNCHANGED <<m_pSyncMaster, m_pLocal, m_nLocalClockId, m_endpoint, parserDomain,
                 m_mutex, lifecycle, context, born, history>>

SetDomainForgetLocal ==
  /\ app.at = "local"
  /\ m_pLocal' = None
  /\ app' = [app EXCEPT !.at = "master"]
  /\ UNCHANGED <<m_mClocks, m_pSyncMaster, m_nLocalClockId, m_endpoint, parserDomain,
                 m_mutex, lifecycle, context, born, history>>

SetDomainForgetMaster ==
  /\ app.at = "master"
  /\ m_pSyncMaster' = None
  /\ app' = [app EXCEPT !.at = "id"]
  /\ UNCHANGED <<m_mClocks, m_pLocal, m_nLocalClockId, m_endpoint, parserDomain,
                 m_mutex, lifecycle, context, born, history>>

SetDomainForgetId ==
  /\ app.at = "id"
  /\ m_nLocalClockId' = None
  /\ app' = [app EXCEPT !.at = "parser"]
  /\ UNCHANGED <<m_mClocks, m_pSyncMaster, m_pLocal, m_endpoint, parserDomain,
                 m_mutex, lifecycle, context, born, history>>

SetDomainParser ==
  /\ app.at = "parser"
  /\ parserDomain' = app.domain
  /\ m_mutex' = "free"
  /\ app' = Idle
  /\ UNCHANGED <<registry, lifecycle, context, born, history>>

\* Faulty: Stop holds the lock, as SetDomain does, while it waits.
Stop_HoldsMutex ==
  /\ app = Idle
  /\ m_mutex = "free"
  /\ m_mutex' = "app"
  /\ stopped' = TRUE
  /\ app' = [at |-> "forget"]
  /\ UNCHANGED <<registry, parserDomain, m_pThread, runner, restarted, context, born, history>>

(* Stop stops the context, forgets the master and the clocks, and only     *)
(* then waits for the thread, which may still be handling a message.       *)
Stop ==
  /\ app = Idle
  /\ stopped' = TRUE
  /\ app' = [at |-> "forget"]
  /\ UNCHANGED <<registry, parserDomain, m_mutex, m_pThread, runner, restarted, context,
                 born, history>>

StopForget ==
  /\ app.at = "forget"
  /\ m_pSyncMaster' = None
  /\ app' = [at |-> "empty"]
  /\ UNCHANGED <<m_mClocks, m_pLocal, m_nLocalClockId, m_endpoint, parserDomain, m_mutex,
                 lifecycle, context, born, history>>

StopClear ==
  /\ app.at = "empty"
  /\ m_mClocks' = {}
  /\ app' = IF m_pThread THEN [at |-> "join"] ELSE Idle
  /\ UNCHANGED <<m_pSyncMaster, m_pLocal, m_nLocalClockId, m_endpoint, parserDomain, m_mutex,
                 lifecycle, context, born, history>>

StopJoin ==
  /\ app.at = "join"
  /\ runner # "thread"
  /\ m_pThread' = FALSE
  /\ app' = Idle
  /\ UNCHANGED <<registry, parserDomain, m_mutex, stopped, runner, restarted, context,
                 born, history>>

(* Restart runs the context again, with a new parser and Sender; without a *)
(* thread object, and Stop leaves none, it runs it in the caller.          *)
Restart ==
  /\ app = Idle
  /\ stopped
  /\ m_pThread => runner # "thread"
  /\ stopped' = FALSE
  /\ runner' = IF m_pThread THEN "thread" ELSE "caller"
  /\ app' = IF m_pThread THEN Idle ELSE [at |-> "running"]
  /\ parserDomain' = m_nDomain
  /\ m_endpoint' = None
  /\ restarted' = TRUE
  /\ UNCHANGED <<m_mClocks, m_pSyncMaster, m_pLocal, m_nLocalClockId, m_mutex, m_pThread,
                 context, born, history>>

InCall ==
  \/ SetDomainClear \/ SetDomainForgetLocal \/ SetDomainForgetMaster
  \/ SetDomainForgetId \/ SetDomainParser
  \/ StopForget \/ StopClear \/ StopJoin

Next ==
  \/ \E m \in Messages : ParseV2(m)
  \/ HandleMessage
  \/ RunReturns
  \/ \E d \in Domains : SetDomain(d)
  \/ Stop
  \/ Restart
  \/ InCall

(* Both threads get to run: a handler that has begun and a call that has   *)
(* been made go on whenever they can.  Nobody has to send or to call.      *)
Fairness ==
  /\ WF_vars(HandleMessage)
  /\ WF_vars(RunReturns)
  /\ WF_vars(InCall)

Spec == Init /\ [][Next]_vars /\ Fairness
-----------------------------------------------------------------------------
TypeOK ==
  /\ m_mClocks \subseteq Clocks
  /\ m_pSyncMaster \in Clocks \cup {None}
  /\ m_pLocal \in Clocks \cup {None}
  /\ m_nLocalClockId \in {Self, None}
  /\ m_endpoint \in Ids \cup {None}
  /\ parserDomain \in Domains
  /\ m_mutex \in {"free", "app"}
  /\ stopped \in BOOLEAN /\ m_pThread \in BOOLEAN /\ restarted \in BOOLEAN
  /\ runner \in {"thread", "caller", "nobody"}
  /\ context \in Contexts
  /\ app \in Calls
  /\ born \in 0 .. MaxClocks
  /\ added \subseteq Clocks
  /\ announced \in Clocks \cup {None}

(* Whatever call cuts into a handler, the master there is, if any, is the  *)
(* one the event handler was last told of, except while ChangeSyncMaster   *)
(* is between telling and assigning.                                       *)
MasterIsAnnounced ==
  m_pSyncMaster # None /\ context.at # "assign" => m_pSyncMaster = announced

(* In the modes that send delay requests to the master, they go to the     *)
(* master there is.  Not after Restart: it replaces the Sender, and a      *)
(* master set while Stop was clearing is still there, so none is set anew. *)
RequestsGoToMaster ==
  ~Multicast /\ m_pSyncMaster # None /\ ~restarted => m_endpoint = m_pSyncMaster.id

(* Every registered clock has been reported to the event handler, unless   *)
(* its handler is still at it.                                             *)
ClocksAreReported ==
  \A c \in m_mClocks \ added :
    context.at \in {"local", "added"} /\ context.clock = c

(* The clock that is measured is the registered clock of this machine:     *)
(* Stop leaves m_pLocal pointing to an object no longer registered, which  *)
(* the next one registered replaces.                                       *)
MeasuresRegisteredSelf ==
  \A c \in Registered(m_nLocalClockId) :
    \/ m_pLocal = c
    \/ context.at = "local" /\ context.clock = c
    \/ app.at \in {"master", "id"}

(* What a handler knows of the message and the clock it works on.          *)
HandlerInv ==
  /\ context.at = "find" => born < MaxClocks
  /\ context.at # "idle" /\ context.message.source = Self =>
       context.message.kind = "request"
  /\ context.at \notin {"idle", "find"} => context.clock.id = context.message.source
  /\ context.at = "local" => Registered(context.clock.id) \subseteq {context.clock}
  /\ context.at = "assign" => announced = context.clock

RegistryInv ==
  /\ TypeOK /\ HandlerInv
  /\ MasterIsAnnounced /\ RequestsGoToMaster /\ ClocksAreReported /\ MeasuresRegisteredSelf

(* SetDomain and Stop return: the lock is never waited for by the handler  *)
(* that the holder of the lock waits for.                                  *)
CallsReturn == app.at \notin {"idle", "running"} ~> app.at = "idle"
-----------------------------------------------------------------------------
(* What include/ptpmonkey.h says of GetMasterClockId: the id of "the       *)
(* master clock for this domain".  A message parsed in the domain before   *)
(* SetDomain is handled after it, and makes its sender master again.       *)
MasterOfThisDomain ==
  app = Idle /\ m_pSyncMaster # None => m_pSyncMaster.domain = parserDomain
=============================================================================
