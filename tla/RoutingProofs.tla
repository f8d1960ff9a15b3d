---------------------------- MODULE RoutingProofs ----------------------------
(***************************************************************************)
(* The routing to profiles, for any number of requests, profiles, ports    *)
(* and failures: its types, the uniqueness of ports, and that an ensure    *)
(* nobody interferes with heals.                                           *)
(***************************************************************************)
EXTENDS RoutingProperties, WellFoundedInduction, TLAPS

(***************************************************************************)
(* The first free port                                                     *)
(***************************************************************************)

(* A set of numbers that is not empty has a least one.                     *)
LEMMA LeastNumber ==
  ASSUME NEW S \in SUBSET Nat, S # {}
  PROVE  \E n \in S : \A m \in S : n <= m
<1> DEFINE less == {ss \in Nat \X Nat : ss[1] < ss[2]}
<1>1. IsWellFoundedOn(less, Nat)
  BY NatLessThanWellFounded DEF OpToRel
<1>2. \E n \in S : \A m \in S : <<m, n>> \notin less
  <2> HIDE DEF less
  <2> QED BY <1>1, WFMin
<1>3. PICK n \in S : \A m \in S : <<m, n>> \notin less
  BY <1>2
<1>4. ASSUME NEW m \in S PROVE n <= m
  <2>1. <<m, n>> \in Nat \X Nat /\ <<m, n>>[1] = m /\ <<m, n>>[2] = n
    OBVIOUS
  <2>2. ~ (m < n)
    BY <1>3, <2>1
  <2> QED BY <2>2
<1> QED BY <1>4

(* alloc gives away a port that nobody in the map has.                     *)
LEMMA FirstFreeIsFree == ASSUME Free # {} PROVE FirstFree \in Free
<1>1. Free \in SUBSET Nat
  BY RoutingAssumption DEF Free, Port
<1>2. \E n \in Free : \A m \in Free : n <= m
  BY <1>1, LeastNumber
<1> QED BY <1>2 DEF FirstFree

(* A port is a number, and no port is None.                                *)
LEMMA PortsAreNumbers == Port \in SUBSET Nat /\ None \notin Port
BY RoutingAssumption DEF Port

(***************************************************************************)
(* Types                                                                   *)
(***************************************************************************)
MapsOK == /\ map \in PortMap /\ process \in PortMap /\ nginx \in PortMap
          /\ row \in PortMap /\ mirror \in PortMap
          /\ dir \subseteq Profile /\ failed \subseteq Profile /\ cached \subseteq Profile
          /\ boot \in [pc : {"up", "reconcile", "nginx", "launch", "register"},
                       seen : PortMap]
CountsOK == /\ handled \in 0 .. MaxHandled /\ failures \in 0 .. MaxFailures
            /\ calm \in BOOLEAN
SessionsOK == /\ ses \in [Session -> SessionType]
              /\ \A s \in Session : ses[s].pc # "idle" => ses[s].name \in Profile
TInv == MapsOK /\ CountsOK /\ SessionsOK

(* The empty map and a session that is over are well typed.                *)
LEMMA EmptyTyped == Nowhere \in PortMap /\ Idle \in SessionType /\ Idle.pc = "idle"
BY DEF Nowhere, PortMap, Idle, SessionType

(* The parts of a step that move a session on.                             *)
LEMMA MovesTyped ==
  ASSUME SessionsOK, NEW s \in Session, ~ At(s, "idle"),
         NEW pc \in {"get", "dir", "probe", "lock", "insert", "clone", "launch", "all",
                     "mirror", "route", "answered", "stop", "remove", "rm", "read",
                     "unroute", "delete"},
         Goto(s, pc) \/ Slip(s, pc)
  PROVE  SessionsOK'
BY DEF SessionsOK, SessionType, Goto, Slip, At

(* A request that begins is well typed.                                    *)
LEMMA StartTyped ==
  ASSUME TInv, NEW s \in Session, NEW p \in Profile, NEW pc \in {"get", "lock", "stop"},
         NEW create \in BOOLEAN, Start(s, pc, p, create)
  PROVE  SessionsOK' /\ CountsOK'
<1> DEFINE alone == Active = {} /\ boot = Up
           new == [Idle EXCEPT !.pc = pc, !.name = p, !.port = row[p],
                               !.create = create, !.clean = alone]
<1>1. new \in SessionType /\ new.name \in Profile
  BY EmptyTyped DEF new, Idle, SessionType, TInv, MapsOK, PortMap
<1>2. ses' = [u \in Session |-> IF u = s THEN new ELSE [ses[u] EXCEPT !.clean = FALSE]]
  BY DEF Start, new, alone
<1>3. \A u \in Session : /\ [ses[u] EXCEPT !.clean = FALSE] \in SessionType
                         /\ [ses[u] EXCEPT !.clean = FALSE].pc = ses[u].pc
                         /\ [ses[u] EXCEPT !.clean = FALSE].name = ses[u].name
  BY DEF TInv, SessionsOK, SessionType
<1>4. SessionsOK'
  <2> HIDE DEF new
  <2> QED BY <1>1, <1>2, <1>3 DEF TInv, SessionsOK
<1>5. calm' = (calm /\ alone) /\ handled < MaxHandled /\ handled' = handled + 1
      /\ failures' = failures
  BY DEF Start, Fine, alone
<1>6. calm' \in BOOLEAN
  BY <1>5
<1>7. handled' \in 0 .. MaxHandled /\ failures' \in 0 .. MaxFailures
  <2> HIDE DEF alone
  <2> QED BY <1>5, RoutingAssumption DEF TInv, CountsOK
<1> QED BY <1>4, <1>6, <1>7 DEF CountsOK

(* A failure that happens is counted and stays within the bound.           *)
LEMMA FailureTyped ==
  ASSUME CountsOK, UNCHANGED handled, calm' \in BOOLEAN,
         \/ UNCHANGED failures
         \/ failures < MaxFailures /\ failures' = failures + 1
  PROVE  CountsOK'
BY RoutingAssumption DEF CountsOK

(* What a step leaves alone stays well typed.                              *)
LEMMA TypesKept ==
  ASSUME TInv
  PROVE  /\ UNCHANGED <<pod, database, gateway, boot>> => MapsOK'
         /\ UNCHANGED ses => SessionsOK'
         /\ UNCHANGED history => CountsOK'
BY DEF TInv, MapsOK, SessionsOK, CountsOK, pod, database, gateway, history

(* Setting one profile of a port map.                                      *)
LEMMA PutTyped ==
  ASSUME NEW m \in PortMap, NEW p, NEW n \in Port \cup {None}
  PROVE  [m EXCEPT ![p] = n] \in PortMap
BY DEF PortMap

(* A step of ensure_profile before the launch.                             *)
LEMMA EnsureTyped ==
  ASSUME TInv, NEW s \in Session, EnsureGet(s) \/ EnsureDir(s) \/ EnsureProbe(s)
  PROVE  TInv'
<1>1. CASE EnsureGet(s)
  <2>1. map[Name(s)] \in Port \cup {None}
    BY <1>1 DEF EnsureGet, At, Name, TInv, MapsOK, SessionsOK, PortMap
  <2>2. SessionsOK'
    BY <1>1, <2>1, MovesTyped DEF EnsureGet, TInv, SessionsOK, SessionType, At
  <2> QED BY <1>1, <2>2, TypesKept, FailureTyped DEF EnsureGet, Fine, Failure, TInv, CountsOK
<1>2. CASE EnsureDir(s)
  <2>1. row' = row \/ row' = [row EXCEPT ![Name(s)] = None]
    BY <1>2 DEF EnsureDir
  <2>2. row' \in PortMap
    <3>1. None \in Port \cup {None} /\ row \in PortMap
      BY DEF TInv, MapsOK
    <3> QED BY <2>1, <3>1 DEF PortMap
  <2>4. MapsOK'
    BY <1>2, <2>2 DEF EnsureDir, TInv, MapsOK, pod, gateway
  <2>3. SessionsOK'
    BY <1>2, MovesTyped DEF EnsureDir, TInv, SessionsOK, SessionType, At
  <2> QED BY <1>2, <2>3, <2>4, FailureTyped DEF EnsureDir, Fine, Failure, TInv, CountsOK
<1>3. CASE EnsureProbe(s)
  <2>1. SessionsOK'
    BY <1>3, MovesTyped DEF EnsureProbe, TInv, At
  <2> QED BY <1>3, <2>1, TypesKept, FailureTyped DEF EnsureProbe, Fine, Failure, TInv, CountsOK
<1> QED BY <1>1, <1>2, <1>3

(* A step of _do_create_profile before the launch.                         *)
LEMMA CreateTyped ==
  ASSUME TInv, NEW s \in Session, CreateAlloc(s) \/ CreateInsert(s) \/ CreateClone(s)
  PROVE  TInv'
<1>1. Name(s) \in Profile /\ ses[s].port \in Port \cup {None}
  BY DEF TInv, SessionsOK, SessionType, CreateAlloc, CreateInsert, CreateClone, At, Name
<1>2. CASE CreateAlloc(s)
  <2>1. CASE map' = Alloc(Name(s)) /\ (map[Name(s)] # None \/ Free # {})
             /\ ses' = [ses EXCEPT ![s].pc = "insert", ![s].port = map'[Name(s)]]
    <3>1. Alloc(Name(s)) \in PortMap
      BY <2>1, <1>1, FirstFreeIsFree, PutTyped DEF Alloc, Free, TInv, MapsOK
    <3>2. MapsOK'
      BY <1>2, <2>1, <3>1 DEF CreateAlloc, TInv, MapsOK, database, gateway
    <3>3. map'[Name(s)] \in Port \cup {None}
      BY <1>1, <2>1, <3>1 DEF PortMap
    <3>4. SessionsOK'
      <4> DEFINE n == map'[Name(s)]
      <4>1. ses' = [ses EXCEPT ![s].pc = "insert", ![s].port = n] /\ n \in Port \cup {None}
        BY <2>1, <3>3
      <4> HIDE DEF n
      <4>2. [ses[s] EXCEPT !.pc = "insert", !.port = n] \in SessionType
        BY <4>1 DEF TInv, SessionsOK, SessionType
      <4>3. ses' = [ses EXCEPT ![s] = [ses[s] EXCEPT !.pc = "insert", !.port = n]]
        BY <4>1 DEF TInv, SessionsOK
      <4>4. [ses[s] EXCEPT !.pc = "insert", !.port = n].name = ses[s].name
        BY DEF TInv, SessionsOK, SessionType
      <4> QED BY <1>1, <4>2, <4>3, <4>4 DEF TInv, SessionsOK, Name
    <3> QED BY <1>2, <3>2, <3>4, FailureTyped DEF Fine, Failure, CreateAlloc, TInv, CountsOK
  <2>2. CASE ses' = [ses EXCEPT ![s] = Idle] /\ UNCHANGED map
    <3>1. MapsOK' /\ SessionsOK'
      BY <1>2, <2>2, EmptyTyped DEF CreateAlloc, TInv, MapsOK, SessionsOK, database, gateway
    <3> QED BY <1>2, <3>1, FailureTyped DEF Fine, Failure, CreateAlloc, TInv, CountsOK
  <2> QED BY <1>2, <2>1, <2>2 DEF CreateAlloc
<1>3. CASE CreateInsert(s)
  <2>1. row' \in PortMap
    <3>1. row' = [row EXCEPT ![Name(s)] = ses[s].port] \/ row' = row
      BY <1>3 DEF CreateInsert
    <3> QED BY <1>1, <3>1, PutTyped DEF TInv, MapsOK
  <2>2. MapsOK'
    BY <1>3, <2>1 DEF CreateInsert, TInv, MapsOK, pod, gateway
  <2>3. ASSUME Goto(s, "clone") PROVE SessionsOK'
    <3>1. SessionsOK /\ ~ At(s, "idle")
      BY <1>3 DEF CreateInsert, TInv, At
    <3> QED BY <2>3, <3>1, MovesTyped
  <2>4. ASSUME ses' = [ses EXCEPT ![s] = Idle] PROVE SessionsOK'
    BY <2>4, EmptyTyped DEF TInv, SessionsOK
  <2>5. SessionsOK'
    BY <1>3, <2>3, <2>4 DEF CreateInsert
  <2> QED BY <1>3, <2>2, <2>5, FailureTyped DEF Fine, Failure, CreateInsert, TInv, CountsOK
<1>4. CASE CreateClone(s)
  <2>1. MapsOK'
    BY <1>1, <1>4 DEF CreateClone, TInv, MapsOK, database, gateway
  <2> QED BY <1>4, <2>1, MovesTyped, FailureTyped DEF Fine, Failure, CreateClone, TInv, CountsOK, At
<1> QED BY <1>2, <1>3, <1>4

(* A step of what both end with.                                           *)
LEMMA EndTyped ==
  ASSUME TInv, NEW s \in Session,
         Launch(s) \/ ReadAll(s) \/ Mirror(s) \/ Route(s) \/ Answer(s)
  PROVE  TInv'
<1>1. /\ Name(s) \in Profile /\ ses[s].port \in Port \cup {None}
      /\ ses[s].seen \in PortMap
  BY DEF TInv, SessionsOK, SessionType, Launch, ReadAll, Mirror, Route, Answer, At, Name
<1>2. CASE Launch(s)
  <2>1. process' \in PortMap
    BY <1>1, <1>2, PutTyped DEF Launch, Launched, TInv, MapsOK
  <2>2. MapsOK'
    BY <1>2, <2>1 DEF Launch, TInv, MapsOK, database, gateway
  <2> QED BY <1>2, <2>2, MovesTyped, FailureTyped DEF Fine, Failure, Launch, TInv, CountsOK, At
<1>3. CASE ReadAll(s)
  <2>1. \A m \in {map, Nowhere, [Nowhere EXCEPT ![Name(s)] = ses[s].port]} : m \in PortMap
    BY <1>1, EmptyTyped DEF TInv, MapsOK, PortMap
  <2>2. SessionsOK'
    BY <1>1, <1>3, <2>1 DEF ReadAll, TInv, SessionsOK, SessionType, Name
  <2> QED BY <1>3, <2>2, TypesKept, FailureTyped DEF Fine, Failure, ReadAll, TInv, CountsOK
<1>4. CASE Mirror(s)
  <2>1. row' \in PortMap /\ mirror' \in PortMap
    BY <1>1, <1>4, PutTyped DEF Mirror, TInv, MapsOK
  <2>2. MapsOK'
    BY <1>4, <2>1 DEF Mirror, TInv, MapsOK, pod, gateway
  <2> QED BY <1>4, <2>2, MovesTyped, TypesKept DEF Mirror, TInv, At
<1>5. CASE Route(s)
  <2>1. MapsOK'
    BY <1>1, <1>5 DEF Route, Routed, TInv, MapsOK, database, gateway
  <2>2. calm' \in BOOLEAN
    BY <1>5 DEF Route, TInv, CountsOK
  <2> QED BY <1>5, <2>1, <2>2, MovesTyped, FailureTyped DEF Fine, Failure, Route, TInv, At
<1>6. CASE Answer(s)
  <2>1. SessionsOK'
    BY <1>6, EmptyTyped DEF Answer, TInv, SessionsOK
  <2> QED BY <1>6, <2>1, TypesKept DEF Answer, TInv
<1> QED BY <1>2, <1>3, <1>4, <1>5, <1>6

(* A step of teardown_profile.                                             *)
LEMMA TeardownTyped ==
  ASSUME TInv, NEW s \in Session,
         \/ TeardownStop(s) \/ TeardownRemove(s) \/ TeardownRm(s)
         \/ TeardownRead(s) \/ TeardownRoute(s) \/ TeardownDelete(s)
  PROVE  TInv'
<1>1. None \in Port \cup {None} /\ ses[s].seen \in PortMap
  BY DEF TInv, SessionsOK, SessionType
<1>2. CASE TeardownStop(s)
  <2>1. process' \in PortMap
    BY <1>1, <1>2 DEF TeardownStop, TInv, MapsOK, PortMap
  <2>2. MapsOK' /\ calm' \in BOOLEAN
    BY <1>2, <2>1 DEF TeardownStop, TInv, MapsOK, CountsOK, database, gateway
  <2> QED BY <1>2, <2>2, MovesTyped, FailureTyped DEF Fine, Failure, TeardownStop, TInv, At
<1>3. CASE TeardownRemove(s)
  <2>1. map' \in PortMap
    BY <1>1, <1>3 DEF TeardownRemove, TInv, MapsOK, PortMap
  <2>2. MapsOK'
    BY <1>3, <2>1 DEF TeardownRemove, TInv, MapsOK, database, gateway
  <2> QED BY <1>3, <2>2, MovesTyped, FailureTyped DEF Fine, Failure, TeardownRemove, TInv, CountsOK, At
<1>4. CASE TeardownRm(s)
  <2>1. MapsOK'
    BY <1>4 DEF TeardownRm, TInv, MapsOK, database, gateway
  <2> QED BY <1>4, <2>1, MovesTyped, FailureTyped DEF Fine, Failure, TeardownRm, TInv, CountsOK, At
<1>5. CASE TeardownRead(s)
  <2>1. SessionsOK'
    BY <1>5, EmptyTyped DEF TeardownRead, TInv, MapsOK, SessionsOK, SessionType, At
  <2> QED BY <1>5, <2>1, TypesKept, FailureTyped DEF Fine, Failure, TeardownRead, TInv, CountsOK
<1>6. CASE TeardownRoute(s)
  <2>1. MapsOK' /\ calm' \in BOOLEAN
    BY <1>1, <1>6 DEF TeardownRoute, TInv, MapsOK, CountsOK, database, gateway
  <2> QED BY <1>6, <2>1, MovesTyped, FailureTyped DEF Fine, Failure, TeardownRoute, TInv, At
<1>7. CASE TeardownDelete(s)
  <2>1. row' \in PortMap
    BY <1>1, <1>7, PutTyped DEF TeardownDelete, TInv, MapsOK
  <2>2. MapsOK'
    BY <1>1, <1>7, <2>1 DEF TeardownDelete, TInv, MapsOK, pod, gateway
  <2>3. SessionsOK'
    BY <1>7, EmptyTyped DEF TeardownDelete, TInv, SessionsOK
  <2> QED BY <1>7, <2>2, <2>3, TypesKept DEF TeardownDelete, TInv
<1> QED BY <1>2, <1>3, <1>4, <1>5, <1>6, <1>7

(* A step of the Pod or of the gateway by itself.                          *)
LEMMA PodTyped ==
  ASSUME TInv,
         BootStep \/ \E p \in Profile : GatewayStep(p) \/ ProcessDies(p)
  PROVE  TInv'
<1>1. Nowhere \in PortMap /\ None \in Port \cup {None}
  BY EmptyTyped
<1>2. CASE Restart
  <2>1. MapsOK' /\ calm' \in BOOLEAN
    BY <1>1, <1>2 DEF Restart, Up, TInv, MapsOK, CountsOK, database, gateway
  <2>2. SessionsOK'
    BY <1>2 DEF Restart, TInv, SessionsOK, SessionType
  <2> QED BY <1>2, <2>1, <2>2, FailureTyped DEF Fine, Failure, Restart, TInv
<1>3. CASE BootReconcile
  <2>1. MapsOK'
    BY <1>3 DEF BootReconcile, Reconciled, PortMap, TInv, MapsOK, database, gateway
  <2> QED BY <1>3, <2>1, TypesKept DEF BootReconcile, TInv
<1>4. CASE BootNginx
  <2>1. MapsOK'
    BY <1>1, <1>4 DEF BootNginx, Up, TInv, MapsOK, database, gateway
  <2> QED BY <1>4, <2>1, TypesKept DEF BootNginx, TInv
<1>5. CASE BootLaunch
  <2>1. process' \in PortMap
    BY <1>5 DEF BootLaunch, PortMap, TInv, MapsOK
  <2>2. MapsOK'
    BY <1>1, <1>5, <2>1 DEF BootLaunch, Up, TInv, MapsOK, database, gateway
  <2> QED BY <1>5, <2>2, TypesKept DEF BootLaunch, TInv
<1>6. CASE BootRegister
  <2>1. row' \in PortMap
    BY <1>6 DEF BootRegister, PortMap, TInv, MapsOK
  <2>2. MapsOK'
    BY <1>1, <1>6, <2>1 DEF BootRegister, Up, TInv, MapsOK, pod, gateway
  <2> QED BY <1>6, <2>2, TypesKept DEF BootRegister, TInv
<1>7. ASSUME NEW p \in Profile, GatewayStep(p)
      PROVE  TInv'
  <2>1. MapsOK'
    BY <1>7 DEF GatewayStep, Resolve, Answers502, FailureExpires, CacheExpires, TInv, MapsOK, pod, database, gateway
  <2> QED BY <1>7, <2>1, TypesKept DEF GatewayStep, Resolve, Answers502, FailureExpires, CacheExpires, TInv
<1>8. ASSUME NEW p \in Profile, ProcessDies(p)
      PROVE  TInv'
  <2>1. process' \in PortMap
    BY <1>1, <1>8, PutTyped DEF ProcessDies, TInv, MapsOK
  <2>2. MapsOK'
    BY <1>8, <2>1 DEF ProcessDies, TInv, MapsOK, database, gateway
  <2>3. ses' = [t \in Session |-> [ses[t] EXCEPT !.clean = FALSE]]
    BY <1>8 DEF ProcessDies
  <2>4. SessionsOK'
    BY <2>3 DEF TInv, SessionsOK, SessionType
  <2> QED BY <1>8, <2>2, <2>4, FailureTyped DEF Fine, Failure, ProcessDies, TInv, CountsOK
<1> QED BY <1>2, <1>3, <1>4, <1>5, <1>6, <1>7, <1>8 DEF BootStep

(* A request that begins.                                                  *)
LEMMA BeginTyped ==
  ASSUME TInv, NEW s \in Session, NEW p \in Profile, Ensure(s, p) \/ Teardown(s, p)
  PROVE  TInv'
<1>1. MapsOK'
  BY DEF Ensure, Teardown, TInv, MapsOK, pod, database, gateway
<1>2. \E pc \in {"get", "lock", "stop"}, create \in BOOLEAN : Start(s, pc, p, create)
  BY DEF Ensure, Teardown
<1>3. SessionsOK' /\ CountsOK'
  BY <1>2, StartTyped
<1> QED BY <1>1, <1>3 DEF TInv

(* Every step keeps the types.                                             *)
LEMMA StepTyped == TInv /\ [Next]_vars => TInv'
<1> SUFFICES ASSUME TInv, [Next]_vars PROVE TInv'
  OBVIOUS
<1>1. CASE UNCHANGED vars
  BY <1>1, TypesKept DEF vars, TInv
<1>2. CASE Next
  BY <1>2, EnsureTyped, CreateTyped, EndTyped, TeardownTyped, PodTyped, BeginTyped
     DEF Next, HandlerStep
<1> QED BY <1>1, <1>2

(* So do they hold from the start.                                         *)
LEMMA InitTyped == Init => TInv
BY RoutingAssumption, EmptyTyped DEF Init, TInv, MapsOK, SessionsOK, CountsOK, Up

LEMMA TypesHold == Spec => []TInv
<1>1. Init => TInv
  BY InitTyped
<1>2. TInv /\ [Next]_vars => TInv'
  BY StepTyped
<1> QED BY <1>1, <1>2, PTL DEF Spec

(* Every variable of the routing keeps its type.                           *)
THEOREM TypeCorrect == Spec => []TypeOK
<1>1. TInv => TypeOK
  BY DEF TInv, MapsOK, SessionsOK, CountsOK, TypeOK
<1> QED BY <1>1, TypesHold, PTL

(***************************************************************************)
(* Uniqueness of ports                                                     *)
(***************************************************************************)
Unique == PortsUnique /\ CopiesUnique

(* No profile but p has a port in the empty map, or in the one with p.     *)
LEMMA OneUnique ==
  ASSUME NEW p, NEW n
  PROVE  Injective(Nowhere) /\ Injective([Nowhere EXCEPT ![p] = n])
BY DEF Injective, Nowhere

(* Taking away a port keeps a map unique.                                  *)
LEMMA RemovalUnique ==
  ASSUME NEW m \in PortMap, Injective(m), NEW p
  PROVE  Injective([m EXCEPT ![p] = None])
BY DEF Injective, PortMap

(* So does the allocation.                                                 *)
LEMMA AllocUnique ==
  ASSUME NEW p \in Profile, map \in PortMap, Injective(map),
         map[p] # None \/ Free # {}
  PROVE  Injective(Alloc(p))
<1>1. CASE map[p] # None
  BY <1>1 DEF Alloc
<1>2. CASE map[p] = None
  <2>1. \A q \in Profile : map[q] # FirstFree
    BY <1>2, FirstFreeIsFree, PortsAreNumbers DEF Free, PortsOf
  <2>2. Alloc(p) = [map EXCEPT ![p] = FirstFree]
    BY <1>2 DEF Alloc
  <2> HIDE DEF Injective
  <2>3. ASSUME NEW f, \A q \in Profile : map[q] # f
        PROVE  Injective([map EXCEPT ![p] = f])
    BY <2>3 DEF Injective, PortMap
  <2> QED BY <2>1, <2>2, <2>3
<1> QED BY <1>1, <1>2

(* And so does the reconciliation with the directories.                    *)
LEMMA ReconcileUnique ==
  ASSUME Injective(map), NEW m \in Reconciled
  PROVE  Injective(m)
<1> SUFFICES ASSUME NEW p \in Profile, NEW q \in Profile, m[p] = m[q], m[p] # None, p # q
             PROVE  FALSE
  BY DEF Injective
<1>1. ASSUME NEW u \in Orphans, NEW v \in Profile, u # v
      PROVE  m[u] # m[v] \/ m[v] = None
  <2>1. m[u] \notin Kept /\ \A w \in Orphans \ {u} : m[u] # m[w]
    BY <1>1 DEF Reconciled
  <2>2. CASE v \in Orphans
    BY <1>1, <2>1, <2>2
  <2>3. CASE v \notin Orphans
    BY <2>1, <2>3 DEF Reconciled, Surviving, Kept
  <2> QED BY <2>2, <2>3
<1>2. CASE p \notin Orphans /\ q \notin Orphans
  BY <1>2 DEF Reconciled, Surviving, Injective
<1> QED BY <1>1, <1>2 DEF Orphans

(* The parts a step leaves alone stay unique.                              *)
LEMMA UniqueKept ==
  ASSUME Unique
  PROVE  /\ UNCHANGED map => PortsUnique'
         /\ UNCHANGED nginx => Injective(nginx)'
         /\ UNCHANGED mirror => Injective(mirror)'
         /\ UNCHANGED boot => Injective(boot.seen)'
         /\ UNCHANGED ses => \A s \in Session : Injective(ses[s].seen)'
BY DEF Unique, PortsUnique, CopiesUnique, Injective

(* A step that leaves the copies of the sessions alone.                    *)
LEMMA SeenKept ==
  ASSUME Unique, \A s \in Session : ses'[s].seen \in {ses[s].seen, Nowhere}
  PROVE  \A s \in Session : Injective(ses[s].seen)'
BY OneUnique DEF Unique, CopiesUnique, Injective

(* What a handler that goes on has read stays what it is.                  *)
LEMMA MovesKeepSeen ==
  ASSUME SessionsOK, NEW s \in Session, NEW pc, Goto(s, pc) \/ Slip(s, pc)
  PROVE  \A u \in Session : ses'[u].seen = ses[u].seen
BY DEF SessionsOK, SessionType, Goto, Slip

(* A request that begins has read nothing.                                 *)
LEMMA StartKeepsSeen ==
  ASSUME ses \in [Session -> SessionType], NEW s \in Session, NEW p, NEW pc, NEW create,
         Start(s, pc, p, create)
  PROVE  \A u \in Session : ses'[u].seen \in {ses[u].seen, Nowhere}
<1>1. ASSUME NEW u \in Session \ {s} PROVE ses'[u].seen = ses[u].seen
  <2>1. ses'[u] = [ses[u] EXCEPT !.clean = FALSE]
    BY DEF Start
  <2> QED BY <2>1 DEF SessionType
<1>2. ses'[s].seen = Nowhere
  <2> DEFINE alone == Active = {} /\ boot = Up
  <2>1. ses'[s] = [Idle EXCEPT !.pc = pc, !.name = p, !.port = row[p], !.create = create,
                               !.clean = alone]
    BY DEF Start
  <2> HIDE DEF alone
  <2> QED BY <2>1 DEF Idle
<1> QED BY <1>1, <1>2

(* A request keeps every port unique.                                      *)
LEMMA HandlerUnique ==
  ASSUME TInv, Unique, NEW s \in Session, HandlerStep(s)
  PROVE  Unique'
<1> USE DEF TInv, MapsOK
<1>1. ses \in [Session -> SessionType] /\ Injective(ses[s].seen) /\ Injective(map)
  BY DEF SessionsOK, Unique, CopiesUnique, PortsUnique
<1>2. CASE EnsureGet(s) \/ EnsureDir(s) \/ EnsureProbe(s)
  <2>1. UNCHANGED <<map, nginx, mirror, boot>>
    BY <1>2 DEF EnsureGet, EnsureDir, EnsureProbe, pod, database
  <2>2. \A u \in Session : ses'[u].seen = ses[u].seen
    BY <1>1, <1>2, MovesKeepSeen DEF EnsureGet, EnsureDir, EnsureProbe, SessionType
  <2> QED BY <2>1, <2>2, UniqueKept, SeenKept DEF Unique, CopiesUnique
<1>3. CASE CreateAlloc(s)
  <2>1. Name(s) \in Profile
    BY <1>3 DEF CreateAlloc, At, Name, SessionsOK
  <2>2. \/ map' = Alloc(Name(s)) /\ (map[Name(s)] # None \/ Free # {})
        \/ map' = map
    BY <1>3 DEF CreateAlloc
  <2>3. PortsUnique'
    BY <1>1, <2>1, <2>2, AllocUnique DEF PortsUnique, Injective
  <2>4. \A u \in Session : ses'[u].seen \in {ses[u].seen, Nowhere}
    BY <1>1, <1>3 DEF CreateAlloc, SessionType, Idle
  <2>5. UNCHANGED <<nginx, mirror, boot>>
    BY <1>3 DEF CreateAlloc, database
  <2> QED BY <2>3, <2>4, <2>5, UniqueKept, SeenKept DEF Unique, CopiesUnique
<1>4. CASE CreateInsert(s) \/ CreateClone(s) \/ Launch(s)
  <2>1. UNCHANGED <<map, nginx, mirror, boot>>
    BY <1>4 DEF CreateInsert, CreateClone, Launch, pod, database
  <2>2. \A u \in Session : ses'[u].seen \in {ses[u].seen, Nowhere}
    <3>1. CASE ses' = [ses EXCEPT ![s] = Idle]
      BY <1>1, <3>1 DEF Idle, SessionType
    <3>2. CASE \E pc : Goto(s, pc) \/ Slip(s, pc)
      BY <3>2, MovesKeepSeen
    <3> QED BY <1>4, <3>1, <3>2 DEF CreateInsert, CreateClone, Launch
  <2> QED BY <2>1, <2>2, UniqueKept, SeenKept DEF Unique, CopiesUnique
<1>5. CASE ReadAll(s)
  <2>1. UNCHANGED <<map, nginx, mirror, boot>>
    BY <1>5 DEF ReadAll, pod, database
  <2>2. /\ \A u \in Session \ {s} : ses'[u].seen = ses[u].seen
        /\ ses'[s].seen \in {map, Nowhere, [Nowhere EXCEPT ![Name(s)] = ses[s].port]}
    BY <1>1, <1>5 DEF ReadAll, SessionType
  <2>3. \A u \in Session : Injective(ses'[u].seen)
    <3>1. Injective(Nowhere) /\ Injective([Nowhere EXCEPT ![Name(s)] = ses[s].port])
      BY OneUnique
    <3>2. \A u \in Session : Injective(ses[u].seen)
      BY DEF Unique, CopiesUnique
    <3> QED BY <1>1, <2>2, <3>1, <3>2
  <2>4. \A u \in Session : Injective(ses[u].seen)'
    BY <2>3 DEF Injective
  <2> QED BY <2>1, <2>4, UniqueKept DEF Unique, CopiesUnique
<1>6. CASE Mirror(s) \/ Route(s)
  <2>1. UNCHANGED <<map, boot>>
    BY <1>6 DEF Mirror, Route, pod, database
  <2>2. /\ \A u \in Session : ses'[u].seen = ses[u].seen
        /\ mirror' \in {mirror, ses[s].seen} /\ nginx' \in {nginx, ses[s].seen}
    BY <1>6, MovesKeepSeen DEF Mirror, Route, Routed, pod, database
  <2>3. Injective(mirror)' /\ Injective(nginx)'
    BY <1>1, <2>2 DEF Unique, CopiesUnique, Injective
  <2> QED BY <2>1, <2>2, <2>3, UniqueKept, SeenKept DEF Unique, CopiesUnique
<1>7. CASE Answer(s)
  <2>1. UNCHANGED <<map, nginx, mirror, boot>>
    BY <1>7 DEF Answer, pod, database
  <2>2. \A u \in Session : ses'[u].seen \in {ses[u].seen, Nowhere}
    BY <1>1, <1>7 DEF Answer, Idle
  <2> QED BY <2>1, <2>2, UniqueKept, SeenKept DEF Unique, CopiesUnique
<1>8. CASE TeardownStop(s) \/ TeardownRm(s)
  <2>1. UNCHANGED <<map, nginx, mirror, boot>>
    BY <1>8 DEF TeardownStop, TeardownRm, pod, database
  <2>2. \A u \in Session : ses'[u].seen = ses[u].seen
    BY <1>8, MovesKeepSeen DEF TeardownStop, TeardownRm
  <2> QED BY <2>1, <2>2, UniqueKept, SeenKept DEF Unique, CopiesUnique
<1>9. CASE TeardownRemove(s)
  <2>1. map' \in {map, [map EXCEPT ![Name(s)] = None]}
    BY <1>9 DEF TeardownRemove
  <2>2. Injective(map')
    BY <1>1, <2>1, RemovalUnique
  <2>5. PortsUnique'
    BY <2>2 DEF PortsUnique, Injective
  <2>3. \A u \in Session : ses'[u].seen = ses[u].seen
    BY <1>9, MovesKeepSeen DEF TeardownRemove
  <2>4. UNCHANGED <<nginx, mirror, boot>>
    BY <1>9 DEF TeardownRemove, database
  <2> QED BY <2>3, <2>4, <2>5, UniqueKept, SeenKept DEF Unique, CopiesUnique
<1>10. CASE TeardownRead(s)
  <2>1. UNCHANGED <<map, nginx, mirror, boot>>
    BY <1>10 DEF TeardownRead, pod, database
  <2>2. /\ \A u \in Session \ {s} : ses'[u].seen = ses[u].seen
        /\ ses'[s].seen \in {map, Nowhere}
    BY <1>1, <1>10 DEF TeardownRead, SessionType
  <2>3. \A u \in Session : Injective(ses'[u].seen)
    BY <1>1, <2>2, OneUnique DEF Unique, CopiesUnique
  <2>4. \A u \in Session : Injective(ses[u].seen)'
    BY <2>3 DEF Injective
  <2> QED BY <2>1, <2>4, UniqueKept DEF Unique, CopiesUnique
<1>11. CASE TeardownRoute(s)
  <2>1. UNCHANGED <<map, mirror, boot>> /\ nginx' \in {nginx, ses[s].seen}
    BY <1>11 DEF TeardownRoute, database
  <2>2. \A u \in Session : ses'[u].seen = ses[u].seen
    BY <1>11, MovesKeepSeen DEF TeardownRoute
  <2>3. Injective(nginx)'
    BY <1>1, <2>1 DEF Unique, CopiesUnique, Injective
  <2> QED BY <2>1, <2>2, <2>3, UniqueKept, SeenKept DEF Unique, CopiesUnique
<1>12. CASE TeardownDelete(s)
  <2>1. UNCHANGED <<map, nginx, boot>> /\ mirror' = ses[s].seen
    BY <1>12 DEF TeardownDelete, pod
  <2>2. \A u \in Session : ses'[u].seen \in {ses[u].seen, Nowhere}
    BY <1>1, <1>12 DEF TeardownDelete, Idle
  <2>3. Injective(mirror)'
    BY <1>1, <2>1 DEF Injective
  <2> QED BY <2>1, <2>2, <2>3, UniqueKept, SeenKept DEF Unique, CopiesUnique
<1> QED BY <1>2, <1>3, <1>4, <1>5, <1>6, <1>7, <1>8, <1>9, <1>10, <1>11, <1>12
        DEF HandlerStep

(* So does every other step.                                               *)
LEMMA OthersUnique ==
  ASSUME TInv, Unique,
         \/ BootStep
         \/ \E p \in Profile : GatewayStep(p) \/ ProcessDies(p)
         \/ \E s \in Session, p \in Profile : Ensure(s, p) \/ Teardown(s, p)
         \/ UNCHANGED vars
  PROVE  Unique'
<1> USE DEF TInv, MapsOK
<1>1. /\ ses \in [Session -> SessionType] /\ Injective(map) /\ Injective(boot.seen)
      /\ Injective(Nowhere)
  BY OneUnique DEF SessionsOK, Unique, CopiesUnique, PortsUnique
<1>2. CASE Restart
  <2>1. UNCHANGED <<map, mirror>> /\ nginx' = Nowhere /\ boot'.seen = Nowhere
    BY <1>2 DEF Restart, Up, database
  <2>2. \A u \in Session : ses'[u].seen = ses[u].seen
    BY <1>1, <1>2 DEF Restart, SessionType
  <2>3. Injective(nginx)' /\ Injective(boot.seen)'
    BY <1>1, <2>1 DEF Injective
  <2> QED BY <2>1, <2>2, <2>3, UniqueKept, SeenKept DEF Unique, CopiesUnique
<1>3. CASE BootReconcile
  <2>1. map' \in Reconciled /\ boot'.seen = map' /\ UNCHANGED <<nginx, mirror, ses>>
    BY <1>3 DEF BootReconcile, database
  <2>2. PortsUnique' /\ Injective(boot.seen)'
    BY <1>1, <2>1, ReconcileUnique DEF PortsUnique, Injective
  <2> QED BY <2>1, <2>2, UniqueKept DEF Unique, CopiesUnique
<1>4. CASE BootNginx \/ BootLaunch \/ BootRegister
  <2>1. /\ UNCHANGED <<map, mirror, ses>> /\ nginx' \in {nginx, boot.seen}
        /\ boot'.seen = Nowhere
    BY <1>4 DEF BootNginx, BootLaunch, BootRegister, Up, pod, database
  <2>2. Injective(nginx)' /\ Injective(boot.seen)'
    BY <1>1, <2>1 DEF Unique, CopiesUnique, Injective
  <2> QED BY <2>1, <2>2, UniqueKept DEF Unique, CopiesUnique
<1>5. ASSUME NEW p \in Profile, GatewayStep(p) \/ ProcessDies(p)
      PROVE  Unique'
  <2>1. UNCHANGED <<map, nginx, mirror, boot>>
    BY <1>5 DEF GatewayStep, Resolve, Answers502, FailureExpires, CacheExpires, ProcessDies, pod, database
  <2>2. \A u \in Session : ses'[u].seen = ses[u].seen
    BY <1>1, <1>5 DEF GatewayStep, Resolve, Answers502, FailureExpires, CacheExpires, ProcessDies, SessionType
  <2> QED BY <2>1, <2>2, UniqueKept, SeenKept DEF Unique, CopiesUnique
<1>6. ASSUME NEW s \in Session, NEW p \in Profile, Ensure(s, p) \/ Teardown(s, p)
      PROVE  Unique'
  <2>1. UNCHANGED <<map, nginx, mirror, boot>>
    BY <1>6 DEF Ensure, Teardown, pod, database
  <2>2. \E pc \in {"get", "lock", "stop"}, create \in BOOLEAN : Start(s, pc, p, create)
    BY <1>6 DEF Ensure, Teardown
  <2>3. \A u \in Session : ses'[u].seen \in {ses[u].seen, Nowhere}
    BY <1>1, <2>2, StartKeepsSeen
  <2> QED BY <2>1, <2>3, UniqueKept, SeenKept DEF Unique, CopiesUnique
<1>7. CASE UNCHANGED vars
  BY <1>7, UniqueKept DEF vars, pod, database, Unique, CopiesUnique
<1> QED BY <1>2, <1>3, <1>4, <1>5, <1>6, <1>7 DEF BootStep

LEMMA UniqueHolds == Spec => []Unique
<1>1. Init => Unique
  <2> SUFFICES ASSUME Init PROVE Unique
    OBVIOUS
  <2>1. /\ map = Nowhere /\ nginx = Nowhere /\ mirror = Nowhere /\ boot.seen = Nowhere
        /\ \A s \in Session : ses[s].seen = Nowhere
    BY DEF Init, Up, Idle
  <2> QED BY <2>1, OneUnique DEF Unique, PortsUnique, CopiesUnique
<1>2. TInv /\ Unique /\ [Next]_vars => Unique'
  BY HandlerUnique, OthersUnique DEF Next
<1> QED BY <1>1, <1>2, TypesHold, PTL DEF Spec

(* No two profiles share a port in port_map.json.                          *)
THEOREM PortsAreUnique == Spec => []PortsUnique
<1>1. Unique => PortsUnique
  BY DEF Unique
<1> QED BY <1>1, UniqueHolds, PTL

(* Nor in anything that was copied from it.                                *)
THEOREM CopiesAreUnique == Spec => []CopiesUnique
<1>1. Unique => CopiesUnique
  BY DEF Unique
<1> QED BY <1>1, UniqueHolds, PTL
=============================================================================
