---------------------------- MODULE Router_proofs ----------------------------
(***************************************************************************)
(* Proofs about Router, for any addresses, gateway routers and number of   *)
(* failures.  The inductive invariant has two parts besides the types:     *)
(* BirdInv, about one Configure against the goroutine of Run, and RecInv,  *)
(* about what a reconciliation has read and handed over against what the   *)
(* cluster says while nothing has queued the gateway.                      *)
(***************************************************************************)
EXTENDS Router, FiniteSetTheorems, TLAPS

(* What a Configure has done so far, at each of its steps. *)
BirdInv ==
    /\ runner \in {"exec", "bird"} => running
    /\ running => runner # "start"
    /\ call.pc \in {"birdc", "rules"} => file = Whole(call.vips, call.gateways)
    /\ call.pc = "rules" =>
          runner # "exec" /\ (runner = "bird" => loaded = file)

(* While nothing has queued the gateway, what the reconciliation works on  *)
(* is what there is.                                                       *)
RecInv ==
    /\ call.pc # "none" => rec.pc = "configure"
    /\ rec.pc = "configure" /\ call.pc = "none" => outcome \in {"ok", "failed"}
    /\ exists /\ ~queued =>
          /\ rec.pc = "idle" => Applied
          /\ rec.pc = "list" => rec.vips = status
          /\ call.pc # "none" =>
                call.vips = status /\ call.gateways \ Foreign = routers \ Foreign
          /\ rec.pc = "configure" /\ call.pc = "none" /\ outcome = "ok" => Applied
-----------------------------------------------------------------------------
(* Types *)

LEMMA FilesLemma ==
    /\ Absent \in Files /\ Cut \in Files
    /\ \A v \in SUBSET Vips, g \in SUBSET Routers : Whole(v, g) \in Files
<1>1. \A v \in SUBSET Vips, g \in SUBSET Routers : GetConfig(v, g) \in Configs
  BY DEF Configs
<1>2. QED
  BY <1>1 DEF Files, File, Absent, Cut, Whole

LEMMA CallsLemma ==
    /\ NoCall \in Calls /\ NoCall.pc = "none"
    /\ \A c \in Calls : c.vips \subseteq Vips /\ c.gateways \subseteq Routers
    /\ \A c \in Calls, pc \in {"lock", "write", "birdc", "rules"} :
          /\ [c EXCEPT !.pc = pc] \in Calls
          /\ [c EXCEPT !.pc = pc].pc = pc
          /\ [c EXCEPT !.pc = pc].vips = c.vips
          /\ [c EXCEPT !.pc = pc].gateways = c.gateways
BY DEF Calls, NoCall

LEMMA ReconciliationsLemma ==
    /\ Idle \in Reconciliations /\ Idle.pc = "idle"
    /\ \A r \in Reconciliations : r.vips \subseteq Vips
BY DEF Reconciliations, Idle

LEMMA TypeInit == Init => TypeOK
<1> SUFFICES ASSUME Init PROVE TypeOK
  OBVIOUS
<1>1. faults \in 0..MaxFaults
  BY BirdAssumption DEF Init, BirdInit
<1>2. file \in Files /\ loaded \in Files
  BY FilesLemma DEF Init, BirdInit
<1>3. call \in Calls /\ call.pc = "none" /\ mu = "free" /\ rec \in Reconciliations
  BY CallsLemma, ReconciliationsLemma DEF Init, BirdInit
<1>4. QED
  BY <1>1, <1>2, <1>3 DEF Init, BirdInit, TypeOK

LEMMA BirdTypeStep ==
  ASSUME TypeOK, UNCHANGED <<cluster, queued, rec>>,
         Run \/ RunWriteFails \/ BirdExits \/ ConfigureStep
  PROVE  TypeOK'
<1> USE FilesLemma, CallsLemma, BirdAssumption DEF TypeOK, cluster
<1>1. CASE RunPrepares
  BY <1>1 DEF RunPrepares
<1>2. CASE RunWriteFails
  BY <1>2 DEF RunWriteFails, Failures
<1>3. CASE BirdStarts
  BY <1>3 DEF BirdStarts
<1>4. CASE BirdExits
  BY <1>4 DEF BirdExits, Failures
<1>5. CASE ConfigureCreates
  BY <1>5 DEF ConfigureCreates, GoTo, At
<1>6. CASE ConfigureCreateFails
  BY <1>6 DEF ConfigureCreateFails, Return, At, Failures
<1>7. CASE ConfigureWrites
  <2>1. PICK pc \in {"birdc", "rules"} : GoTo(pc)
    BY <1>7 DEF ConfigureWrites
  <2>2. call' \in Calls /\ call'.pc = pc
    <3>1. call \in Calls
      OBVIOUS
    <3> HIDE DEF TypeOK
    <3>2. QED
      BY <2>1, <3>1 DEF GoTo
  <2>3. file' \in Files
    BY <1>7 DEF ConfigureWrites
  <2>4. QED
    BY <1>7, <2>2, <2>3 DEF ConfigureWrites, At
<1>8. CASE ConfigureWriteFails
  BY <1>8 DEF ConfigureWriteFails, Return, At, Failures
<1>9. CASE ConfigureBirdc
  BY <1>9 DEF ConfigureBirdc, GoTo, At
<1>10. CASE ConfigureBirdcFails
  BY <1>10 DEF ConfigureBirdcFails, Return, At, Failures
<1>11. CASE SetPolicyRoutes
  <2>1. PICK kept \in SUBSET (rules \ call.vips), missed \in SUBSET (call.vips \ rules) :
          /\ rules' = (call.vips \ missed) \cup kept
          /\ Failures(Cardinality(kept) + Cardinality(missed))
          /\ Return(IF kept \cup missed = {} THEN "ok" ELSE "failed")
    BY <1>11 DEF SetPolicyRoutes
  <2>2. rules' \subseteq Vips
    BY <2>1
  <2>3. Cardinality(kept) \in Nat /\ Cardinality(missed) \in Nat
    <3>1. kept \subseteq Vips /\ missed \subseteq Vips
      OBVIOUS
    <3>2. QED
      BY <3>1, FS_Subset, FS_CardinalityType
  <2>4. faults' \in 0..MaxFaults
    <3> HIDE DEF TypeOK
    <3>1. faults \in Nat
      BY DEF TypeOK
    <3>2. QED
      BY <2>1, <2>3, <3>1 DEF Failures
  <2>5. mu' = "free" /\ call' = NoCall /\ outcome' \in {"ok", "failed"}
    BY <2>1 DEF Return
  <2>6. QED
    BY <1>11, <2>2, <2>4, <2>5 DEF SetPolicyRoutes
<1>12. CASE ListRulesFails
  BY <1>12 DEF ListRulesFails, Return, At, Failures
<1>13. QED
  BY <1>1, <1>2, <1>3, <1>4, <1>5, <1>6, <1>7, <1>8, <1>9, <1>10, <1>11, <1>12
     DEF Run, ConfigureStep

LEMMA TypeStep == TypeOK /\ [Next]_vars => TypeOK'
<1> SUFFICES ASSUME TypeOK, [Next]_vars PROVE TypeOK'
  OBVIOUS
<1> USE FilesLemma, CallsLemma, ReconciliationsLemma, BirdAssumption, RouterAssumption
<1>1. CASE StatusChanges
  BY <1>1 DEF StatusChanges, TypeOK, bird
<1>2. CASE GatewayComesOrGoes
  BY <1>2 DEF GatewayComesOrGoes, TypeOK, bird
<1>3. ASSUME NEW r \in Routers, RouterChanges(r) PROVE TypeOK'
  BY <1>3 DEF RouterChanges, TypeOK, bird
<1>4. CASE GetGateway
  <2>1. rec' \in Reconciliations
    BY <1>4 DEF GetGateway, TypeOK, Reconciliations, Idle
  <2>2. QED
    BY <1>4, <2>1 DEF GetGateway, TypeOK, bird, cluster
<1>5. CASE ReadFails
  BY <1>5 DEF ReadFails, TypeOK, cluster, Failures
<1>6. CASE GetGatewayRouters
  <2>1. call' \in Calls /\ call'.pc = "lock"
    BY <1>6 DEF GetGatewayRouters, TypeOK, Configure, Calls
  <2>2. rec' \in Reconciliations
    BY <1>6 DEF GetGatewayRouters, Reconciliations, Idle
  <2>3. mu' # "configure"
    BY <1>6 DEF GetGatewayRouters, TypeOK
  <2>4. QED
    BY <1>6, <2>1, <2>2, <2>3 DEF GetGatewayRouters, TypeOK, cluster
<1>7. CASE Returned
  <2>1. outcome' = "none" /\ queued' \in BOOLEAN /\ rec' = Idle /\ call.pc = "none"
    BY <1>7 DEF Returned, At, TypeOK
  <2>2. QED
    BY <1>7, <2>1 DEF Returned, TypeOK, cluster
<1>8. CASE Restart
  <2>1. file' \in Files /\ loaded' \in Files
    BY <1>8 DEF Restart, RestartBird, TypeOK
  <2>2. faults' \in 0..MaxFaults
    BY <1>8 DEF Restart, RestartBird, TypeOK, Failures
  <2>3. QED
    BY <1>8, <2>1, <2>2 DEF Restart, RestartBird, TypeOK, cluster
<1>9. CASE UNCHANGED <<cluster, queued, rec>> /\ (Run \/ RunWriteFails \/ BirdExits \/ ConfigureStep)
  BY <1>9, BirdTypeStep
<1>10. CASE UNCHANGED vars
  BY <1>10 DEF vars, bird, cluster, TypeOK
<1>11. QED
  BY <1>1, <1>2, <1>3, <1>4, <1>5, <1>6, <1>7, <1>8, <1>9, <1>10 DEF Next, Reconcile

(* The variables have their types, and Bird.mu is held by the Configure    *)
(* that works or by a Run that has returned (bird.go: mu).                 *)
THEOREM TypeCorrect == Spec => []TypeOK
<1>1. QED
  BY TypeInit, TypeStep, PTL DEF Spec
-----------------------------------------------------------------------------
(* What a Configure has done *)

LEMMA RoutesLemma ==
  \A v \in SUBSET Vips, g \in SUBSET Routers : RoutesOf(Whole(v, g).config) = v
<1> SUFFICES ASSUME NEW v \in SUBSET Vips, NEW g \in SUBSET Routers
             PROVE  RoutesOf(Whole(v, g).config) = v
  OBVIOUS
<1>1. Whole(v, g).config = GetConfig(v, g)
  BY DEF Whole, File
<1>2. GetConfig(v, g).vips = [ipv4 |-> v \cap IPv4, ipv6 |-> v \cap IPv6]
  BY DEF GetConfig, VipsConfig
<1>3. RoutesOf(GetConfig(v, g)) = (v \cap IPv4) \cup (v \cap IPv6)
  BY <1>2 DEF RoutesOf
<1>4. QED
  BY <1>1, <1>3 DEF Vips

LEMMA PeersLemma ==
  ASSUME NEW v \in SUBSET Vips, NEW g \in SUBSET Routers
  PROVE  Local(Whole(v, g).config) = GatewaysConfig(g \ Foreign)
<1>1. Whole(v, g).config.peers = GatewaysConfig(g)
  BY DEF Whole, File, GetConfig
<1>2. \A r : BgpConfig(r).name = r
  BY DEF BgpConfig
<1>3. GatewaysConfig(g \ Foreign) = {p \in GatewaysConfig(g) : p.name \notin Foreign}
  BY <1>2 DEF GatewaysConfig
<1>4. QED
  BY <1>1, <1>3 DEF Local

LEMMA BirdInvInit == Init => BirdInv
BY CallsLemma DEF Init, BirdInit, BirdInv

LEMMA BirdInvStep == TypeOK /\ BirdInv /\ [Next]_vars => BirdInv'
<1> SUFFICES ASSUME TypeOK, BirdInv, [Next]_vars PROVE BirdInv'
  OBVIOUS
<1> USE CallsLemma
<1>1. CASE StatusChanges
  BY <1>1 DEF StatusChanges, BirdInv, bird
<1>2. CASE GatewayComesOrGoes
  BY <1>2 DEF GatewayComesOrGoes, BirdInv, bird
<1>3. ASSUME NEW r \in Routers, RouterChanges(r) PROVE BirdInv'
  BY <1>3 DEF RouterChanges, BirdInv, bird
<1>4. CASE GetGateway
  BY <1>4 DEF GetGateway, BirdInv, bird
<1>5. CASE ReadFails
  BY <1>5 DEF ReadFails, BirdInv
<1>6. CASE GetGatewayRouters
  BY <1>6 DEF GetGatewayRouters, BirdInv, Configure
<1>7. CASE Returned
  BY <1>7 DEF Returned, BirdInv
<1>8. CASE Restart
  BY <1>8 DEF Restart, RestartBird, BirdInv
<1>9. CASE RunPrepares
  BY <1>9 DEF RunPrepares, BirdInv, TypeOK
<1>10. CASE RunWriteFails
  BY <1>10 DEF RunWriteFails, BirdInv, TypeOK
<1>11. CASE BirdStarts
  BY <1>11 DEF BirdStarts, BirdInv, TypeOK
<1>12. CASE BirdExits
  BY <1>12 DEF BirdExits, BirdInv, TypeOK
<1>13. CASE ConfigureCreates
  BY <1>13 DEF ConfigureCreates, BirdInv, TypeOK, GoTo, At
<1>14. CASE ConfigureCreateFails
  BY <1>14 DEF ConfigureCreateFails, BirdInv, TypeOK, Return
<1>15. CASE ConfigureWrites
  BY <1>15 DEF ConfigureWrites, BirdInv, TypeOK, GoTo, At
<1>16. CASE ConfigureWriteFails
  BY <1>16 DEF ConfigureWriteFails, BirdInv, TypeOK, Return
<1>17. CASE ConfigureBirdc
  BY <1>17 DEF ConfigureBirdc, BirdInv, TypeOK, GoTo, At
<1>18. CASE ConfigureBirdcFails
  BY <1>18 DEF ConfigureBirdcFails, BirdInv, TypeOK, Return
<1>19. CASE SetPolicyRoutes
  BY <1>19 DEF SetPolicyRoutes, BirdInv, TypeOK, Return
<1>20. CASE ListRulesFails
  BY <1>20 DEF ListRulesFails, BirdInv, TypeOK, Return
<1>21. CASE UNCHANGED vars
  BY <1>21 DEF vars, bird, BirdInv
<1>22. QED
  BY <1>1, <1>2, <1>3, <1>4, <1>5, <1>6, <1>7, <1>8, <1>9, <1>10, <1>11, <1>12, <1>13,
     <1>14, <1>15, <1>16, <1>17, <1>18, <1>19, <1>20, <1>21
     DEF Next, Reconcile, Run, ConfigureStep

LEMMA BirdCorrect == Spec => [](TypeOK /\ BirdInv)
<1>1. QED
  BY TypeInit, TypeStep, BirdInvInit, BirdInvStep, PTL DEF Spec
-----------------------------------------------------------------------------
(* The rules and what bird has been told *)

LEMMA RulesStep ==
  ASSUME TypeOK, BirdInv, [Next]_vars, rules' # rules
  PROVE  SetPolicyRoutes
<1>1. Next
  BY DEF vars, bird
<1>2. CASE Run \/ RunWriteFails \/ BirdExits
  BY <1>2 DEF Run, RunPrepares, BirdStarts, RunWriteFails, BirdExits
<1>3. CASE ConfigureStep
  BY <1>3 DEF ConfigureStep, ConfigureCreates, ConfigureCreateFails, ConfigureWrites,
     ConfigureWriteFails, ConfigureBirdc, ConfigureBirdcFails, ListRulesFails
<1>4. CASE Reconcile \/ Restart
  BY <1>4 DEF Reconcile, GetGateway, ReadFails, GetGatewayRouters, Returned,
     Restart, RestartBird, bird
<1>5. CASE StatusChanges \/ GatewayComesOrGoes \/ \E r \in Routers : RouterChanges(r)
  BY <1>5 DEF StatusChanges, GatewayComesOrGoes, RouterChanges, bird
<1>6. QED
  BY <1>1, <1>2, <1>3, <1>4, <1>5 DEF Next

RulesFollowStep ==
    /\ rules' \ rules \subseteq RoutesOf(file.config)
    /\ runner = "bird" =>
         /\ rules' \ rules \subseteq RoutesOf(loaded.config)
         /\ (rules \ rules') \cap RoutesOf(loaded.config) = {}

LEMMA RulesFollowLemma ==
  ASSUME TypeOK, BirdInv, [Next]_vars
  PROVE  RulesFollowStep \/ UNCHANGED vars
<1>1. CASE rules' = rules
  BY <1>1 DEF RulesFollowStep
<1>2. CASE rules' # rules
  <2>1. SetPolicyRoutes
    BY <1>2, RulesStep
  <2>2. PICK kept \in SUBSET (rules \ call.vips), missed \in SUBSET (call.vips \ rules) :
          rules' = (call.vips \ missed) \cup kept
    BY <2>1 DEF SetPolicyRoutes
  <2>3. file = Whole(call.vips, call.gateways) /\ (runner = "bird" => loaded = file)
    BY <2>1 DEF SetPolicyRoutes, At, BirdInv
  <2>4. RoutesOf(file.config) = call.vips
    BY <2>3, RoutesLemma, CallsLemma DEF TypeOK
  <2>5. rules' \ rules \subseteq call.vips /\ (rules \ rules') \cap call.vips = {}
    BY <2>2
  <2>6. QED
    BY <2>3, <2>4, <2>5 DEF RulesFollowStep
<1>3. QED
  BY <1>1, <1>2

(* Packets of an address are sent to BIRD's table only when bird, if it    *)
(* runs, has been told of it, and until it has been told that the address  *)
(* is gone (bird.go: the order of Configure's parts).                      *)
THEOREM RulesFollowBirdCorrect == Spec => RulesFollowBird
<1>1. TypeOK /\ BirdInv /\ [Next]_vars => [RulesFollowStep]_vars
  BY RulesFollowLemma
<1>2. QED
  BY <1>1, BirdCorrect, PTL DEF Spec, RulesFollowBird, RulesFollowStep
-----------------------------------------------------------------------------
(* What has settled is applied *)

LEMMA AppliedLemma ==
  ASSUME TypeOK, BirdInv, call.pc = "rules", rules' = call.vips,
         call.vips = status, call.gateways \ Foreign = routers \ Foreign,
         UNCHANGED <<file, loaded, runner, cluster>>
  PROVE  Applied'
<1>1. file = Whole(call.vips, call.gateways) /\ (runner = "bird" => loaded = file)
  BY DEF BirdInv
<1>2. call.vips \in SUBSET Vips /\ call.gateways \in SUBSET Routers
  BY CallsLemma DEF TypeOK
<1>3. RoutesOf(file.config) = status /\ file.content = "whole"
  BY <1>1, <1>2, RoutesLemma DEF Whole, File
<1>4. Local(file.config) = GatewaysConfig(routers \ Foreign)
  BY <1>1, <1>2, PeersLemma
<1>5. QED
  BY <1>1, <1>3, <1>4 DEF Applied, cluster

(* Without a Configure in progress, only the goroutine of Run does         *)
(* something, and that leaves what is applied applied.                     *)
LEMMA AppliedStays ==
  ASSUME Applied, call.pc = "none", UNCHANGED cluster,
         Run \/ RunWriteFails \/ BirdExits \/ ConfigureStep
  PROVE  Applied' /\ UNCHANGED <<call, outcome>>
<1>1. file # Absent
  BY DEF Applied, Absent, File
<1>2. CASE RunPrepares
  BY <1>1, <1>2 DEF RunPrepares, Applied, cluster
<1>3. CASE RunWriteFails
  BY <1>1, <1>3 DEF RunWriteFails
<1>4. CASE BirdStarts
  BY <1>4 DEF BirdStarts, Applied, cluster
<1>5. CASE BirdExits
  BY <1>5 DEF BirdExits, Applied, cluster
<1>6. CASE ConfigureStep
  BY <1>6 DEF ConfigureStep, ConfigureCreates, ConfigureCreateFails, ConfigureWrites,
     ConfigureWriteFails, ConfigureBirdc, ConfigureBirdcFails, SetPolicyRoutes,
     ListRulesFails, At
<1>7. QED
  BY <1>2, <1>3, <1>4, <1>5, <1>6 DEF Run

(* A Configure goes on with what it was given, or returns an error, or has *)
(* come through.                                                           *)
ConfigureGoesOn == call'.pc # "none" /\ call'.vips = call.vips /\ call'.gateways = call.gateways
ConfigureFails == call'.pc = "none" /\ outcome' = "failed"
ConfigureIsThrough ==
    /\ call.pc = "rules" /\ rules' = call.vips /\ UNCHANGED <<file, loaded, runner>>
    /\ call'.pc = "none" /\ outcome' = "ok"

LEMMA ConfigureCases ==
  ASSUME TypeOK, call.pc # "none",
         Run \/ RunWriteFails \/ BirdExits \/ ConfigureStep
  PROVE  ConfigureGoesOn \/ ConfigureFails \/ ConfigureIsThrough
<1> USE CallsLemma
<1>1. CASE Run \/ RunWriteFails \/ BirdExits
  BY <1>1 DEF Run, RunPrepares, BirdStarts, RunWriteFails, BirdExits, ConfigureGoesOn
<1>2. CASE ConfigureCreates \/ ConfigureWrites \/ ConfigureBirdc
  <2>1. PICK pc \in {"write", "birdc", "rules"} : GoTo(pc)
    BY <1>2 DEF ConfigureCreates, ConfigureWrites, ConfigureBirdc
  <2>2. QED
    BY <2>1 DEF GoTo, ConfigureGoesOn, TypeOK
<1>3. CASE ConfigureCreateFails \/ ConfigureWriteFails \/ ConfigureBirdcFails \/ ListRulesFails
  BY <1>3 DEF ConfigureCreateFails, ConfigureWriteFails, ConfigureBirdcFails,
     ListRulesFails, Return, ConfigureFails
<1>4. CASE SetPolicyRoutes
  <2>1. PICK kept \in SUBSET (rules \ call.vips), missed \in SUBSET (call.vips \ rules) :
          /\ rules' = (call.vips \ missed) \cup kept
          /\ Return(IF kept \cup missed = {} THEN "ok" ELSE "failed")
    BY <1>4 DEF SetPolicyRoutes
  <2>2. CASE kept \cup missed = {}
    <3>1. rules' = call.vips
      BY <2>1, <2>2
    <3>2. call' = NoCall /\ outcome' = "ok"
      BY <2>1, <2>2 DEF Return
    <3>3. QED
      BY <1>4, <3>1, <3>2 DEF SetPolicyRoutes, At, ConfigureIsThrough
  <2>3. CASE kept \cup missed # {}
    BY <2>1, <2>3 DEF Return, ConfigureFails
  <2>4. QED
    BY <2>2, <2>3
<1>5. QED
  BY <1>1, <1>2, <1>3, <1>4 DEF ConfigureStep

LEMMA RecInvBirdStep ==
  ASSUME TypeOK, BirdInv, RecInv, UNCHANGED <<cluster, queued, rec>>,
         Run \/ RunWriteFails \/ BirdExits \/ ConfigureStep
  PROVE  RecInv'
<1>1. CASE call.pc = "none"
  <2>1. UNCHANGED <<call, outcome>>
    BY <1>1 DEF Run, RunPrepares, BirdStarts, RunWriteFails, BirdExits, ConfigureStep,
       ConfigureCreates, ConfigureCreateFails, ConfigureWrites, ConfigureWriteFails,
       ConfigureBirdc, ConfigureBirdcFails, SetPolicyRoutes, ListRulesFails, At
  <2>2. Applied => Applied'
    BY <1>1, AppliedStays
  <2>3. QED
    BY <1>1, <2>1, <2>2 DEF RecInv, cluster
<1>2. CASE call.pc # "none"
  <2>1. rec'.pc = "configure"
    BY <1>2 DEF RecInv
  <2>2. CASE ConfigureGoesOn
    BY <1>2, <2>1, <2>2 DEF ConfigureGoesOn, RecInv, cluster
  <2>3. CASE ConfigureFails
    BY <2>1, <2>3 DEF ConfigureFails, RecInv
  <2>4. CASE ConfigureIsThrough
    <3>1. exists /\ ~queued => Applied'
      BY <1>2, <2>4, AppliedLemma DEF ConfigureIsThrough, RecInv
    <3>2. QED
      BY <2>1, <2>4, <3>1 DEF ConfigureIsThrough, RecInv, cluster
  <2>5. QED
    BY <1>2, <2>2, <2>3, <2>4, ConfigureCases
<1>3. QED
  BY <1>1, <1>2

LEMMA RecInvStep == TypeOK /\ BirdInv /\ RecInv /\ [Next]_vars => RecInv'
<1> SUFFICES ASSUME TypeOK, BirdInv, RecInv, [Next]_vars PROVE RecInv'
  OBVIOUS
<1> USE CallsLemma, ReconciliationsLemma
<1>1. CASE StatusChanges
  BY <1>1 DEF StatusChanges, RecInv, bird
<1>2. CASE GatewayComesOrGoes
  BY <1>2 DEF GatewayComesOrGoes, RecInv, bird
<1>3. ASSUME NEW r \in Routers, RouterChanges(r) PROVE RecInv'
  <2>1. CASE r \in Foreign
    <3>1. routers' \ Foreign = routers \ Foreign
      BY <1>3, <2>1 DEF RouterChanges
    <3>2. UNCHANGED <<bird, status, exists, rec>> /\ queued' = queued
      BY <1>3, <2>1 DEF RouterChanges, TypeOK
    <3>3. Applied' = Applied
      BY <3>1, <3>2 DEF Applied, bird
    <3>4. QED
      BY <3>1, <3>2, <3>3 DEF RecInv, bird
  <2>2. CASE r \notin Foreign
    BY <1>3, <2>2 DEF RouterChanges, RecInv, bird
  <2>3. QED
    BY <2>1, <2>2
<1>4. CASE GetGateway
  <2>1. rec'.pc \in {"list", "idle"} /\ (exists => rec'.pc = "list" /\ rec'.vips = status)
    BY <1>4 DEF GetGateway
  <2>2. UNCHANGED <<bird, cluster>> /\ call.pc = "none"
    BY <1>4 DEF GetGateway, RecInv
  <2>3. QED
    BY <2>1, <2>2 DEF RecInv, bird, cluster
<1>5. CASE ReadFails
  BY <1>5 DEF ReadFails, RecInv
<1>6. CASE GetGatewayRouters
  <2>1. rec'.pc = "configure"
    BY <1>6 DEF GetGatewayRouters, Idle
  <2>2. call'.pc = "lock" /\ call'.vips = rec.vips /\ call'.gateways = routers
    BY <1>6 DEF GetGatewayRouters, Configure
  <2>3. QED
    BY <1>6, <2>1, <2>2 DEF GetGatewayRouters, RecInv, cluster
<1>7. CASE Returned
  <2>1. rec' = Idle /\ call' = call /\ call.pc = "none"
    BY <1>7 DEF Returned, At
  <2>2. UNCHANGED cluster /\ (~queued' => ~queued /\ outcome = "ok") /\ rec.pc = "configure"
    BY <1>7 DEF Returned, RecInv, At
  <2>3. Applied => Applied'
    BY <1>7 DEF Returned, Applied, cluster
  <2>4. QED
    BY <2>1, <2>2, <2>3 DEF RecInv, cluster
<1>8. CASE Restart
  BY <1>8 DEF Restart, RestartBird, RecInv
<1>9. CASE UNCHANGED <<cluster, queued, rec>> /\ (Run \/ RunWriteFails \/ BirdExits \/ ConfigureStep)
  BY <1>9, RecInvBirdStep
<1>10. CASE UNCHANGED vars
  <2>1. Applied' = Applied
    BY <1>10 DEF vars, bird, cluster, Applied
  <2>2. QED
    BY <1>10, <2>1 DEF vars, bird, cluster, RecInv
<1>11. QED
  BY <1>1, <1>2, <1>3, <1>4, <1>5, <1>6, <1>7, <1>8, <1>9, <1>10 DEF Next, Reconcile

LEMMA RecInvInit == Init => RecInv
BY CallsLemma, ReconciliationsLemma DEF Init, BirdInit, RecInv

(* A reconciliation that has come to its end and is not to be repeated has *)
(* applied the gateway, whenever bird was started and whatever failed      *)
(* before (router.go: Reconcile; bird.go: Run, Configure).                 *)
THEOREM Settled == Spec => []SettledIsApplied
<1>1. RecInv => SettledIsApplied
  BY DEF RecInv, SettledIsApplied
<1>2. QED
  BY <1>1, TypeInit, TypeStep, BirdInvInit, BirdInvStep, RecInvInit, RecInvStep, PTL DEF Spec
=============================================================================
