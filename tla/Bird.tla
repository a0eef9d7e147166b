-------------------------------- MODULE Bird --------------------------------
(***************************************************************************)
(* The router's suite Bird (pkg/bird): Run, on a goroutine of its own that *)
(* the program starts once, and Configure, called by the router            *)
(* controller, with the mutex, the flag and the configuration file they    *)
(* share, and the policy rules of the kernel.                              *)
(*                                                                         *)
(* The file is cut when Configure has created it and not yet written it;   *)
(* the process bird reads the file when it starts and when birdc tells it  *)
(* to.  A call of the system may fail without a reason in the model        *)
(* MaxFaults times.                                                        *)
(***************************************************************************)
EXTENDS Naturals, FiniteSets, BirdConfig

CONSTANT MaxFaults  \* bound on failing calls of the system

ASSUME BirdAssumption == MaxFaults \in Nat /\ IsFiniteSet(Vips)

VARIABLES
    mu,       \* who holds Bird.mu
    running,  \* Bird.running
    file,     \* Bird.ConfigFile
    runner,   \* the goroutine of Run
    loaded,   \* the file as bird has read it
    rules,    \* sources of the rules of table 4096
    call,     \* the Configure in progress
    outcome,  \* what the last Configure has returned, until it is looked at
    faults    \* failures so far

bird == <<mu, running, file, runner, loaded, rules, call, outcome, faults>>

File(content, config) == [content |-> content, config |-> config]
Absent == File("absent", GetConfig({}, {}))
Cut == File("cut", GetConfig({}, {}))
Whole(vips, gateways) == File("whole", GetConfig(vips, gateways))

NoCall == [pc |-> "none", vips |-> {}, gateways |-> {}]

BirdInit ==
    /\ mu = "free"
    /\ running = FALSE
    /\ file = Absent
    /\ runner = "start"
    /\ loaded = Absent
    /\ rules = {}
    /\ call = NoCall
    /\ outcome = "none"
    /\ faults = 0

Failures(n) == faults + n <= MaxFaults /\ faults' = faults + n
-----------------------------------------------------------------------------
(* Run.  It is called once, so its check of the flag passes. *)

(* Mutant of RunPrepares: the flag is set once bird has started. *)
RunPreparesQuietly ==
    /\ runner = "start" /\ mu = "free"
    /\ file' = IF file = Absent THEN Whole({}, {}) ELSE file
    /\ runner' = "exec"
    /\ UNCHANGED <<mu, running, loaded, rules, call, outcome, faults>>

RunPrepares ==
    /\ runner = "start" /\ mu = "free"
    /\ file' = IF file = Absent THEN Whole({}, {}) ELSE file
    /\ running' = TRUE
    /\ runner' = "exec"
    /\ UNCHANGED <<mu, loaded, rules, call, outcome, faults>>

(* The empty configuration cannot be written: Run returns and keeps mu. *)
RunWriteFails ==
    /\ runner = "start" /\ mu = "free" /\ file = Absent
    /\ file' \in {Absent, Cut}
    /\ mu' = "run"
    /\ runner' = "returned"
    /\ Failures(1)
    /\ UNCHANGED <<running, loaded, rules, call, outcome>>

BirdStarts ==
    /\ runner = "exec"
    /\ runner' = "bird"
    /\ loaded' = file
    /\ UNCHANGED <<mu, running, file, rules, call, outcome, faults>>

(* bird is not found, refuses a file that is cut, or exits. *)
BirdExits ==
    /\ \/ runner = "exec" /\ file = Cut /\ UNCHANGED faults
       \/ runner \in {"exec", "bird"} /\ Failures(1)
    /\ runner' = "returned"
    /\ loaded' = Absent
    /\ UNCHANGED <<mu, running, file, rules, call, outcome>>

Run == RunPrepares \/ BirdStarts
-----------------------------------------------------------------------------
(* Configure *)

Configure(vips, gateways) ==
    call' = [pc |-> "lock", vips |-> vips, gateways |-> gateways]

At(pc) == call.pc = pc
GoTo(pc) == call' = [call EXCEPT !.pc = pc]

Return(result) ==
    /\ mu' = "free"
    /\ call' = NoCall
    /\ outcome' = result

ConfigureCreates ==
    /\ At("lock") /\ mu = "free"
    /\ mu' = "configure"
    /\ file' = Cut
    /\ GoTo("write")
    /\ UNCHANGED <<running, runner, loaded, rules, outcome, faults>>

(* Mutant of ConfigureCreateFails: the lock is kept. *)
ConfigureCreateFailsLocked ==
    /\ At("lock") /\ mu = "free"
    /\ mu' = "configure"
    /\ call' = NoCall
    /\ outcome' = "failed"
    /\ Failures(1)
    /\ UNCHANGED <<running, file, runner, loaded, rules>>

ConfigureCreateFails ==
    /\ At("lock") /\ mu = "free"
    /\ Return("failed")
    /\ Failures(1)
    /\ UNCHANGED <<running, file, runner, loaded, rules>>

ConfigureWrites ==
    /\ At("write")
    /\ file' = Whole(call.vips, call.gateways)
    /\ GoTo(IF running THEN "birdc" ELSE "rules")
    /\ UNCHANGED <<mu, running, runner, loaded, rules, outcome, faults>>

ConfigureWriteFails ==
    /\ At("write")
    /\ Return("failed")
    /\ Failures(1)
    /\ UNCHANGED <<running, file, runner, loaded, rules>>

ConfigureBirdc ==
    /\ At("birdc") /\ runner = "bird"
    /\ loaded' = file
    /\ GoTo("rules")
    /\ UNCHANGED <<mu, running, file, runner, rules, outcome, faults>>

(* Mutant of ConfigureBirdcFails: the error of birdc is dropped. *)
ConfigureBirdcFailsQuietly ==
    /\ At("birdc")
    /\ \/ runner # "bird" /\ UNCHANGED faults
       \/ Failures(1)
    /\ GoTo("rules")
    /\ UNCHANGED <<mu, running, file, runner, loaded, rules, outcome>>

(* birdc fails when bird does not answer, because it has not started or is *)
(* gone, and may fail.  The policy routes are left as they are.            *)
ConfigureBirdcFails ==
    /\ At("birdc")
    /\ \/ runner # "bird" /\ UNCHANGED faults
       \/ Failures(1)
    /\ Return("failed")
    /\ UNCHANGED <<running, file, runner, loaded, rules>>

(* Mutant of SetPolicyRoutes: rules are only ever added. *)
AddPolicyRoutes ==
    /\ At("rules")
    /\ rules' = rules \cup call.vips
    /\ Return("ok")
    /\ UNCHANGED <<running, file, runner, loaded, faults>>

(* Every rule of an address that is gone is deleted and every missing one  *)
(* added, whichever of the others fail; listing them may fail, too.        *)
SetPolicyRoutes ==
    /\ At("rules")
    /\ \E kept \in SUBSET (rules \ call.vips), missed \in SUBSET (call.vips \ rules) :
        /\ rules' = (call.vips \ missed) \cup kept
        /\ Failures(Cardinality(kept) + Cardinality(missed))
        /\ Return(IF kept \cup missed = {} THEN "ok" ELSE "failed")
    /\ UNCHANGED <<running, file, runner, loaded>>

ListRulesFails ==
    /\ At("rules")
    /\ Failures(1)
    /\ Return("failed")
    /\ UNCHANGED <<running, file, runner, loaded, rules>>

ConfigureStep ==
    \/ ConfigureCreates \/ ConfigureCreateFails
    \/ ConfigureWrites \/ ConfigureWriteFails
    \/ ConfigureBirdc \/ ConfigureBirdcFails
    \/ SetPolicyRoutes \/ ListRulesFails
-----------------------------------------------------------------------------
(* The container is restarted: bird goes with the process; the rules are   *)
(* the pod's and stay, and the file may be lost.                           *)
RestartBird ==
    /\ Failures(1)
    /\ mu' = "free" /\ running' = FALSE /\ runner' = "start"
    /\ file' \in {file, Absent}
    /\ loaded' = Absent
    /\ call' = NoCall
    /\ outcome' = "none"
    /\ UNCHANGED rules

(* Nobody will have bird running, or the lock free, before a restart. *)
Gone == runner = "returned"
=============================================================================
