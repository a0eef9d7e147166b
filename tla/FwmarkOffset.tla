---------------------------- MODULE FwmarkOffset ----------------------------
(***************************************************************************)
(* The search for a forwarding-mark range that NFQueueLoadBalancer.        *)
(* AddService runs (pkg/nfqlb/offset.go, called at pkg/nfqlb/nfqlb.go),    *)
(* one step per turn of its `search' loop, with services of any size.      *)
(*                                                                         *)
(* AddService holds nfqlb.mu for the whole search and DeleteService takes  *)
(* it to remove an entry, so the table does not change under a search: a   *)
(* search in progress (search # NoSearch) is the lock being held.          *)
(*                                                                         *)
(* Go iterates over the map `services' in a random order and restarts the  *)
(* search at the first overlapping service it meets, so a search may jump  *)
(* over any service that overlaps.                                         *)
(***************************************************************************)
EXTENDS FwmarkRanges

CONSTANTS Names,          \* names of nfqlb services
          Sizes,          \* the values WithMaxTargets is given
          StartingOffset, \* nfqlbConfig.startingOffset
          MaxInt          \* math.MaxInt

ASSUME FwmarkAssumption ==
    /\ Sizes \subseteq Nat \ {0}
    /\ StartingOffset \in Nat
    /\ MaxInt \in Nat

VARIABLES services, \* the map services: existing name -> [offset, maxTargets]
          search    \* the call of getOffset in progress, or NoSearch

vars == <<services, search>>

NoSearch == [name |-> "none"]

Service == [offset : Nat, maxTargets : Sizes]
Search == [name : Names, maxTargets : Sizes, offset : Nat]

Init ==
    /\ services = [n \in {} |-> 0]
    /\ search = NoSearch

(* Mutant of Exhausted: the size of the range is forgotten. *)
ExhaustedAtMaxInt == search.offset >= MaxInt

(* The guard at the head of the loop: past it, errIdentifierOffset. *)
Exhausted == search.offset >= MaxInt - search.maxTargets + 1

(* Mutant of BeginSearch: the map is not looked up first. *)
BeginSearchBlindly(n, m) ==
    /\ search = NoSearch
    /\ search' = [name |-> n, maxTargets |-> m, offset |-> StartingOffset]
    /\ UNCHANGED services

(* AddService(n) with WithMaxTargets(m): takes nfqlb.mu and calls getOffset. *)
(* (An existing service is returned as it is, which changes nothing.)      *)
BeginSearch(n, m) ==
    /\ search = NoSearch
    /\ n \notin DOMAIN services
    /\ search' = [name |-> n, maxTargets |-> m, offset |-> StartingOffset]
    /\ UNCHANGED services

(* Mutants of JumpOver: the search advances by the size it looks for; it   *)
(* restarts on the last mark of the service instead of after it.          *)
JumpByOwnSize(k) ==
    /\ search # NoSearch
    /\ ~Exhausted
    /\ Overlaps(search.offset, search.maxTargets, services[k])
    /\ search' = [search EXCEPT !.offset = @ + search.maxTargets]
    /\ UNCHANGED services

JumpOntoLast(k) ==
    /\ search # NoSearch
    /\ ~Exhausted
    /\ Overlaps(search.offset, search.maxTargets, services[k])
    /\ search' = [search EXCEPT !.offset = services[k].offset + services[k].maxTargets - 1]
    /\ UNCHANGED services

(* `continue search': the search restarts after service k, which overlaps. *)
JumpOver(k) ==
    /\ search # NoSearch
    /\ ~Exhausted
    /\ Overlaps(search.offset, search.maxTargets, services[k])
    /\ search' = [search EXCEPT !.offset = services[k].offset + services[k].maxTargets]
    /\ UNCHANGED services

(* getOffset found no room below MaxInt: AddService returns its error. *)
GiveUp ==
    /\ search # NoSearch
    /\ Exhausted
    /\ search' = NoSearch
    /\ UNCHANGED services

(* getOffset returned the offset the search reached. *)
Found ==
    /\ search # NoSearch
    /\ ~Exhausted
    /\ FitsAt(search.offset, search.maxTargets, services)

(* `nfqlb init' succeeded and the service is entered in the map. *)
Register ==
    /\ Found
    /\ services' = [n \in DOMAIN services \cup {search.name} |->
                      IF n = search.name
                      THEN [offset |-> search.offset, maxTargets |-> search.maxTargets]
                      ELSE services[n]]
    /\ search' = NoSearch

(* `nfqlb init' failed: AddService returns an error, the map is unchanged. *)
InitFails ==
    /\ Found
    /\ search' = NoSearch
    /\ UNCHANGED services

(* DeleteService removes the entry, and with it the claim on the marks. *)
DeleteService(n) ==
    /\ search = NoSearch
    /\ services' = [k \in DOMAIN services \ {n} |-> services[k]]
    /\ UNCHANGED search

SearchStep ==
    \/ \E k \in DOMAIN services : JumpOver(k)
    \/ GiveUp
    \/ Register
    \/ InitFails

Next ==
    \/ \E n \in Names, m \in Sizes : BeginSearch(n, m)
    \/ SearchStep
    \/ \E n \in DOMAIN services : DeleteService(n)

(* The loop runs on its own goroutine's stack: once begun, it keeps going. *)
Fairness == WF_vars(SearchStep)

Spec == Init /\ [][Next]_vars /\ Fairness
-----------------------------------------------------------------------------
(* Types of the table and of the search. *)
TypeOK ==
    /\ DOMAIN services \subseteq Names
    /\ \A n \in DOMAIN services : services[n] \in Service
    /\ search \in Search \cup {NoSearch}
    /\ search # NoSearch => search.name \notin DOMAIN services

(* No two services share a forwarding mark, whatever the sizes and the     *)
(* order of additions and deletions: getOffset tests interval bounds, the  *)
(* property speaks of the marks themselves.                                *)
DisjointMarks ==
    \A n, k \in DOMAIN services :
        n # k => Marks(services[n].offset, services[n].maxTargets)
                   \cap Marks(services[k].offset, services[k].maxTargets) = {}

(* Nothing the search jumped over was usable: every placement below the    *)
(* point it has reached overlaps some service.  Jumping a whole service at *)
(* a time, in random map order, loses no room.                             *)
NothingSkipped ==
    search # NoSearch =>
        \A o \in StartingOffset .. (search.offset - 1) :
            ~FitsAt(o, search.maxTargets, services)

(* The sums getOffset and AddTarget compute stay within Go's int: the      *)
(* guard `offset >= MaxInt - maxTarget + 1' is strict enough for the end   *)
(* of the candidate, for the restart after any service, and for every      *)
(* identifier + offset.                                                    *)
NoOverflow ==
    /\ \A n \in DOMAIN services :
          services[n].offset + services[n].maxTargets <= MaxInt
    /\ (search # NoSearch /\ ~Exhausted) =>
          search.offset + search.maxTargets - 1 <= MaxInt

(* A new service gets the lowest free placement: the result of the search  *)
(* does not depend on the order in which Go walks the map.                 *)
FirstFit ==
    [][\A n \in DOMAIN services' \ DOMAIN services :
          IsFirstFit(services'[n].offset, services'[n].maxTargets,
                     services, StartingOffset)]_vars

(* The `search' loop ends: every call of getOffset returns. *)
SearchEnds == search # NoSearch ~> search = NoSearch

(* The refinement mapping: the marks each name owns in the abstract        *)
(* specification are those of its entry in the table.                      *)
MarksOwned ==
    [n \in Names |->
        IF n \in DOMAIN services
        THEN Marks(services[n].offset, services[n].maxTargets)
        ELSE {}]

MarkSets == {Marks(o, m) : o \in StartingOffset .. MaxInt, m \in Sizes}

Ownership == INSTANCE FwmarkOwnership WITH owned <- MarksOwned

(* The search of getOffset implements exclusive ownership of the marks:    *)
(* a mark is given to a service only while no other owns it.               *)
ImplementsOwnership == Ownership!Spec
=============================================================================
