------------------------------ MODULE MCServices ------------------------------
(***************************************************************************)
(* Small instances of components that have nothing to do with each other:  *)
(* the initial state chooses the one that runs.                            *)
(*   host            one tab for two lanes, a foreign projection, two      *)
(*                   commands at a time                                    *)
(*   representation  every graph of three entries, one id that dangles     *)
(*   response        bodies of up to two chunks before and within a limit  *)
(*   authority       every order of intent, lock, grant and clock          *)
(*   panel           one tab with two routes, one surface                  *)
(*   activity        two conversations, lane generations and times         *)
(*   conformance     adapters that promise, implement and need each        *)
(*                   other's capabilities in nine ways                     *)
(*   exchange        two requests, each limit on sizes another one, a log  *)
(*                   of one and a cache whose total is less than its two   *)
(*                   largest entries                                       *)
(***************************************************************************)
EXTENDS ChromiumStaticHost, RepresentationCheck, ResponseBinding,
        TransformAuthority, LaneActivityPanel, ChatGptLaneActivity,
        AdapterConformance, LoopbackExchange, TLC

VARIABLE part

MCApplicationFacts ==
    {[recovery |-> r, freeze |-> f, discard |-> d, blockers |-> b] :
        <<r, f, d, b>> \in
            {<<"verified", "allowed", "allowed", {}>>,
             <<"verified", "unknown", "unknown", {"application_unknown"}>>,
             <<"verified", "allowed", "allowed", {"unsaved_interaction"}>>,
             <<"recovering", "allowed", "allowed", {}>>}}

MCPipelineInput == {[nodes |-> n, bytes |-> b, plain |-> p] :
                        n \in {1, 3}, b \in {1, 3}, p \in BOOLEAN}

MCAdapter ==
    {[c \in Capability |-> IF c \in DOMAIN d THEN d[c] ELSE "unsupported"] :
        d \in {[plan |-> "supported"], [materialize |-> "supported"],
               [alternateRepresentation |-> "synthetic-only"],
               [alternateRepresentation |-> "missing"],
               [validateOutput |-> "undeclared"],
               [plan |-> "synthetic-only", materialize |-> "supported"],
               [plan |-> "supported", validateOutput |-> "supported"],
               [plan |-> "supported", materialize |-> "supported",
                validateOutput |-> "supported"],
               [plan |-> "supported", materialize |-> "synthetic-only",
                alternateRepresentation |-> "supported"]}}

RestConformance ==
    /\ adapter = CHOOSE a \in Adapter : TRUE
    /\ scenario = CHOOSE s \in Scenario : TRUE
    /\ stage = "refused"
    /\ clean = TRUE /\ changed = FALSE /\ holding = {}
    /\ agreed = {} /\ silent = {}

RestResponse ==
    /\ pipeline = NewRun([nodes |-> 1, bytes |-> 1, plain |-> TRUE], "idle", NoFault)
    /\ ledger = EmptyLedger /\ late = FALSE /\ aborted = FALSE
    /\ attempt = [at |-> "done", decision |-> "none"] /\ authority = "none"
RestRepresentation ==
    /\ parentOf = [e \in EntryId |-> NoParent]
    /\ childrenOf = [e \in EntryId |-> {}]
    /\ completed = {} /\ local = {} /\ cursor = NoParent
    /\ roots = {} /\ activePath = <<>> /\ pass = "none"

MCInit ==
    /\ part \in {"host", "representation", "response", "authority",
                 "panel", "activity", "conformance", "exchange"}
    /\ HostInit /\ AuthorityInit /\ PanelInit /\ ExchangeInit
    /\ ActivityInit /\ (part = "activity" \/ root = CHOOSE r \in Root : TRUE)
    /\ IF part = "representation" THEN RepresentationInit
                                  ELSE RestRepresentation
    /\ IF part = "response" THEN ResponseInit ELSE RestResponse
    /\ IF part = "conformance"
       THEN ConformanceInit /\ scenario.planOptions = scenario.alternateOptions
       ELSE RestConformance

\* The parts that do not run stay as they are.
Others(p) ==
    /\ part = p /\ UNCHANGED part
    /\ p # "host" => UNCHANGED hostVars
    /\ p # "representation" => UNCHANGED representationVars
    /\ p # "response" => UNCHANGED responseVars
    /\ p # "authority" => UNCHANGED authorityVars
    /\ p # "panel" => UNCHANGED panelVars
    /\ p # "activity" => UNCHANGED activityVars
    /\ p # "conformance" => UNCHANGED conformanceVars
    /\ p # "exchange" => UNCHANGED exchangeVars

MCNext ==
    \/ Others("host") /\ HostNext
    \/ Others("representation") /\ RepresentationNext
    \/ Others("response") /\ ResponseNext
    \/ Others("authority") /\ AuthorityNext
    \/ Others("panel") /\ PanelNext
    \/ Others("activity") /\ ActivityNext
    \/ Others("conformance") /\ ConformanceNext
    \/ Others("exchange") /\ ExchangeNext

MCSpec ==
    MCInit /\ [][MCNext]_<<part, hostVars, representationVars, responseVars,
                          authorityVars, panelVars, activityVars,
                          conformanceVars, exchangeVars>>

Symmetry == Permutations(Slot)

=============================================================================
