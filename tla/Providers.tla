------------------------------ MODULE Providers ------------------------------
(***************************************************************************)
(* The configurations of one type of camera provider, edited at runtime    *)
(* (api/admin_routes.py, services/provider_configs.py), and the registry   *)
(* that builds the provider from the enabled one                           *)
(* (services/provider_registry.py).                                        *)
(*                                                                         *)
(* A request loads a row, changes it in memory, reads which others are     *)
(* enabled, and commits what differs from what it read; a test of the      *)
(* connection runs between the load and the commit of its result.  The     *)
(* address, the credentials and the channels are abstracted into one       *)
(* version of the settings.                                                *)
(***************************************************************************)
EXTENDS Integers, FiniteSets

CONSTANTS PvConfigs,    \* the rows' ids
          PvRequests,   \* requests in flight at a time
          PvEnvironment,\* whether the environment configures a provider too
          PvEdits,      \* bound: requests
          CacheTtl      \* the discovery cache's, in ticks

ASSUME ProvidersAssumption ==
    /\ PvEnvironment \in BOOLEAN /\ PvEdits \in Nat /\ CacheTtl \in Nat
    /\ IsFiniteSet(PvConfigs) /\ PvConfigs # {}

VARIABLES config,     \* provider_configs
          editing,    \* what each request has read and wants
          listing,    \* _discovery_cache: which provider's cameras, and how old
          pvEdits,      \* requests so far
          raced       \* history: two requests that enable overlapped

pvVars == <<config, editing, listing, pvEdits, raced>>

NotTested == 2
NoConfig == [there |-> FALSE, enabled |-> FALSE, version |-> 0, tested |-> NotTested]
NoEdit == [does |-> "nothing", id |-> CHOOSE c \in PvConfigs : TRUE, was |-> NoConfig,
           enabled |-> FALSE, others |-> {}, late |-> FALSE]
NoListing == [of |-> "none", age |-> 0]

ProvidersInit == /\ config = [c \in PvConfigs |-> NoConfig]
                 /\ editing = [q \in PvRequests |-> NoEdit]
                 /\ listing = NoListing
                 /\ pvEdits = 0 /\ raced = FALSE

EnabledConfigs == {c \in PvConfigs : config[c].there /\ config[c].enabled}

\* The other enabled rows a request sees, if what it wants is an enabled row.
NoOthers(id, enabled) == {}  \* mutant: the others are left enabled
OtherEnabled(id, enabled) == IF enabled THEN EnabledConfigs \ {id} ELSE {}

\* create, update and set_enabled, up to the read of the other rows.
Edit(q, does, id, enabled) ==
    /\ editing[q] = NoEdit /\ pvEdits < PvEdits
    /\ config[id].there <=> does # "create"
    /\ \A p \in PvRequests : editing[p].does = "create" => editing[p].id # id
    /\ pvEdits' = pvEdits + 1
    /\ editing' = [editing EXCEPT
                     ![q] = [does |-> does, id |-> id, was |-> config[id], enabled |-> enabled,
                             others |-> OtherEnabled(id, enabled), late |-> FALSE]]
    /\ UNCHANGED <<config, listing, raced>>

\* An update may leave "enabled" as it was read.
Create(q, id) == \E enabled \in BOOLEAN : Edit(q, "create", id, enabled)
Update(q, id) == \E enabled \in BOOLEAN : Edit(q, "update", id, enabled)
SetEnabled(q, id) == \E enabled \in BOOLEAN : Edit(q, "enable", id, enabled)

\* What is written of the row: the columns that were changed in memory.
Written(e) ==
    LET row == config[e.id] IN
    [there   |-> TRUE,
     enabled |-> IF e.enabled # e.was.enabled THEN e.enabled ELSE row.enabled,
     version |-> IF e.does = "enable" THEN row.version ELSE 1 - e.was.version,
     tested  |-> row.tested]

\* An UPDATE of a row that is gone fails the request, and with it all it wrote.
Commit(q) ==
    LET e == editing[q] IN
    /\ e.does \in {"create", "update", "enable"}
    /\ IF \A c \in e.others \cup ({e.id} \ {d \in PvConfigs : e.does = "create"}) : config[c].there
       THEN /\ config' = [c \in PvConfigs |->
                            IF c = e.id THEN Written(e)
                            ELSE IF c \in e.others THEN [config[c] EXCEPT !.enabled = FALSE]
                            ELSE config[c]]
            /\ raced' = (raced \/ (e.late /\ e.enabled))
            /\ editing' = [p \in PvRequests |->
                             IF p = q THEN NoEdit
                             ELSE IF editing[p] # NoEdit /\ e.enabled
                                  THEN [editing[p] EXCEPT !.late = TRUE] ELSE editing[p]]
       ELSE /\ editing' = [editing EXCEPT ![q] = NoEdit]
            /\ UNCHANGED <<config, raced>>
    /\ UNCHANGED <<listing, pvEdits>>

DeleteConfig(id) ==
    /\ config[id].there /\ pvEdits < PvEdits /\ pvEdits' = pvEdits + 1
    /\ config' = [config EXCEPT ![id] = NoConfig]
    /\ UNCHANGED <<editing, listing, raced>>

\* The settings are taken, the provider is asked, the verdict is recorded on
\* the row as it is by then.
TestConnection(q, id) ==
    /\ editing[q] = NoEdit /\ pvEdits < PvEdits /\ config[id].there
    /\ pvEdits' = pvEdits + 1
    /\ editing' = [editing EXCEPT ![q] = [NoEdit EXCEPT !.does = "test", !.id = id, !.was = config[id]]]
    /\ UNCHANGED <<config, listing, raced>>

RecordTestResult(q) ==
    /\ editing[q].does = "test"
    /\ config' = IF config[editing[q].id].there
                 THEN [config EXCEPT ![editing[q].id].tested = editing[q].was.version] ELSE config
    /\ editing' = [editing EXCEPT ![q] = NoEdit]
    /\ UNCHANGED <<listing, pvEdits, raced>>

-----------------------------------------------------------------------------
\* _configured_real_providers: an enabled row comes before the environment.  A
\* provider that cannot be built, or does not answer, contributes nothing.
Served == {"none"} \cup (IF EnabledConfigs # {} THEN EnabledConfigs
                        ELSE IF PvEnvironment THEN {"environment"} ELSE {})

\* Polled listings take the cached sweep while it is young, other callers never
\* do; either way a sweep replaces it.
DiscoverAllCameras == /\ \E p \in Served : listing' = [of |-> p, age |-> 0]
                      /\ UNCHANGED <<config, editing, pvEdits, raced>>

ListingAges == /\ listing.of # "none" /\ listing.age < CacheTtl
               /\ listing' = [listing EXCEPT !.age = @ + 1]
               /\ UNCHANGED <<config, editing, pvEdits, raced>>

ProvidersNext == \/ \E q \in PvRequests : \/ Commit(q) \/ RecordTestResult(q)
                                          \/ \E c \in PvConfigs : \/ Create(q, c) \/ Update(q, c)
                                                                  \/ SetEnabled(q, c)
                                                                  \/ TestConnection(q, c)
                 \/ \E c \in PvConfigs : DeleteConfig(c)
                 \/ DiscoverAllCameras \/ ListingAges

ProvidersSpec == ProvidersInit /\ [][ProvidersNext]_pvVars

-----------------------------------------------------------------------------
\* Types of the configurations' state.
ProvidersTypeOK ==
    /\ config \in [PvConfigs -> [there : BOOLEAN, enabled : BOOLEAN, version : 0 .. 1, tested : 0 .. NotTested]]
    /\ editing \in [PvRequests -> [does : {"nothing", "create", "update", "enable", "test"},
                                   id : PvConfigs, was : [there : BOOLEAN, enabled : BOOLEAN,
                                                          version : 0 .. 1, tested : 0 .. NotTested],
                                   enabled : BOOLEAN, others : SUBSET PvConfigs, late : BOOLEAN]]
    /\ listing \in [of : PvConfigs \cup {"none", "environment"}, age : 0 .. CacheTtl]
    /\ pvEdits \in 0 .. PvEdits /\ raced \in BOOLEAN

\* At most one configuration of a type is enabled, whatever rows are created,
\* updated, switched and deleted and however tests come in between, as long as
\* no request commits while another that enables has already read the others.
OneEnabled == ~raced => Cardinality(EnabledConfigs) <= 1
==============================================================================
