--------------------------- MODULE TransactionsMC ---------------------------
(***************************************************************************)
(* Eight components whose calls are database transactions, or statements   *)
(* that read what transactions write.  None writes another's state, so     *)
(* each is explored on its own: `part` says which of them runs, the others *)
(* stay as they began, in one of their initial states.                     *)
(***************************************************************************)
EXTENDS HubTerms, HubServices, HubConsumers, DataAccessRules, Categories, Supporters, ReuseMatrix,
        TermImport, TLC

CONSTANTS Parts, c1, c2
VARIABLE part

Symm == Permutations({c1, c2})
TermRec(s, tb, l) == [svc |-> s, table |-> tb, logical |-> l, live |-> TRUE]
\* Service 1 has table 1, behind logical term 1, and service 2 has table 2: to itself, or shared.
Apart   == (1 :> TermRec(1, 1, 1)) @@ (2 :> TermRec(2, 2, Nobody))
Shared  == Apart @@ (3 :> TermRec(1, 2, Nobody))
MCTerms == {Apart, Shared}
PhysRec(s, tb, code) == [svc |-> s, sheet |-> tb, code |-> code, logical |-> NoLogical, live |-> TRUE]
\* Table 1 holds a term of each service.
MCStored == (1 :> PhysRec(1, 1, "a")) @@ (2 :> PhysRec(2, 1, "b"))

MCInit == /\ HubInit /\ SvcInit /\ AppInit /\ RulesInit /\ CatInit /\ SupInit /\ ReuseInit /\ ImpInit
          /\ part \in Parts
          /\ part # "terms" => Own(1) = DOMAIN Apart \cap Own(1)
          /\ part # "reuse" => \A c \in Coworkers : coworker[c].approved
coreVars == <<hubVars, svcVars, appVars, ruleVars, catVars>>
idleVars == <<supVars, reuseVars, impVars, part>>
MCNext ==
    \/ part = "terms"     /\ HubNext   /\ UNCHANGED <<svcVars, appVars, ruleVars, catVars, idleVars>>
    \/ part = "services"  /\ SvcNext   /\ UNCHANGED <<hubVars, appVars, ruleVars, catVars, idleVars>>
    \/ part = "consumers" /\ AppNext   /\ UNCHANGED <<hubVars, svcVars, ruleVars, catVars, idleVars>>
    \/ part = "rules"     /\ RulesNext /\ UNCHANGED <<hubVars, svcVars, appVars, catVars, idleVars>>
    \/ part = "categories" /\ CatNext  /\ UNCHANGED <<hubVars, svcVars, appVars, ruleVars, idleVars>>
    \/ part = "supporters" /\ SupNext  /\ UNCHANGED <<coreVars, reuseVars, impVars, part>>
    \/ part = "reuse"     /\ ReuseNext /\ UNCHANGED <<coreVars, supVars, impVars, part>>
    \/ part = "import"    /\ ImpNext   /\ UNCHANGED <<coreVars, supVars, reuseVars, part>>
MCSpec == MCInit /\ [][MCNext]_<<coreVars, supVars, reuseVars, impVars, part>>

\* Bound: a read of the rules that has begun meets two calls, or a call and a toggle.  What calls and
\* toggles do without a read is explored in full.
ReadMeetsTwo == read.pc # "start" => placed + toggled <= 2

\* Types: the Data Hub's terms and services, and the rules.
TypesOK == HubTypeOK /\ SvcTypeOK /\ RulesTypeOK
=============================================================================
