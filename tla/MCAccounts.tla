----------------------------- MODULE MCAccounts -----------------------------
(***************************************************************************)
(* Accounts, checked in three parts that share no state: the session in    *)
(* the browser, registration and tenant context in the API, and the        *)
(* migration of the tables. A behaviour is one of a single part.           *)
(***************************************************************************)
EXTENDS Session, Tenancy, Migration

CONSTANTS a, b, c, ann, x

VARIABLE part

vars == <<sessionVars, tenancyVars, migrationVars, part>>

\* Two registrations give one address, the third another.
MCEmailOf == [o \in {a, b, c} |-> IF o = c THEN x ELSE ann]

\* Jobs ja and jb of the tenants a and b, each with rows of its own.
MCTable ==
    [r \in {"ja", "jb", "ea", "sa", "sb", "pa", "pb", "rb"} |->
        CASE r \in {"ja", "jb"} -> "research_jobs"
          [] r \in {"sa", "sb"} -> "sources"
          [] r \in {"pa", "pb"} -> "crawl_pages"
          [] r = "ea" -> "research_events"
          [] r = "rb" -> "research_results"]
MCParent ==
    [r \in DOMAIN MCTable |->
        CASE r = "ja" -> a [] r = "jb" -> b
          [] r \in {"ea", "sa"} -> "ja" [] r \in {"rb", "sb"} -> "jb"
          [] r = "pa" -> "sa" [] r = "pb" -> "sb"]

Init ==
    /\ SessionInit /\ TenancyInit /\ MigrationInit
    /\ part \in {"browser", "api", "tables"}
    /\ part # "api" => role = "ordinary"

Next ==
    /\ UNCHANGED part
    /\ \/ part = "browser" /\ SessionNext /\ UNCHANGED <<tenancyVars, migrationVars>>
       \/ part = "api" /\ TenancyNext /\ UNCHANGED <<sessionVars, migrationVars>>
       \/ part = "tables" /\ MigrationNext /\ UNCHANGED <<sessionVars, tenancyVars>>

Spec == Init /\ [][Next]_vars /\ SessionFairness /\ TenancyFairness
=============================================================================
