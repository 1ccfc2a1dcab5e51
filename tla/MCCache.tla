------------------------------ MODULE MCCache ------------------------------
(***************************************************************************)
(* CacheStore for TLC.  No code path reads the size, the times or the      *)
(* expiry of an entry once it is flagged deleted, so states that differ    *)
(* only there are explored once.                                           *)
(***************************************************************************)
EXTENDS CacheStore

Live(e) == IF e.deleted THEN [key |-> e.key] ELSE [key |-> e.key, size |-> e.size, access |-> e.access, expire |-> e.expire]

MCView == <<[cache EXCEPT !.pool = [o \in DOMAIN @ |-> Live(@[o])]], now, calls, hung, latest>>
=============================================================================
