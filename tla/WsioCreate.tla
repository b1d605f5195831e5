------------------------------ MODULE WsioCreate ------------------------------
(***************************************************************************)
(* wsio_create and wsio_destroy of src/src/wsio.c as an allocation chain.  *)
(* wsio_create allocates, in this order, the instance, the pending IO      *)
(* list, copies of host, relative_path and protocol_name, the protocols    *)
(* table and, when the configuration has one, a copy of trusted_ca; any    *)
(* allocation may fail, and each failure path frees by hand what it knows  *)
(* was allocated before.  wsio_destroy closes the IO (modelled in Wsio)    *)
(* and frees everything the instance owns.  Instances share nothing, so   *)
(* several are created and destroyed side by side.                         *)
(***************************************************************************)
EXTENDS Naturals, Sequences, SequencesExt

CONSTANT Handles   \* the wsio instances a caller creates

\* The allocations of wsio_create, in the order the code makes them.
Allocations == <<"instance", "list", "host", "relative_path", "protocol_name",
                 "protocols", "trusted_ca">>
Resources == ToSet(Allocations)

VARIABLES
    phase,    \* handle -> "idle", "created", "failed" (NULL returned) or "destroyed"
    allocs,   \* handle -> resource -> times it was allocated
    frees     \* handle -> resource -> times it was freed (free(NULL) is not counted)

rvars == <<phase, allocs, frees>>

RInit ==
    /\ phase = [h \in Handles |-> "idle"]
    /\ allocs = [h \in Handles |-> [r \in Resources |-> 0]]
    /\ frees = [h \in Handles |-> [r \in Resources |-> 0]]

\* Fault variant of Rollback: the trusted_ca failure path forgets the
\* protocols table.
RollbackNoProtocols(failed) ==
    CASE failed = "instance"      -> {}
      [] failed = "list"          -> {"instance"}
      [] failed = "host"          -> {"list", "instance"}
      [] failed = "relative_path" -> {"host", "list", "instance"}
      [] failed = "protocol_name" -> {"relative_path", "host", "list", "instance"}
      [] failed = "protocols"     -> {"relative_path", "protocol_name", "host", "list",
                                      "instance"}
      [] failed = "trusted_ca"    -> {"protocol_name", "relative_path", "host", "list",
                                      "instance"}

\* What each failure path of wsio_create frees, read off the code: the
\* failing allocation itself returned NULL and is not freed.
Rollback(failed) ==
    CASE failed = "instance"      -> {}
      [] failed = "list"          -> {"instance"}
      [] failed = "host"          -> {"list", "instance"}
      [] failed = "relative_path" -> {"host", "list", "instance"}
      [] failed = "protocol_name" -> {"relative_path", "host", "list", "instance"}
      [] failed = "protocols"     -> {"relative_path", "protocol_name", "host", "list",
                                      "instance"}
      [] failed = "trusted_ca"    -> {"protocols", "protocol_name", "relative_path",
                                      "host", "list", "instance"}

\* The allocations wsio_create attempts with or without a trusted_ca.
Attempted(hasCa) == IF hasCa THEN Allocations ELSE SubSeq(Allocations, 1, 6)

\* Allocated before the k-th attempt.
Before(seq, k) == ToSet(SubSeq(seq, 1, k - 1))

Count(set) == [r \in Resources |-> IF r \in set THEN 1 ELSE 0]

\* A configuration without host, protocol_name or relative_path: NULL,
\* nothing allocated.
CreateRejected(h) ==
    /\ phase[h] = "idle"
    /\ phase' = [phase EXCEPT ![h] = "failed"]
    /\ UNCHANGED <<allocs, frees>>

\* wsio_create with a valid configuration: either every allocation
\* succeeds, or the k-th fails and its rollback path runs.
Create(h) ==
    /\ phase[h] = "idle"
    /\ \E hasCa \in BOOLEAN :
        LET seq == Attempted(hasCa) IN
        \/ /\ phase' = [phase EXCEPT ![h] = "created"]
           /\ allocs' = [allocs EXCEPT ![h] = Count(ToSet(seq))]
           /\ UNCHANGED frees
        \/ \E k \in 1..Len(seq) :
           /\ phase' = [phase EXCEPT ![h] = "failed"]
           /\ allocs' = [allocs EXCEPT ![h] = Count(Before(seq, k))]
           /\ frees' = [frees EXCEPT ![h] = Count(Rollback(seq[k]))]

\* Fault variant of DestroyFrees: the optional trusted_ca copy is not freed.
DestroyFreesNoCa == {"protocols", "host", "protocol_name", "relative_path", "list",
                     "instance"}

\* wsio_destroy frees protocols, host, protocol_name, relative_path,
\* trusted_ca (free(NULL) when there is none), destroys the list and frees
\* the instance.
DestroyFrees == {"protocols", "host", "protocol_name", "relative_path", "trusted_ca",
                 "list", "instance"}

Destroy(h) ==
    /\ phase[h] = "created"
    /\ phase' = [phase EXCEPT ![h] = "destroyed"]
    /\ frees' = [frees EXCEPT ![h] = [r \in Resources |->
                   @[r] + IF r \in DestroyFrees /\ allocs[h][r] > 0 THEN 1 ELSE 0]]
    /\ UNCHANGED allocs

\* Every wsio_create has returned NULL or its instance has been destroyed.
Finished ==
    /\ \A h \in Handles : phase[h] \in {"failed", "destroyed"}
    /\ UNCHANGED rvars

RNext ==
    \/ \E h \in Handles : CreateRejected(h) \/ Create(h) \/ Destroy(h)
    \/ Finished

RSpec == RInit /\ [][RNext]_rvars

-----------------------------------------------------------------------------
(* Properties                                                              *)

\* Every resource is freed at most once and only if it was allocated; once
\* wsio_create has failed or wsio_destroy has run, every allocation has been
\* freed (spec 4.1: rolling back all partial allocations, freeing every
\* owned resource exactly once).
FreedExactlyOnce ==
    \A h \in Handles, r \in Resources :
        /\ frees[h][r] <= allocs[h][r]
        /\ phase[h] \in {"failed", "destroyed"} => frees[h][r] = allocs[h][r]

=============================================================================
