--------------------------- MODULE SchemaVersions ---------------------------
(***************************************************************************)
(* What the migrations promise the processes that start on one database:   *)
(* its schema is always that of some version, versions follow one another  *)
(* one at a time and are never taken back, and a process serves on the     *)
(* latest one only.                                                        *)
(***************************************************************************)
EXTENDS Integers

CONSTANTS Processes,
          Latest,   \* the version that the program was built for
          Contents  \* Contents[v]: the schema of version v

VARIABLES version, schema, serving

vars == <<version, schema, serving>>

Init == version = 0 /\ schema = Contents[0] /\ serving = {}

Upgrade ==
  /\ version < Latest
  /\ version' = version + 1
  /\ schema' = Contents[version + 1]
  /\ UNCHANGED serving

Serve(p) ==
  /\ version = Latest
  /\ serving' = serving \cup {p}
  /\ UNCHANGED <<version, schema>>

Stop(p) ==
  /\ serving' = serving \ {p}
  /\ UNCHANGED <<version, schema>>

Next == Upgrade \/ \E p \in Processes : Serve(p) \/ Stop(p)

Spec == Init /\ [][Next]_vars

=============================================================================
