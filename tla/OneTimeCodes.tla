---------------------------- MODULE OneTimeCodes ----------------------------
(***************************************************************************)
(* What recovery codes promise the account that prints them: a code works  *)
(* from the moment its batch is stored until it is used or its batch is    *)
(* replaced, and one that was used never works again.                      *)
(***************************************************************************)
EXTENDS Naturals

CONSTANT Batches  \* the sets of codes that are made together

VARIABLES
  single,  \* does a new batch replace every code there is?
  live,    \* the codes that work
  uses     \* uses[c]: how often code c has worked

vars == <<single, live, uses>>

Init ==
  /\ single \in BOOLEAN
  /\ live = {}
  /\ uses = [c \in UNION Batches |-> 0]

Replace(batch, old) ==
  /\ batch \cap live = {}
  /\ \A c \in batch : uses[c] = 0
  /\ single => old = live
  /\ live' = (live \ old) \cup batch
  /\ UNCHANGED <<single, uses>>

Redeem(code) ==
  /\ live' = live \ {code}
  /\ uses' = [uses EXCEPT ![code] = @ + 1]
  /\ UNCHANGED single

Next ==
  \/ \E batch \in Batches, old \in SUBSET live : Replace(batch, old)
  \/ \E code \in live : Redeem(code)

Spec == Init /\ [][Next]_vars

=============================================================================
