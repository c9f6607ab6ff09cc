------------------------- MODULE MCDirectoryAndKeys -------------------------
(***************************************************************************)
(* The directory of accounts, and API keys.  They share no variable, so a  *)
(* behaviour explores the one that "focus" names while the other is as in  *)
(* its first state.                                                        *)
(***************************************************************************)
EXTENDS Directory, APIKeys, TLC

VARIABLE focus

\* The owners, requests and ids of the keys are those of the directory.
MCSymmetry ==
  Permutations(Uids) \cup Permutations(Emails) \cup Permutations(Externals)
    \cup Permutations(Tids) \cup Permutations(Requests)

MCInit ==
  /\ focus \in {"directory", "keys"}
  /\ Init /\ KeysInit
  /\ focus = "directory" => keyStore = "memory"

MCNext ==
  \/ focus = "directory" /\ Next /\ UNCHANGED <<focus, keyVars>>
  \/ focus = "keys" /\ KeysNext /\ UNCHANGED <<focus, vars>>

MCSpec == MCInit /\ [][MCNext]_<<focus, vars, keyVars>>

=============================================================================
