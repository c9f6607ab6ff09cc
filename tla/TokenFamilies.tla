--------------------------- MODULE TokenFamilies ---------------------------
(***************************************************************************)
(* What refresh-token rotation promises to the holder of a login.          *)
(*                                                                         *)
(* A login starts a family, named by its first token.  From then on the    *)
(* family has at most one current token.  Rotating replaces the current    *)
(* token by one that was never used before; ending a family takes the      *)
(* current token away, and a family that was ended never has a current     *)
(* token again.                                                            *)
(*                                                                         *)
(* Module Sessions, the store and the handlers of the repository, is shown *)
(* to implement this for the two SQL backends.                             *)
(***************************************************************************)

CONSTANTS Tokens,   \* every refresh token that is ever issued
          NoToken   \* not a token: "this family has no current token"

VARIABLES current,  \* current[f]: the token family f accepts, or NoToken
          used      \* the tokens issued so far

vars == <<current, used>>

Init ==
  /\ current = [f \in Tokens |-> NoToken]
  /\ used = {}

Begin(t) ==
  /\ t \in Tokens \ used
  /\ current' = [current EXCEPT ![t] = t]
  /\ used' = used \cup {t}

Rotate(f, t) ==
  /\ t \in Tokens \ used
  /\ current[f] # NoToken
  /\ current' = [current EXCEPT ![f] = t]
  /\ used' = used \cup {t}

\* One statement of the store may end several families at once.
End(F) ==
  /\ current' = [f \in Tokens |-> IF f \in F THEN NoToken ELSE current[f]]
  /\ UNCHANGED used

Next ==
  \/ \E t \in Tokens : Begin(t)
  \/ \E f, t \in Tokens : Rotate(f, t)
  \/ \E F \in SUBSET Tokens : End(F)

Spec == Init /\ [][Next]_vars

============================================================================
