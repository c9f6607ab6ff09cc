----------------------------- MODULE AskQueries -----------------------------
(***************************************************************************)
(* The natural-language query path: a model turns a question into a        *)
(* QueryIntent (any intent whatever), the widget scopes it to the end user *)
(* who asked, ai validates it, and a store runs it.                        *)
(*                                                                         *)
(* A cell is a number, ordered as SQL orders it; 0 is the empty string,    *)
(* which every text contains, and Null is NULL, which no filter matches.   *)
(* An intent's filters are a set: the stores join their clauses with AND.  *)
(***************************************************************************)
EXTENDS Integers, FiniteSets

CONSTANTS Intents,  \* the QueryIntents that the model may answer with
          Callers,  \* end users; 0 is a host that passed no owner
          Tables,   \* Tables[entity]: its rows, functions from columns to cells
          MaxLimit, \* ai.MaxLimit
          DefaultLimit,
          Null

ASSUME IntentsAssumption ==
  Intents \subseteq
    [entity : STRING,
     filters : SUBSET [field : STRING, op : STRING, value : Int],
     aggregate : STRING, groupBy : STRING, limit : Int]

ASSUME AskLimitsAssumption == MaxLimit \in Nat /\ DefaultLimit \in Nat

ASSUME TablesAssumption ==
  \A entity \in {"users", "sessions", "audit_events"} :
    IsFiniteSet(Tables[entity])

VARIABLES store,  \* "postgres" or "sqlite"
          caller, \* the authenticated owner
          asked,  \* the intent that the model produced
          answer  \* what Ask returned

askVars == <<store, caller, asked, answer>>

Refused == [columns |-> {}, rows |-> {}, source |-> {}, error |-> TRUE]

-----------------------------------------------------------------------------
(* ai: the allowlists *)

AllowedFields ==
  [users |-> {"id", "email", "failed_attempts", "locked_until", "created_at"},
   sessions |-> {"id", "user_id", "ip", "user_agent", "created_at",
                 "revoked_at"},
   audit_events |-> {"id", "type", "user_id", "ip", "created_at"}]

AllowedEntities == {"users", "sessions", "audit_events"}
AllowedOperators == {"=", ">", "<", "contains"}
AllowedAggregates == {"", "count", "group_by"}

ValidateIntent(i) ==
  /\ i.entity \in AllowedEntities
  /\ i.aggregate \in AllowedAggregates
  /\ i.aggregate = "group_by" => i.groupBy \in AllowedFields[i.entity]
  /\ \A f \in i.filters :
       f.field \in AllowedFields[i.entity] /\ f.op \in AllowedOperators
  /\ i.limit >= 0 /\ i.limit <= MaxLimit

-----------------------------------------------------------------------------
(* store/postgres and store/sqlite: RunSafeQuery *)

\* operatorSQL and valueForOperator.
OperatorHolds(op, cell, value) ==
  /\ cell # Null
  /\ CASE op = "="        -> cell = value
       [] op = ">"        -> cell > value
       [] op = "<"        -> cell < value
       [] op = "contains" -> value \in {0, cell}

\* ILIKE exists for text: on a uuid, number or timestamp it is an error.
\* SQLite's LIKE takes any column.
PgTextColumns == {"email", "ip", "user_agent", "type"}

PgTypeError(i) ==
  /\ store = "postgres"
  /\ \E f \in i.filters : f.op = "contains" /\ f.field \notin PgTextColumns

\* buildWhereClause: the conjunction of the filters.
Matching(i) ==
  {row \in Tables[i.entity] :
     \A f \in i.filters : OperatorHolds(f.op, row[f.field], f.value)}

\* runSelect: LIMIT without ORDER BY, so any rows of them.
RunSelect(i, limit) ==
  LET found == Matching(i)
      cols == AllowedFields[i.entity]
      view(rows) == {[c \in cols |-> row[c]] : row \in rows}
  IN  {[columns |-> cols, rows |-> view(picked), source |-> picked,
        error |-> FALSE] :
         picked \in {s \in SUBSET found :
                       Cardinality(s) = IF Cardinality(found) < limit
                                        THEN Cardinality(found) ELSE limit}}

RunCount(i) ==
  [columns |-> {"count"}, rows |-> {<<Cardinality(Matching(i))>>},
   source |-> Matching(i), error |-> FALSE]

\* runGroupBy has no LIMIT.
RunGroupBy(i) ==
  LET found == Matching(i)
  IN  [columns |-> {i.groupBy, "count"},
       rows |-> {<<row[i.groupBy],
                   Cardinality({r \in found : r[i.groupBy] = row[i.groupBy]})>> :
                 row \in found},
       source |-> found, error |-> FALSE]

\* What RunSafeQuery may return for an intent that passed validation.
RunSafeQuery(i) ==
  IF PgTypeError(i) THEN {Refused}
  ELSE CASE i.aggregate = "count"    -> {RunCount(i)}
         [] i.aggregate = "group_by" -> {RunGroupBy(i)}
         [] i.aggregate = ""         -> RunSelect(i, i.limit)

\* ExecuteIntent: default limit, then the gate, then the store.
ExecuteIntent(i) ==
  LET j == [i EXCEPT !.limit = IF @ = 0 THEN DefaultLimit ELSE @]
  IN  IF ValidateIntent(j) THEN RunSafeQuery(j) ELSE {Refused}

-----------------------------------------------------------------------------
(* widget *)

Filter(field, op, value) == [field |-> field, op |-> op, value |-> value]

\* Mutant: the owner's filter is only added where the model gave none.
ScopeToOwnerPolite(i, owner) ==
  IF \E f \in i.filters : f.field = "user_id" THEN i
  ELSE [i EXCEPT !.filters =
          @ \cup {Filter(IF i.entity = "users" THEN "id" ELSE "user_id",
                         "=", owner)}]

\* Identity-bearing filters are discarded, and the owner's is put in.
ScopeToOwner(i, owner) ==
  IF i.entity = "users"
  THEN [i EXCEPT !.filters = {Filter("id", "=", owner)}]
  ELSE [i EXCEPT !.filters = {f \in @ : f.field # "user_id"}
                             \cup {Filter("user_id", "=", owner)}]

\* Ask: an owner is required, and an entity that cannot be scoped is refused.
AskAnswers(i, owner) ==
  IF owner = 0 \/ i.entity \notin AllowedEntities THEN {Refused}
  ELSE ExecuteIntent(ScopeToOwner(i, owner))

Ask ==
  /\ answer = Null
  /\ answer' \in AskAnswers(asked, caller)
  /\ UNCHANGED <<store, caller, asked>>

AskInit ==
  /\ store \in {"postgres", "sqlite"}
  /\ caller \in Callers
  /\ asked \in Intents
  /\ answer = Null

AskNext == Ask

AskSpec == AskInit /\ [][AskNext]_askVars

-----------------------------------------------------------------------------
(* Properties *)

OwnerColumn(entity) == IF entity = "users" THEN "id" ELSE "user_id"

(***************************************************************************)
(* Whatever intent the model produced, the rows behind an answer, whether  *)
(* shown, counted or grouped, are the caller's own; the columns are        *)
(* allowlisted ones; a listing is within the limit; and the answer is one  *)
(* that the intent without its identity filters would have had.            *)
(* (Ask, scopeToOwner, validateIntent, RunSafeQuery)                       *)
(***************************************************************************)
AnswerIsTheCallersOwn ==
  answer # Null /\ ~answer.error =>
    LET bare == [asked EXCEPT !.filters =
                   {f \in @ : asked.entity # "users" /\ f.field # "user_id"}]
    IN  /\ \A row \in answer.source : row[OwnerColumn(asked.entity)] = caller
        /\ answer.columns \subseteq AllowedFields[asked.entity] \cup {"count"}
        /\ asked.aggregate = "" => Cardinality(answer.source) <= MaxLimit
        /\ answer \in AskAnswers(bare, caller)

=============================================================================
