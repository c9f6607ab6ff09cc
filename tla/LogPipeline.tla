---------------------------- MODULE LogPipeline ----------------------------
(***************************************************************************)
(* The logging decorators: a host composes level filters, redactors and    *)
(* fan-outs over its sinks, and the engine writes one record through       *)
(* ForContext and the tree.                                                *)
(*                                                                         *)
(* A composition is a function from places to loggers: <<>> is the place   *)
(* of the outermost logger, and Append(p, k) that of the kth logger that   *)
(* the one at p writes to.  Loggers keep no state, so one that a host uses *)
(* twice is a logger at two places.  In a write every call and return is   *)
(* a step, and a panic unwinds its callers up to the next recover.         *)
(***************************************************************************)
EXTENDS Integers, Sequences

CONSTANTS Trees,    \* the loggers that a host may configure
          Contexts, \* request contexts; "nil" is a nil one
          Levels,   \* levels of records, out-of-range ones included
          Records,  \* field maps: functions from keys to values
          NoWrite   \* before the write, and before a logger is called

VARIABLES tree,      \* Config.Logger
          written,   \* what the caller logs
          given,     \* given[p]: what the logger at p was called with
          progress,  \* progress[p]: how far its Log method is
          delivered  \* what reached the sinks, in order

logVars == <<tree, written, given, progress, delivered>>

LevelDebug == 0
LevelError == 3

Clamp(level) ==
  IF level < LevelDebug THEN LevelDebug
  ELSE IF level > LevelError THEN LevelError ELSE level

Logger ==
  [kind : {"nop", "console"}] \cup [kind : {"sink"}, broken : BOOLEAN]
  \cup [kind : {"filter"}, min : LevelDebug..LevelError]
  \cup [kind : {"redactor"}, hashed : BOOLEAN, keys : SUBSET STRING]
  \cup [kind : {"multi"}, of : Nat]

\* How many loggers a logger writes to.
Width(l) == CASE l.kind = "multi"                  -> l.of
              [] l.kind \in {"filter", "redactor"} -> 1
              [] OTHER                             -> 0

IsTree(t) ==
  /\ <<>> \in DOMAIN t
  /\ \A p \in DOMAIN t :
       /\ p \in Seq(Nat) /\ t[p] \in Logger
       /\ \A k \in 1..Width(t[p]) : Append(p, k) \in DOMAIN t
       /\ \A i \in 1..Len(p) :
            /\ SubSeq(p, 1, i - 1) \in DOMAIN t
            /\ p[i] \in 1..Width(t[SubSeq(p, 1, i - 1)])

ASSUME TreesAssumption == \A t \in Trees : IsTree(t)
ASSUME LevelsAssumption == Levels \subseteq Int
ASSUME RecordsAssumption ==
  /\ \A fields \in Records : fields \in [DOMAIN fields -> STRING]
  /\ \A ctx \in Contexts, level \in Levels, fields \in Records :
       NoWrite # [ctx |-> ctx, level |-> level, fields |-> fields]

-----------------------------------------------------------------------------
(* Constructors *)

\* A nil Logger: no place at all.
Nil == [p \in {} |-> p]
IsNil(t) == DOMAIN t = {}

Leaf(l) == [p \in {<<>>} |-> l]

\* Logger l in front of the trees of a sequence.
Over(l, inner) ==
  [p \in {<<>>} \cup UNION {{<<k>> \o q : q \in DOMAIN inner[k]} : k \in 1..Len(inner)} |->
     IF p = <<>> THEN l ELSE inner[Head(p)][Tail(p)]]

NopLogger == Leaf([kind |-> "nop"])
ConsoleJSONLogger == Leaf([kind |-> "console"])

\* A ContextLogger of the host's, such as a LogFunc.  It may panic.
LogFunc(broken) == Leaf([kind |-> "sink", broken |-> broken])

OrNop(t) == IF IsNil(t) THEN NopLogger ELSE t

NewLevelFilter(inner, min) ==
  Over([kind |-> "filter", min |-> Clamp(min)], <<OrNop(inner)>>)

\* strings.ToLower on the keys that occur here.
Lower(key) == IF key = "IP" THEN "ip" ELSE key

\* keySet: no keys means the defaults, an empty name is skipped.
KeySet(keys) ==
  IF keys = {} THEN {"ip", "user_id", "requesting_user_id"}
  ELSE {Lower(k) : k \in keys \ {""}}

NewRedactor(inner, hashed, keys) ==
  Over([kind |-> "redactor", hashed |-> hashed, keys |-> KeySet(keys)],
       <<OrNop(inner)>>)

\* NewMultiLogger drops nil loggers, and one logger needs no fan-out.
NewMultiLogger(loggers) ==
  LET NotNil(t) == ~IsNil(t)
      kept == SelectSeq(loggers, NotNil)
  IN  CASE Len(kept) = 0 -> NopLogger
        [] Len(kept) = 1 -> kept[1]
        [] OTHER         -> Over([kind |-> "multi", of |-> Len(kept)], kept)

-----------------------------------------------------------------------------
(* Calls and returns *)

Busy(p) == progress[p] = "running"
Ended(p) == progress[p] \in {"returned", "panicked"}

\* emit: the logger at q is called with a record.
Emit(q, record) ==
  /\ progress[q] = "idle"
  /\ progress' = [progress EXCEPT ![q] = "running"]
  /\ given' = [given EXCEPT ![q] = record]
  /\ UNCHANGED <<tree, written, delivered>>

End(p, how) ==
  /\ progress' = [progress EXCEPT ![p] = how]
  /\ UNCHANGED <<tree, written, given>>

Inner(p) == Append(p, 1)

\* ForContext and contextBound: a nil context leaves the logger as it is,
\* and its own methods then pass context.Background().
BoundContext(ctx) == IF ctx = "nil" THEN "background" ELSE ctx

Write(ctx, level, fields) ==
  /\ written = NoWrite
  /\ written' = [ctx |-> ctx, level |-> level, fields |-> fields]
  /\ progress' = [progress EXCEPT ![<<>>] = "running"]
  /\ given' = [given EXCEPT ![<<>>] =
                 [ctx |-> BoundContext(ctx), level |-> level, fields |-> fields]]
  /\ UNCHANGED <<tree, delivered>>

-----------------------------------------------------------------------------
(* The Log methods *)

NopLog(p) == tree[p].kind = "nop" /\ End(p, "returned") /\ UNCHANGED delivered

Deliver(p, record) ==
  delivered' = Append(delivered, [at |-> p, ctx |-> record.ctx, level |-> record.level,
                                  fields |-> record.fields])

\* The console logger takes no context and only the four levels.
ConsoleLog(p) ==
  /\ tree[p].kind = "console"
  /\ Deliver(p, [ctx |-> "none", level |-> Clamp(given[p].level),
                 fields |-> given[p].fields])
  /\ End(p, "returned")

SinkLog(p) ==
  /\ tree[p].kind = "sink"
  /\ \/ tree[p].broken /\ End(p, "panicked") /\ UNCHANGED delivered
     \/ ~tree[p].broken /\ End(p, "returned") /\ Deliver(p, given[p])

Enabled(f, level) == Clamp(level) >= f.min

FilterLog(p) ==
  /\ tree[p].kind = "filter"
  /\ \/ /\ Enabled(tree[p], given[p].level)
        /\ Emit(Inner(p), [given[p] EXCEPT !.level = Clamp(@)])
     \/ /\ ~Enabled(tree[p], given[p].level)
        /\ End(p, "returned") /\ UNCHANGED delivered

\* redact: a fresh map where anything has to be replaced.
Redact(r, fields) ==
  [k \in DOMAIN fields |->
     IF fields[k] = "" \/ Lower(k) \notin r.keys THEN fields[k]
     ELSE IF r.hashed THEN "hmac" ELSE "[redacted]"]

RedactorLog(p) ==
  /\ tree[p].kind = "redactor"
  /\ Emit(Inner(p), [given[p] EXCEPT !.fields = Redact(tree[p], @)])

\* Neither of them recovers.
Unwind(p) ==
  /\ tree[p].kind \in {"filter", "redactor"}
  /\ Ended(Inner(p))
  /\ End(p, progress[Inner(p)]) /\ UNCHANGED delivered

\* writeOne, for each logger in its turn.
MultiLog(p) ==
  /\ tree[p].kind = "multi"
  /\ \E k \in 1..tree[p].of :
       /\ \A j \in 1..(k - 1) : Ended(Append(p, j))
       /\ Emit(Append(p, k), given[p])

\* Mutant: a panic of one logger ends the fan-out.
MultiReturnsEarly(p) ==
  /\ tree[p].kind = "multi"
  /\ \/ \A k \in 1..tree[p].of : Ended(Append(p, k))
     \/ \E k \in 1..tree[p].of : progress[Append(p, k)] = "panicked"
  /\ \A k \in 1..tree[p].of : ~Busy(Append(p, k))
  /\ End(p, "returned") /\ UNCHANGED delivered

\* writeOne has recovered from each panic by itself.
MultiReturns(p) ==
  /\ tree[p].kind = "multi"
  /\ \A k \in 1..tree[p].of : Ended(Append(p, k))
  /\ End(p, "returned") /\ UNCHANGED delivered

LogStep(p) ==
  /\ Busy(p)
  /\ \/ NopLog(p) \/ ConsoleLog(p) \/ SinkLog(p) \/ FilterLog(p)
     \/ RedactorLog(p) \/ Unwind(p) \/ MultiLog(p) \/ MultiReturns(p)

LogInit ==
  /\ tree \in Trees
  /\ written = NoWrite
  /\ given = [p \in DOMAIN tree |-> NoWrite]
  /\ progress = [p \in DOMAIN tree |-> "idle"]
  /\ delivered = <<>>

LogNext ==
  \/ \E ctx \in Contexts, level \in Levels, fields \in Records :
       Write(ctx, level, fields)
  \/ \E p \in DOMAIN tree : LogStep(p)

LogSpec == LogInit /\ [][LogNext]_logVars

-----------------------------------------------------------------------------
(* Properties *)

Sinks == {p \in DOMAIN tree : tree[p].kind \in {"console", "sink"}}
Broken(s) == tree[s].kind = "sink" /\ tree[s].broken

\* The loggers on the way to p.
Way(p) == {SubSeq(p, 1, i) : i \in 0..(Len(p) - 1)}

Passes(p) ==
  \A f \in Way(p) : tree[f].kind = "filter" => Enabled(tree[f], written.level)

Covered(p, key) ==
  \E r \in Way(p) : tree[r].kind = "redactor" /\ Lower(key) \in tree[r].keys

\* What arrives at p of the fields that were logged.
Shown(p, fields) ==
  /\ DOMAIN fields = DOMAIN written.fields
  /\ \A key \in DOMAIN fields :
       IF written.fields[key] = "" \/ ~Covered(p, key)
       THEN fields[key] = written.fields[key]
       ELSE fields[key] \in {"hmac", "[redacted]"}

DeliveriesTo(s) == {k \in 1..Len(delivered) : delivered[k].at = s}

(***************************************************************************)
(* When a write is over, every sink that works has got the record exactly  *)
(* once if it passes the filters on the way to that sink, and not at all   *)
(* otherwise, whatever its siblings in a fan-out did; it got the request's *)
(* context, the level up to clamping, and every field as it was logged but *)
(* those that a redactor on the way covers.  A panic reaches the caller    *)
(* only from a sink that is under no fan-out.                              *)
(* (emit, writeOne, Redactor.redact, LevelFilter.Log, ForContext)          *)
(***************************************************************************)
EverySinkGetsItsRecord ==
  Ended(<<>>) =>
    /\ \A s \in Sinks :
         /\ Passes(s) /\ ~Broken(s) <=> DeliveriesTo(s) # {}
         /\ \A j, k \in DeliveriesTo(s) : j = k
         /\ \A k \in DeliveriesTo(s) :
              /\ tree[s].kind = "sink" => delivered[k].ctx = BoundContext(written.ctx)
              /\ Clamp(delivered[k].level) = Clamp(written.level)
              /\ Shown(s, delivered[k].fields)
    /\ progress[<<>>] = "panicked" <=>
         \E s \in Sinks : /\ Broken(s) /\ Passes(s)
                          /\ \A m \in Way(s) : tree[m].kind # "multi"

=============================================================================
