---------------------------- MODULE Credentials ----------------------------
(***************************************************************************)
(* One account's stored password hash over the life of a deployment: the   *)
(* host changes Config.Hasher and Config.PasswordPolicy and restarts, the  *)
(* owner logs in (which may rewrite the hash) and changes the password.    *)
(*                                                                         *)
(* A hash is a record of what its text carries.  A derived key is the tuple*)
(* of everything that went into it, and a salt is its length.              *)
(***************************************************************************)
EXTENDS Integers

CONSTANTS Passwords, \* [name, len : Nat, has : character classes, breached]
          Hashers,   \* the values of Config.Hasher that the host deploys
          Policies,  \* the values of Config.PasswordPolicy
          Imported   \* hashes that were in the users table before the engine

\* maxArgon2idMemory, bcrypt.MinCost and MaxCost, and bcrypt's input limit.
MaxMemory == 4 * 1024 * 1024
MinCost == 4
MaxCost == 31
BcryptLimit == 72

\* The three kinds of Hasher.  A custom one does not write the two formats
\* that MultiHasher routes to this package's own.
ASSUME HashersAssumption ==
  Hashers \subseteq
    [kind : {"bcrypt"}, cost : Int]
    \cup [kind : {"argon2id"},
          params : [mem : Nat, iter : Nat, par : Nat, salt : Nat, key : Nat]]
    \cup [kind : {"custom"}, name : STRING \ {"bcrypt", "argon2id"},
          rehasher : BOOLEAN]

\* The fields that the text of a known format carries.
ASSUME ImportedAssumption ==
  \A x \in Imported :
    /\ {"format", "key"} \subseteq DOMAIN x
    /\ x.format = "bcrypt" => "cost" \in DOMAIN x /\ x.cost \in Nat
    /\ x.format = "argon2id" =>
         /\ {"version", "clean", "m", "t", "p", "salt", "keyLen"} \subseteq DOMAIN x
         /\ {x.m, x.t, x.p, x.salt, x.keyLen} \subseteq Nat

VARIABLES hasher,  \* the primary hasher of the running engine
          policy,  \* its password policy
          stored,  \* users.password_hash
          owner,   \* the password the owner was told is theirs
          foreign, \* history: is stored a hash that the engine did not write?
          outcome  \* what the last call returned

credentialVars == <<hasher, policy, stored, owner, foreign, outcome>>

-----------------------------------------------------------------------------
(* Argon2idHasher *)

Argon2idParams(mem, iter, par, salt, key) ==
  [mem |-> mem, iter |-> iter, par |-> par, salt |-> salt, key |-> key]

DefaultArgon2idParams == Argon2idParams(64 * 1024, 3, 4, 16, 32)

ValidParams(p) ==
  /\ p.iter >= 1 /\ p.par >= 1
  /\ p.mem >= 8 * p.par /\ p.mem <= MaxMemory
  /\ p.salt >= 8 /\ p.key >= 16

\* argon2.IDKey.
IDKey(pw, p) == <<pw.name, p>>

\* The text carries m, t, p, the salt and the key; the two lengths are read
\* off the decoded halves.  "clean" is false of a parameter segment that is
\* not exactly what this package writes.
EncodeArgon2idHash(p, derived) ==
  [format |-> "argon2id", version |-> 19, clean |-> TRUE, m |-> p.mem,
   t |-> p.iter, p |-> p.par, salt |-> p.salt, keyLen |-> p.key, key |-> derived]

Argon2idHash(h, pw) == EncodeArgon2idHash(h.params, IDKey(pw, h.params))

\* Is the text one that decodeArgon2idHash accepts?
Decodes(x) ==
  /\ x.format = "argon2id" /\ x.version = 19 /\ x.clean
  /\ x.t >= 1 /\ x.p >= 1 /\ x.m <= MaxMemory
  /\ x.salt > 0 /\ x.keyLen > 0

DecodeArgon2idHash(x) == Argon2idParams(x.m, x.t, x.p, x.salt, x.keyLen)

Argon2idCompare(x, pw) ==
  Decodes(x) /\ IDKey(pw, DecodeArgon2idHash(x)) = x.key

\* Mutant: any difference counts.
Argon2idNeedsRehashDiffers(h, x) ==
  ~Decodes(x) \/ DecodeArgon2idHash(x) # h.params

Argon2idNeedsRehash(h, x) ==
  \/ ~Decodes(x)
  \/ LET p == DecodeArgon2idHash(x)
     IN  \/ p.mem < h.params.mem \/ p.iter < h.params.iter
         \/ p.salt < h.params.salt \/ p.key < h.params.key

-----------------------------------------------------------------------------
(* BcryptHasher *)

\* bcrypt.GenerateFromPassword refuses more than 72 bytes.
BcryptHash(h, pw) ==
  [format |-> "bcrypt", cost |-> h.cost, key |-> pw.name]

BcryptCompare(x, pw) == x.format = "bcrypt" /\ x.key = pw.name

\* bcrypt.Cost fails on everything that is not bcrypt.
BcryptNeedsRehash(h, x) == x.format # "bcrypt" \/ x.cost < h.cost

-----------------------------------------------------------------------------
(* A Hasher that the host wrote: it verifies its own format only, and may  *)
(* or may not be a Rehasher.                                               *)

CustomHash(h, pw) == [format |-> h.name, key |-> pw.name]
CustomCompare(h, x, pw) == x.format = h.name /\ x.key = pw.name

-----------------------------------------------------------------------------
(* MultiHasher, which New wraps around the primary *)

\* NewArgon2idHasher; the zero struct asks for the defaults.
NewArgon2idHasher(params) ==
  [kind |-> "argon2id",
   params |-> IF params = Argon2idParams(0, 0, 0, 0, 0)
              THEN DefaultArgon2idParams ELSE params]

\* The constructors' verdict on a configured hasher.
Constructible(h) ==
  CASE h.kind = "bcrypt"   -> h.cost >= MinCost /\ h.cost <= MaxCost
    [] h.kind = "argon2id" -> ValidParams(NewArgon2idHasher(h.params).params)
    [] h.kind = "custom"   -> TRUE

NewPrimary(h) ==
  IF h.kind = "argon2id" THEN NewArgon2idHasher(h.params) ELSE h

IdentifyHash(x) ==
  IF x.format \in {"argon2id", "bcrypt"} THEN x.format ELSE "unknown"

\* Mutant: the primary verifies everything.
ComparePrimary(x, pw) ==
  CASE hasher.kind = "bcrypt"   -> BcryptCompare(x, pw)
    [] hasher.kind = "argon2id" -> Argon2idCompare(x, pw)
    [] OTHER                    -> CustomCompare(hasher, x, pw)

Compare(x, pw) ==
  CASE IdentifyHash(x) = "bcrypt"   -> BcryptCompare(x, pw)
    [] IdentifyHash(x) = "argon2id" -> Argon2idCompare(x, pw)
    [] OTHER -> /\ hasher.kind = "custom"
                /\ CustomCompare(hasher, x, pw)

Hash(pw) ==
  CASE hasher.kind = "bcrypt"   -> BcryptHash(hasher, pw)
    [] hasher.kind = "argon2id" -> Argon2idHash(hasher, pw)
    [] hasher.kind = "custom"   -> CustomHash(hasher, pw)

HashFails(pw) == hasher.kind = "bcrypt" /\ pw.len > BcryptLimit

\* Only a Rehasher is asked.  A custom one finds every other format stale.
NeedsRehash(x) ==
  CASE hasher.kind = "bcrypt"   -> BcryptNeedsRehash(hasher, x)
    [] hasher.kind = "argon2id" -> Argon2idNeedsRehash(hasher, x)
    [] hasher.kind = "custom"   -> hasher.rehasher /\ x.format # hasher.name

-----------------------------------------------------------------------------
(* PasswordPolicy *)

DefaultPasswordPolicy == [min |-> 8, max |-> BcryptLimit, require |-> {}]

\* Validate: the violated rules, all of them.
Violations(p, pw) ==
  (IF pw.len < p.min THEN {"min_length"} ELSE {})
  \cup (IF p.max > 0 /\ pw.len > p.max THEN {"max_length"} ELSE {})
  \cup (p.require \ pw.has)

-----------------------------------------------------------------------------
(* The engine *)

\* A hash of pw that another program wrote into the table.
ImportedHash(x, pw) ==
  [x EXCEPT !.key = IF x.format = "argon2id"
                    THEN IDKey(pw, DecodeArgon2idHash(x)) ELSE pw.name]

CredentialsInit ==
  /\ hasher \in {NewPrimary(h) : h \in {g \in Hashers : Constructible(g)}}
  /\ policy \in Policies
  /\ owner \in Passwords
  /\ \/ ~HashFails(owner) /\ stored = Hash(owner) /\ foreign = FALSE
     \/ stored \in {ImportedHash(x, owner) : x \in Imported} /\ foreign = TRUE
  /\ outcome = "none"

\* A restart with another configuration; New refuses one that it cannot
\* construct a hasher from.
Deploy(h, p) ==
  /\ outcome' = IF Constructible(h) THEN "started" ELSE "refused"
  /\ hasher' = IF Constructible(h) THEN NewPrimary(h) ELSE hasher
  /\ policy' = IF Constructible(h) THEN p ELSE policy
  /\ UNCHANGED <<stored, owner, foreign>>

\* Login with the password pw, and upgradePasswordHash when it verified.
PasswordLogin(pw) ==
  LET ok == Compare(stored, pw)
      rewrite == ok /\ NeedsRehash(stored) /\ ~HashFails(pw)
  IN  /\ outcome' = IF ok THEN "ok" ELSE "invalid_credentials"
      /\ stored' = IF rewrite THEN Hash(pw) ELSE stored
      /\ foreign' = (foreign /\ ~rewrite)
      /\ UNCHANGED <<hasher, policy, owner>>

\* ChangePassword up to UpdatePasswordHash.  A failing breach checker counts
\* as "not breached", so it may let any password through.
SetPassword(current, pw, checkerFails) ==
  LET refusal ==
        IF ~Compare(stored, current) THEN "invalid_credentials"
        ELSE IF Violations(policy, pw) # {} THEN "policy_violation"
        ELSE IF pw.breached /\ ~checkerFails THEN "breached"
        ELSE IF HashFails(pw) THEN "hash_error"
        ELSE "ok"
  IN  /\ outcome' = refusal
      /\ stored' = IF refusal = "ok" THEN Hash(pw) ELSE stored
      /\ owner' = IF refusal = "ok" THEN pw ELSE owner
      /\ foreign' = (foreign /\ refusal # "ok")
      /\ UNCHANGED <<hasher, policy>>

CredentialsNext ==
  \/ \E h \in Hashers, p \in Policies : Deploy(h, p)
  \/ \E pw \in Passwords : PasswordLogin(pw)
  \/ \E current, pw \in Passwords, f \in BOOLEAN : SetPassword(current, pw, f)

CredentialsSpec == CredentialsInit /\ [][CredentialsNext]_credentialVars

-----------------------------------------------------------------------------
(* Properties *)

\* A hash this package can read: bcrypt, or Argon2id as it would write it.
Readable(x) == x.format = "bcrypt" \/ Decodes(x)

(***************************************************************************)
(* However often the host changes the algorithm, its costs or the policy,  *)
(* the owner's password, and no other, verifies against a hash in one of   *)
(* the two known formats, and against a custom one while its hasher is the *)
(* primary (MultiHasher.Compare; multihasher.go: switching can never lock  *)
(* out an account whose hash predates the switch).                         *)
(***************************************************************************)
SwitchLocksNobodyOut ==
  Readable(stored) \/ (hasher.kind = "custom" /\ stored.format = hasher.name)
  => \A pw \in Passwords : Compare(stored, pw) <=> pw.name = owner.name

\* x is at least as strong as what h writes.
AsStrong(x, h) ==
  CASE h.kind = "bcrypt"   -> x.format = "bcrypt" /\ x.cost >= h.cost
    [] h.kind = "argon2id" ->
         /\ x.format = "argon2id"
         /\ x.m >= h.params.mem /\ x.t >= h.params.iter
         /\ x.salt >= h.params.salt /\ x.keyLen >= h.params.key
    [] OTHER -> FALSE

(***************************************************************************)
(* A login rewrites a hash that it can read only where some strength       *)
(* parameter rises or the algorithm changes, and the hash it writes asks   *)
(* for no further rewrite: logins do not churn the table, and none         *)
(* downgrades a hash that was at least as strong throughout.               *)
(* (NeedsRehash of both hashers, upgradePasswordHash)                      *)
(***************************************************************************)
RehashConverges ==
  [][(\E pw \in Passwords : PasswordLogin(pw))
     /\ stored' # stored /\ Readable(stored)
     => ~AsStrong(stored, hasher) /\ ~NeedsRehash(stored')]_credentialVars

=============================================================================
