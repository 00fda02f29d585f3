------------------------------ MODULE Credentials ------------------------------
(***************************************************************************)
(* The password rule and password hashes: ValidatePassword of              *)
(* internal/security/validation.go, HashPassword and VerifyPassword of     *)
(* internal/security/password.go.  Registration applies the rule and       *)
(* stores a hash; a login, perhaps releases later, verifies it.            *)
(*                                                                         *)
(* Abstracted: a password is, for the rule, how many characters of each    *)
(* kind it has; for the hash, a value.  Argon2id is a free constructor:    *)
(* two keys are the same when all it was given was the same.  The text of  *)
(* an encoded hash is a record of its parts.                               *)
(*                                                                         *)
(* These are functions of their arguments, without a state: what they do   *)
(* is stated and proved here for every argument.                           *)
(***************************************************************************)
EXTENDS Naturals, TLAPS

-------------------------------------------------------------------------------
(* ValidatePassword *)

\* upper, lower and digit are the ASCII letters and digits; one to four are
\* other characters, by the bytes of their UTF-8 encoding.
Passwords == [upper : Nat, lower : Nat, digit : Nat,
              one : Nat, two : Nat, three : Nat, four : Nat]

\* len(password) counts bytes.
Length(w) ==
    w.upper + w.lower + w.digit + w.one + 2 * w.two + 3 * w.three + 4 * w.four

ValidatePassword(w) ==
    /\ Length(w) >= 8
    /\ w.upper > 0 /\ w.lower > 0 /\ w.digit > 0

-------------------------------------------------------------------------------
(* HashPassword and VerifyPassword *)

\* defaultParams and argon2.Version, as a release of the program has them.
Release == [version : Nat, memory : Nat, iterations : Nat,
            parallelism : Nat, keyLength : Nat]

IDKey(secret, salt, params, keyLength) ==
    <<secret, salt, params.iterations, params.memory, params.parallelism, keyLength>>

\* m, t and p of the encoding; the length of the key is that of its bytes.
HashPassword(secret, salt, release) ==
    [version |-> release.version,
     params |-> [memory |-> release.memory, iterations |-> release.iterations,
                 parallelism |-> release.parallelism],
     salt |-> salt,
     key |-> IDKey(secret, salt, release, release.keyLength),
     keyLength |-> release.keyLength]

\* What the hash was made with decides, but for the version of Argon2, which
\* must be the one of the library in use.
VerifyPassword(secret, encoded, version) ==
    IF encoded.version # version THEN "error"
    ELSE IF encoded.key = IDKey(secret, encoded.salt, encoded.params, encoded.keyLength)
    THEN "match" ELSE "mismatch"

-------------------------------------------------------------------------------
Characters(w) ==
    w.upper + w.lower + w.digit + w.one + w.two + w.three + w.four

\* The rule in the words of its comment: 8 characters, with an upper case
\* letter, a lower case letter and a digit.
Policy(w) == Characters(w) >= 8 /\ w.upper > 0 /\ w.lower > 0 /\ w.digit > 0

\* The code counts bytes where the rule says characters: it accepts whatever
\* the rule accepts and nothing else in ASCII; beyond ASCII it may accept
\* shorter passwords, but none of fewer than 5 characters.
THEOREM AcceptedPasswords ==
    \A w \in Passwords :
        /\ Policy(w) => ValidatePassword(w)
        /\ ValidatePassword(w) => Characters(w) >= 5
        /\ ValidatePassword(w) /\ w.two + w.three + w.four = 0 => Policy(w)
<1> TAKE w \in Passwords
<1>1. /\ w.upper \in Nat /\ w.lower \in Nat /\ w.digit \in Nat
      /\ w.one \in Nat /\ w.two \in Nat /\ w.three \in Nat /\ w.four \in Nat
  BY DEF Passwords
<1>2. Policy(w) => ValidatePassword(w)
  BY <1>1 DEF Policy, ValidatePassword, Characters, Length
<1>3. ValidatePassword(w) => Characters(w) >= 5
  \* Of four characters three are of one byte and the last of at most four.
  BY <1>1 DEF ValidatePassword, Characters, Length
<1>4. ValidatePassword(w) /\ w.two + w.three + w.four = 0 => Policy(w)
  BY <1>1 DEF Policy, ValidatePassword, Characters, Length
<1> QED
  BY <1>2, <1>3, <1>4

\* And it does accept one of five characters: two letters and a digit of one
\* byte each, and two characters of four.
THEOREM FiveCharactersAccepted ==
    \E w \in Passwords : ValidatePassword(w) /\ Characters(w) = 5
<1> DEFINE w == [upper |-> 1, lower |-> 1, digit |-> 1,
                 one |-> 0, two |-> 0, three |-> 0, four |-> 2]
<1>1. w \in Passwords
  BY DEF Passwords
<1>2. ValidatePassword(w) /\ Characters(w) = 5
  BY DEF ValidatePassword, Characters, Length
<1> QED
  BY <1>1, <1>2

\* A stored hash outlives a change of the default parameters: verified by a
\* later release, it is matched by its own password and by no other, unless
\* that release has another version of Argon2, which refuses every password.
THEOREM HashOutlivesRelease ==
    ASSUME NEW secret, NEW given, NEW salt, NEW old \in Release, NEW new \in Release
    PROVE  VerifyPassword(given, HashPassword(secret, salt, old), new.version) =
               IF old.version # new.version THEN "error"
               ELSE IF given = secret THEN "match" ELSE "mismatch"
<1> DEFINE hash == HashPassword(secret, salt, old)
<1>1. hash.version = old.version /\ hash.salt = salt /\ hash.keyLength = old.keyLength
  BY DEF HashPassword
<1>2. /\ hash.key = IDKey(secret, salt, old, old.keyLength)
      /\ IDKey(given, hash.salt, hash.params, hash.keyLength)
           = IDKey(given, salt, old, old.keyLength)
  BY DEF HashPassword, IDKey
<1>3. IDKey(secret, salt, old, old.keyLength) = IDKey(given, salt, old, old.keyLength)
        <=> given = secret
  BY DEF IDKey
<1> QED
  BY <1>1, <1>2, <1>3 DEF VerifyPassword
===============================================================================
