--------------------------- MODULE PasswordPolicy ---------------------------
(***************************************************************************)
(* validatePasswordSecure (internal/service/user_validation.go): a password*)
(* is typed character by character and submitted, and the leak service is  *)
(* asked, which may not answer.                                            *)
(*                                                                         *)
(* A Go string is its UTF-8 bytes.  The length and the character classes   *)
(* are taken from the characters, the patterns from the bytes: Bytes makes *)
(* the conversion.  The checks are written as the loops of the code, the   *)
(* references they are compared with as what the loops look for.           *)
(***************************************************************************)
EXTENDS Naturals, FiniteSets, SequencesExt

CONSTANTS
  Char,                     \* the characters typed
  IsLower, IsUpper, IsDigit,
  Utf8,                     \* the bytes of a character
  ToLower,                  \* the character in lower case
  MinLen, MaxLen,           \* 12 and 128 characters
  SeqLen,                   \* 8 bytes
  RepLen, MaxPeriod,        \* 10 bytes, 3 bytes
  MinWord,                  \* 3 bytes
  Rows,                     \* rows of the keyboard
  Common,                   \* the common passwords
  NameParts, Email, Prefix  \* the account's, in lower case

(* UTF-8 uses no byte 255, and at least one byte for a character.          *)
Byte == 0 .. 254

ASSUME CharAssumption ==
  /\ IsLower \cap IsUpper = {} /\ (IsLower \cup IsUpper) \cap IsDigit = {}
  /\ \A c \in Char : {Utf8[c], Utf8[ToLower[c]]} \subseteq Seq(Byte) \ {<<>>}
ASSUME LengthAssumption ==
  MinLen \in Nat /\ MaxLen \in Nat /\ SeqLen \in Nat \ {0}
(* Two copies of the longest pattern are not yet a repetition: the outer   *)
(* loop of hasRepetitivePatterns relies on it.                             *)
ASSUME RepAssumption ==
  MaxPeriod \in Nat \ {0} /\ RepLen \in Nat /\ RepLen > 2 * MaxPeriod
(* The keys of a row are all different.                                    *)
ASSUME RowsAssumption == \A row \in Rows : row \in Seq(Byte) /\ IsInjective(row)
(* Every common password of the code is shorter than its minimum length.   *)
ASSUME CommonAssumption == \A c \in Common : Len(c) < MinLen
ASSUME WordAssumption ==
  NameParts \subseteq Seq(Byte) /\ {Email, Prefix} \subseteq Seq(Byte)

VARIABLES
  typed,     \* the password so far
  verdict    \* of the last submission; "none" before it

vars == <<typed, verdict>>

Verdict == {"none", "short", "long", "complexity", "weak", "pwned", "ok"}

TypeOK ==
  /\ typed \in Seq(Char) /\ Len(typed) <= MaxLen + 1
  /\ verdict \in Verdict

-----------------------------------------------------------------------------
Bytes(s) == FlattenSeq([i \in DOMAIN s |-> Utf8[s[i]]])
LowerBytes(s) == FlattenSeq([i \in DOMAIN s |-> Utf8[ToLower[s[i]]]])

Substring(b, i, n) == SubSeq(b, i, i + n - 1)

ContainsBytes(b, word) ==
  \E i \in 1 .. Len(b) - Len(word) + 1 : Substring(b, i, Len(word)) = word

-----------------------------------------------------------------------------
(* hasSequence: a window of SeqLen bytes that goes up or down by one (in   *)
(* byte arithmetic), or lies on a row of the keyboard, read either way.    *)
Ascending(w) == \A j \in 1 .. SeqLen - 1 : w[j + 1] = (w[j] + 1) % 256
Descending(w) == \A j \in 1 .. SeqLen - 1 : w[j + 1] = (w[j] + 255) % 256
OnRow(w) ==
  \E row \in Rows : ContainsBytes(row, w) \/ ContainsBytes(Reverse(row), w)

(* Mutant: the loop stops one window early.                                *)
HasSequenceShort(s) ==
  LET b == LowerBytes(s) IN
  \E i \in 1 .. Len(b) - SeqLen :
    LET w == Substring(b, i, SeqLen)
    IN  Ascending(w) \/ Descending(w) \/ OnRow(w)

(* Mutant: only the end of the password is looked at.                      *)
HasSequenceAtEnd(s) ==
  LET b == LowerBytes(s) IN
  \E i \in {Len(b) - SeqLen + 1} \cap 1 .. Len(b) :
    LET w == Substring(b, i, SeqLen)
    IN  Ascending(w) \/ Descending(w) \/ OnRow(w)

HasSequence(s) ==
  LET b == LowerBytes(s) IN
  \E i \in 1 .. Len(b) - SeqLen + 1 :
    LET w == Substring(b, i, SeqLen)
    IN  Ascending(w) \/ Descending(w) \/ OnRow(w)

-----------------------------------------------------------------------------
(* Mutant: the last copy is not compared.                                  *)
RepeatsShort(b, i, k) ==
  Max({1} \cup {r \in 2 .. (Len(b) - i) \div k :
                  \A j \in 1 .. r - 1 : Substring(b, i + j * k, k) = Substring(b, i, k)})

(* hasRepetitivePatterns: copies of the k bytes at i that follow each other*)
(* from i on, counted up to the first difference or the end.               *)
Repeats(b, i, k) ==
  Max({1} \cup {r \in 2 .. (Len(b) - i + 1) \div k :
                  \A j \in 1 .. r - 1 : Substring(b, i + j * k, k) = Substring(b, i, k)})

HasRepetitivePatterns(s) ==
  LET b == Bytes(s) IN
  \E k \in 1 .. MaxPeriod : \E i \in 1 .. Len(b) - 3 * k + 1 :
    Repeats(b, i, k) * k >= RepLen

(* containsPersonalData: a part of the name, the email, or what is before  *)
(* its "@".                                                                *)
ContainsPersonalData(s) ==
  LET b == LowerBytes(s) IN
  \/ \E part \in NameParts : Len(part) >= MinWord /\ ContainsBytes(b, part)
  \/ Email # <<>> /\ ContainsBytes(b, Email)
  \/ Len(Prefix) >= MinWord /\ ContainsBytes(b, Prefix)

-----------------------------------------------------------------------------
HasClass(s, class) == \E i \in DOMAIN s : s[i] \in class

(* Mutant: the length is that of the Go string, in bytes.                  *)
LocalCheckBytes(s) ==
  IF Len(Bytes(s)) < MinLen THEN "short"
  ELSE IF Len(Bytes(s)) > MaxLen THEN "long"
  ELSE IF \E class \in {IsLower, IsUpper, IsDigit} : ~HasClass(s, class) THEN "complexity"
  ELSE IF \/ LowerBytes(s) \in Common
          \/ HasSequence(s)
          \/ HasRepetitivePatterns(s)
          \/ ContainsPersonalData(s) THEN "weak"
  ELSE "ok"

(* The checks before the leak service; "ok" asks it.                       *)
LocalCheck(s) ==
  IF Len(s) < MinLen THEN "short"
  ELSE IF Len(s) > MaxLen THEN "long"
  ELSE IF \E class \in {IsLower, IsUpper, IsDigit} : ~HasClass(s, class) THEN "complexity"
  ELSE IF \/ LowerBytes(s) \in Common
          \/ HasSequence(s)
          \/ HasRepetitivePatterns(s)
          \/ ContainsPersonalData(s) THEN "weak"
  ELSE "ok"

(* Mutant: the error of the leak service is returned.                      *)
ValidateFailingClosed(s, hibp) ==
  IF LocalCheck(s) = "ok" /\ hibp # "clean" THEN hibp ELSE LocalCheck(s)

(* checkHIBP answers "clean" or "pwned", or fails; a failure is only logged*)
ValidatePasswordSecure(s, hibp) ==
  IF LocalCheck(s) = "ok" /\ hibp = "pwned" THEN "pwned" ELSE LocalCheck(s)

-----------------------------------------------------------------------------
Init == typed = <<>> /\ verdict = "none"

Type(c) ==
  /\ Len(typed) <= MaxLen
  /\ typed' = Append(typed, c)
  /\ verdict' = "none"

Submit(hibp) ==
  /\ verdict' = ValidatePasswordSecure(typed, hibp)
  /\ UNCHANGED typed

Next ==
  \/ \E c \in Char : Type(c)
  \/ \E hibp \in {"clean", "pwned", "error"} : Submit(hibp)

Spec == Init /\ [][Next]_vars

-----------------------------------------------------------------------------
(* References.                                                             *)

(* The orders a sequence may follow, as the pairs of their neighbours.     *)
Upward == {<<x, x + 1>> : x \in 0 .. 254}
Downward == {<<x + 1, x>> : x \in 0 .. 254}
Rightward(row) == {<<row[i], row[i + 1]>> : i \in 1 .. Len(row) - 1}
Leftward(row) == {<<row[i + 1], row[i]>> : i \in 1 .. Len(row) - 1}

Order ==
  {Upward, Downward} \cup {Rightward(row) : row \in Rows}
                     \cup {Leftward(row) : row \in Rows}

(* The length of the run that ends at each byte, in one pass.              *)
Runs(b, order) ==
  LET run[i \in 1 .. Len(b)] ==
        IF i > 1 /\ <<b[i - 1], b[i]>> \in order THEN run[i - 1] + 1 ELSE 1
  IN  run

IsSequential(s) ==
  LET b == LowerBytes(s)
  IN  \E order \in Order : \E i \in 1 .. Len(b) : Runs(b, order)[i] >= SeqLen

IsPeriodic(s) ==
  LET b == Bytes(s)
      len(k) == ((RepLen + k - 1) \div k) * k
  IN  \E k \in 1 .. MaxPeriod : \E i \in 1 .. Len(b) - len(k) + 1 :
        \A j \in i .. i + len(k) - k - 1 : b[j] = b[j + k]

-----------------------------------------------------------------------------
(* Properties.                                                             *)

(* hasSequence finds a password exactly when some run of it, in letter,    *)
(* number or keyboard order and either way, is long enough, wherever the   *)
(* run lies and whatever multi-byte characters precede it.                 *)
SequenceCheckExact == HasSequence(typed) <=> IsSequential(typed)

(* hasRepetitivePatterns finds a password exactly when some stretch of it  *)
(* of RepLen bytes, rounded up to whole patterns, has a period of at most  *)
(* MaxPeriod: its outer loop, which needs room for three patterns, and its *)
(* inner one, which stops at the first difference, miss none.              *)
RepetitionCheckExact == HasRepetitivePatterns(typed) <=> IsPeriodic(typed)

(* Every verdict is the right one whether or not the leak service answers: *)
(* what it is asked about, and what is accepted, is a password of the right*)
(* length in characters with the three classes and no pattern, and a       *)
(* failure of the service refuses nobody.                                  *)
VerdictExact ==
  verdict # "none" =>
    (verdict \in {"ok", "pwned"} <=>
       /\ Len(typed) \in MinLen .. MaxLen
       /\ {IsLower, IsUpper, IsDigit} =
            {class \in {IsLower, IsUpper, IsDigit} : ToSet(typed) \cap class # {}}
       /\ ~IsSequential(typed) /\ ~IsPeriodic(typed) /\ ~ContainsPersonalData(typed))

(* Typing more never cures a weak password: it stays weak until it is too  *)
(* long.  (The list of common passwords would break this, being compared   *)
(* with the whole password, if it held one of the minimum length.)         *)
WeakStaysWeak ==
  [][LocalCheck(typed) = "weak" => LocalCheck(typed') \in {"weak", "long"}]_vars

=============================================================================
