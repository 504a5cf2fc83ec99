------------------------------- MODULE Environ -------------------------------
(***************************************************************************)
(* environ/environ.go: a dotenv file, which the program writes (Write) or   *)
(* somebody edits, and the environment of the process, into which the       *)
(* program loads it (LoadDotenv, AdvancedLoadDotenv) and from which it       *)
(* reads (GetString, GetInt).                                               *)
(*                                                                         *)
(* A string is a sequence of characters, but only of those the parser tells *)
(* apart; a line is its key and what follows the "=".  Left out are blanks,  *)
(* "export", colons instead of "=", braces and parentheses around names,     *)
(* carriage returns and two characters that are escaped like a quote.        *)
(***************************************************************************)
EXTENDS Integers, SequencesExt

CONSTANTS Chars,     \* characters of values that are written
          MaxInt,    \* the greatest int; the least one is -MaxInt - 1
          MaxLine,   \* the longest line that bufio.Scanner reads
          MaxLen,    \* bound: length of these values
          Edits,     \* lines that may be in a file edited by hand
          MaxLines,  \* bound: lines of such a file
          MaxLoads   \* bound: calls of the load functions

\* Some characters by name, since they are hard to write down.
Backslash == "bs"
Newline   == "nl"
Quote     == "dq"
Single    == "sq"
Dollar    == "dollar"
Hash      == "hash"
Plus      == "plus"
Minus     == "minus"
Digits    == <<"0", "1">>
NameChars == {"A", "B"} \cup ToSet(Digits)

KeyA == <<"A">>
KeyB == <<"B">>
Keys == {KeyA, KeyB}

\* In the place of a key: a comment or an empty line, a line without "="; raw is then
\* the whole line.
Comment == <<"comment">>
NoKey   == <<"nokey">>

Line(key, raw) == [key |-> key, raw |-> raw]

ASSUME EditsAssumption == \A e \in Edits : e.key \in Keys \cup {Comment, NoKey}
ASSUME MaxIntAssumption == MaxInt \in Nat
ASSUME MaxLineAssumption == MaxLine \in Nat
ASSUME BoundsAssumption == {MaxLen, MaxLines} \subseteq Nat /\ MaxLoads \in Nat \ {0}

VARIABLES
  present,  \* does the file exist?
  lines,    \* its lines
  written,  \* ghost: the map it was written from, empty if it was edited
  env,      \* the environment of the process; its domain: the variables that are set
  loads,    \* bound: calls of the load functions so far
  last      \* ghost: what was done last, "change" of the file or a "load" of it, or one
            \* that had to set everything in it, "full"

vars == <<present, lines, written, env, loads, last>>

-----------------------------------------------------------------------------
(* Plausible mistakes, each in the place of the definition it is named after. *)

BackslashLast  == <<Quote, Dollar, Newline, Backslash>>
ErrorIgnored(p) == FALSE
NoZeroLeft(v)  == LET ones == {i \in 1 .. Len(v) : v[i] # "0"}
                  IN  IF ones = {} THEN <<>> ELSE SubSeq(v, Min(ones), Len(v))

-----------------------------------------------------------------------------
(* Numbers.                                                                 *)

IsSigned(v) == v # <<>> /\ v[1] \in {Plus, Minus}

Unsigned(v) == IF IsSigned(v) THEN SubSeq(v, 2, Len(v)) ELSE v

IsNegative(v) == v # <<>> /\ v[1] = Minus

Magnitude(d) == FoldLeft(LAMBDA n, c : 10 * n + (IF c = "1" THEN 1 ELSE 0), 0, d)

Atoi(v) == IF IsNegative(v) THEN -Magnitude(Unsigned(v)) ELSE Magnitude(Unsigned(v))

\* strconv.Atoi succeeds: there are only digits behind the sign, and the number is in range.
IsNumber(v) ==
  /\ Unsigned(v) # <<>>
  /\ ToSet(Unsigned(v)) \subseteq ToSet(Digits)
  /\ Atoi(v) \in -MaxInt - 1 .. MaxInt

\* No zeros at the front
Stripped(d) ==
  LET kept == {i \in 1 .. Len(d) : d[i] # "0"} \cup {Len(d)}
  IN  SubSeq(d, Min(kept), Len(d))

\* "%d" of the number
Decimal(v) ==
  LET d == Stripped(Unsigned(v))
  IN  IF IsNegative(v) /\ d # <<"0">> THEN <<Minus>> \o d ELSE d

-----------------------------------------------------------------------------
(* Replacing parts of a string.                                             *)

\* What s becomes when all matches of a string or a regular expression are replaced,
\* from left to right: Takes(i) says how many characters the match that begins at i
\* takes, 0 if none does, and Gives(i) what it is replaced by.
Scan(s, Takes(_), Gives(_)) ==
  LET from[i \in 1 .. Len(s) + 1] ==
        IF i = Len(s) + 1 THEN <<>>
        ELSE IF Takes(i) > 0 THEN Gives(i) \o from[i + Takes(i)]
        ELSE <<s[i]>> \o from[i + 1]
  IN  from[1]

-----------------------------------------------------------------------------
(* Marshal and what it calls.                                               *)

\* doubleQuoteSpecialChars, in the order in which they are replaced
SpecialChars == <<Backslash, Newline, Quote, Dollar>>

Escaped(c) == <<Backslash, IF c = Newline THEN "n" ELSE c>>

\* strings.Replace(line, c, escaped, -1)
Replaced(v, c) ==
  Scan(v, LAMBDA i : IF v[i] = c THEN 1 ELSE 0, LAMBDA i : Escaped(c))

DoubleQuoteEscape(v) == FoldLeft(Replaced, v, SpecialChars)

\* One line per key, in the order of the keys.
Marshal(m) ==
  LET raw(v) == IF IsNumber(v) THEN Decimal(v)
                ELSE <<Quote>> \o DoubleQuoteEscape(v) \o <<Quote>>
      of(k)  == IF k \in DOMAIN m THEN <<Line(k, raw(m[k]))>> ELSE <<>>
  IN  of(KeyA) \o of(KeyB)

-----------------------------------------------------------------------------
(* Parse and what it calls.                                                 *)

IsIgnoredLine(l) == l.key = Comment

\* escapeRegex: a backslash and the character behind it
ExpandNewlines(s) ==
  Scan(s, LAMBDA i : IF s[i] = Backslash /\ i < Len(s) THEN 2 ELSE 0,
          LAMBDA i : IF s[i + 1] = "n" THEN <<Newline>> ELSE SubSeq(s, i, i + 1))

\* unescapeCharsRegex: a backslash and anything but a dollar sign behind it
Unescape(s) ==
  Scan(s, LAMBDA i : IF s[i] = Backslash /\ i < Len(s) /\ s[i + 1] # Dollar THEN 2 ELSE 0,
          LAMBDA i : <<s[i + 1]>>)

\* The end of the name that begins at i, i - 1 if none does
NameEnd(s, i) ==
  LET others == {j \in i .. Len(s) : s[j] \notin NameChars}
  IN  Min(others \cup {Len(s) + 1}) - 1

\* expandVarRegex: $NAME becomes the value of NAME, empty if it has none; behind a
\* backslash it stays, without the backslash.
ExpandVariables(s, m) ==
  LET escaped(i) == s[i] = Backslash /\ i < Len(s) /\ s[i + 1] = Dollar
      end(i)     == NameEnd(s, IF escaped(i) THEN i + 2 ELSE i + 1)
      name(i)    == SubSeq(s, i + 1, end(i))
  IN  Scan(s, LAMBDA i : IF escaped(i) \/ s[i] = Dollar THEN end(i) + 1 - i ELSE 0,
              LAMBDA i : IF escaped(i) THEN SubSeq(s, i + 1, end(i))
                         ELSE IF name(i) = <<>> THEN <<Dollar>>
                         ELSE IF name(i) \in DOMAIN m THEN m[name(i)] ELSE <<>>)

IsQuoted(v, q) == v[1] = q /\ v[Len(v)] = q

ParseValue(v, m) ==
  LET single == IsQuoted(v, Single)
      double == IsQuoted(v, Quote)
      inner  == IF single \/ double THEN SubSeq(v, 2, Len(v) - 1) ELSE v
      plain  == IF double THEN Unescape(ExpandNewlines(inner)) ELSE inner
  IN  IF Len(v) <= 1 THEN v
      ELSE IF single THEN plain ELSE ExpandVariables(plain, m)

\* strings.Split(v, "#")
Segments(v) ==
  LET step(segs, c) == IF c = Hash THEN Append(segs, <<>>)
                       ELSE [segs EXCEPT ![Len(segs)] = Append(@, c)]
  IN  FoldLeft(step, <<<<>>>>, v)

\* Ditch the comments, keep quoted hashes: a segment with one quote of a kind opens or
\* closes the quotes.
StripComment(v) ==
  LET count(s, q) == Cardinality({i \in DOMAIN s : s[i] = q})
      turns(s)    == count(s, Quote) = 1 \/ count(s, Single) = 1
      step(a, s)  ==
        LET kept == IF turns(s) /\ a.open THEN Append(a.kept, s) ELSE a.kept
            open == IF turns(s) THEN ~a.open ELSE a.open
        IN  [open |-> open, kept |-> IF kept = <<>> \/ open THEN Append(kept, s) ELSE kept]
      kept == FoldLeft(step, [open |-> FALSE, kept |-> <<>>], Segments(v)).kept
  IN  IF Hash \notin ToSet(v) THEN v
      ELSE FoldLeft(LAMBDA a, s : a \o <<Hash>> \o s, Head(kept), Tail(kept))

\* parseLine: "can't separate key from value"
IsBad(l) == l.key = NoKey

\* envMap[key] = value
Put(m, key, value) ==
  [k \in DOMAIN m \cup {key} |-> IF k = key THEN value ELSE m[k]]

\* The loop of Parse stops at the first error, and returns what it has until then as well.
ParseLines(ls) ==
  LET step(p, l) ==
        IF p.err \/ IsIgnoredLine(l) THEN p
        ELSE IF IsBad(l) THEN [p EXCEPT !.err = TRUE]
        ELSE [p EXCEPT !.map = Put(@, l.key, ParseValue(StripComment(l.raw), @))]
  IN  FoldLeft(step, [map |-> <<>>, err |-> FALSE], ls)

LineLen(l) == Len(l.raw) + IF l.key \in Keys THEN Len(l.key) + 1 ELSE 0

\* scanner.Err() is nil: no line is longer than the buffer of the scanner.
Readable(ls) == \A n \in DOMAIN ls : LineLen(ls[n]) <= MaxLine

\* All lines are read before the first is parsed.
Parse(ls) ==
  IF Readable(ls) THEN ParseLines(ls) ELSE [map |-> <<>>, err |-> TRUE]

-----------------------------------------------------------------------------
(* Reading the environment: a default stands for what the types of default  *)
(* values are converted to.                                                 *)

GetString(key, default) ==
  IF key \in DOMAIN env /\ env[key] # <<>> THEN env[key] ELSE default

GetInt(key, default) ==
  IF key \in DOMAIN env /\ IsNumber(env[key]) THEN Atoi(env[key]) ELSE default

-----------------------------------------------------------------------------
Init ==
  /\ present = FALSE
  /\ lines = <<>>
  /\ written = <<>>
  /\ env \in {<<>>, [k \in {KeyA} |-> <<"x">>]}
  /\ loads = 0
  /\ last = "none"

\* Write(m, file). The bounds: only as the first operation, with one load to come.
Write(m) ==
  /\ ~present
  /\ present' = TRUE
  /\ lines' = Marshal(m)
  /\ written' = m
  /\ last' = "change"
  /\ loads' = MaxLoads - 1
  /\ UNCHANGED env

\* Somebody edits the file. The bounds: not twice without a load, and with one to come.
Edit(ls) ==
  /\ written = <<>>
  /\ last # "change"
  /\ loads < MaxLoads
  /\ present' = TRUE
  /\ lines' = ls
  /\ last' = "change"
  /\ UNCHANGED <<written, env, loads>>

\* loadFile returns before it sets anything.
Failed(p) == p.err

\* LoadDotenv(file), or AdvancedLoadDotenv(file, nil, override)
LoadFile(override) ==
  LET p      == Parse(lines)
      set(k) == k \in DOMAIN p.map /\ (k \notin DOMAIN env \/ override)
  IN  /\ loads < MaxLoads
      /\ loads' = loads + 1
      /\ env' = IF ~present \/ Failed(p) THEN env
                ELSE [k \in DOMAIN env \cup DOMAIN p.map |->
                        IF set(k) THEN p.map[k] ELSE env[k]]
      /\ last' = IF override \/ env = <<>> THEN "full" ELSE "load"
      /\ UNCHANGED <<present, lines, written>>

\* What is written to the file.
Maps == {[k \in Keys |-> IF k = KeyA THEN <<"x">> ELSE v] : v \in BoundedSeq(Chars, MaxLen)}

Next ==
  \/ \E m \in Maps : Write(m)
  \/ \E ls \in BoundedSeq(Edits, MaxLines) : Edit(ls)
  \/ \E override \in BOOLEAN : LoadFile(override)

Spec == Init /\ [][Next]_vars

-----------------------------------------------------------------------------
(* Properties.                                                              *)

IsReadBack == last = "full" /\ written # <<>> /\ Readable(lines)

\* The values that do not come back: a number with zeros at the front, with a plus sign or
\* "-0", and a hash together with a quote, which may be taken for a comment.
IsLossy(v) ==
  \/ IsNumber(v) /\ Decimal(v) # v
  \/ Hash \in ToSet(v) /\ {Quote, Single} \cap ToSet(v) # {}

\* What Write stores and the load functions read back reaches GetString unchanged,
\* through escaping, the two stages of unescaping, the expansion of variables and the
\* stripping of comments, for every other value, unless one of the lines that Write makes
\* is too long for the scanner: nothing of the file is read then (LoadAsSpecified).
RoundTrip ==
  IsReadBack =>
    \A k \in DOMAIN written :
      ~IsLossy(written[k]) => GetString(k, <<>>) = written[k]

\* A number keeps its value for GetInt, whatever its sign and its zeros.
NumbersKept ==
  IsReadBack =>
    \A k \in DOMAIN written :
      IsNumber(written[k]) => GetInt(k, Atoi(written[k]) + 1) = Atoi(written[k])

\* The value a key has in a file, said by its lines: that of the last line for it, in
\* which a name stands for the last line for that name among those before.
Meaning(ls) ==
  LET before(k, n)  == {j \in 1 .. n - 1 : ls[j].key = k}
      keysBefore(n) == {k \in Keys : before(k, n) # {}}
      value[n \in DOMAIN ls] ==
        ParseValue(StripComment(ls[n].raw),
                   [k \in keysBefore(n) |-> value[Max(before(k, n))]])
      end == Len(ls) + 1
  IN  [k \in keysBefore(end) |-> value[Max(before(k, end))]]

\* A load means what the lines say: it sets every key of the file to its value, keeps
\* what is set already unless it may override ("does not override the environment",
\* the comment on LoadDotenv), and sets nothing at all when a line is bad, even though
\* Parse returns the lines before it, or too long to be read, be it a comment.
LoadAsSpecified ==
  [][\A override \in BOOLEAN :
       LoadFile(override) =>
         LET m == Meaning(lines)
             bad == ~Readable(lines) \/ \E n \in DOMAIN lines : lines[n].key = NoKey
             over(f, g) == [k \in DOMAIN f \cup DOMAIN g |->
                              IF k \in DOMAIN f THEN f[k] ELSE g[k]]
             both == IF override THEN over(m, env) ELSE over(env, m)
         IN  env' = IF present /\ ~bad THEN both ELSE env]_vars
=============================================================================
