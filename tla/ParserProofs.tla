---------------------------- MODULE ParserProofs ----------------------------
(***************************************************************************)
(* ParseArgs, for every parser tree, every command line and every number   *)
(* of calls.                                                               *)
(*                                                                         *)
(* The properties of ArgumentParser speak of a call that is over; what is  *)
(* inductive is what they say of the chunks up to the iterator and of the  *)
(* options given so far, with the exceptions for the bundle and the value  *)
(* at hand.                                                                *)
(***************************************************************************)
EXTENDS ArgumentParser, FiniteSetTheorems, TLAPS

----------------------------------------------------------------------------
(* Sequences and places. *)

LEMMA SequenceFacts ==
  ASSUME NEW s, IsSequence(s)
  PROVE  Len(s) \in Nat /\ DOMAIN s = 1 .. Len(s)
  BY SMT DEF IsSequence

LEMMA AppendFacts ==
  ASSUME NEW s, IsSequence(s), NEW e
  PROVE  /\ IsSequence(Append(s, e)) /\ Len(Append(s, e)) = Len(s) + 1
         /\ \A i \in DOMAIN s : Append(s, e)[i] = s[i]
         /\ Append(s, e)[Len(s) + 1] = e
<1> DEFINE S == {s[i] : i \in DOMAIN s} \cup {e}
           a == Append(s, e)
<1>1. s \in Seq(S) /\ e \in S
  <2>1. s \in Seq({s[i] : i \in DOMAIN s})
    BY DEF IsSequence
  <2> QED BY <2>1, SMT
<1>2. /\ a \in Seq(S) /\ Len(a) = Len(s) + 1 /\ a[Len(s) + 1] = e
      /\ \A i \in 1 .. Len(s) : a[i] = s[i]
      /\ DOMAIN s = 1 .. Len(s)
  <2> HIDE DEF S
  <2> QED BY <1>1, SMT
<1> HIDE DEF S, a
<1>3. a \in Seq({a[i] : i \in DOMAIN a})
  BY <1>2, SMT
<1> QED BY <1>2, <1>3 DEF IsSequence, a

LEMMA EmptyFacts == IsSequence(<<>>) /\ Len(<<>>) = 0 /\ DOMAIN <<>> = {}
  BY SMT DEF IsSequence

\* A nonempty set of places has a least one.
LEMMA LeastFacts ==
  ASSUME NEW S, S \subseteq Nat, S # {}
  PROVE  Least(S) \in S /\ \A j \in S : Least(S) <= j
<1>1. PICK x \in S : \A y \in S : ~(<<y, x>> \in OpToRel(<, Nat))
  BY NatLessThanWellFounded, WFMin, Zenon
<1>2. \A y \in S : <<y, x>> \in OpToRel(<, Nat) <=> y < x
  BY DEF OpToRel
<1>3. \A y \in S : ~(y < x)
  BY <1>1, <1>2, Zenon
<1>4. \A y \in S : x <= y
  BY ONLY <1>3, x \in S, S \subseteq Nat, SMT
<1> QED BY <1>4, Zenon DEF Least

\* The classes of options do not overlap where ParseArgs tells them apart.
LEMMA Classes ==
  /\ Flags \cap Positionals = {}
  /\ ValueFlags \subseteq Flags
  /\ {"HelpFlag", "CounterFlag"} \subseteq Flags \ ValueFlags
  /\ "CounterFlag" \notin Lists /\ "HelpFlag" \notin Lists
  /\ Lists \ Positionals = {"ValueFlagList", "MapFlagList"}
  /\ Lists \ Flags = {"PositionalList", "MapPositionalList"}
  /\ Singles \cap Lists = {}
  /\ {"ValueFlagList", "MapFlagList"} \subseteq ValueFlags
  BY Zenon DEF Flags, Positionals, ValueFlags, Lists, Singles

\* What ParsersAssumption says of the parser at hand.
LEMMA ParserFacts ==
  ASSUME parser \in DOMAIN Parsers
  PROVE  /\ DOMAIN Flat \subseteq Nat
         /\ \A i \in DOMAIN Flat : Flat[i] \in Opt
         /\ \A i, j \in DOMAIN Flat : Flat[i] = Flat[j] => i = j
         /\ \A line \in CommandLines : IsSequence(line)
         /\ \A o \in Opt :
              /\ Kind(o) \in Flags \cup Positionals
              /\ Kind(o) \in Lists => IsSequence(Options[o].default)
              /\ Kind(o) = "CounterFlag" => Options[o].default \in Int
              /\ Kind(o) \in Singles /\ Options[o].type = "int" =>
                   Options[o].default \in Int
<1>1. Flat \in Seq(Opt)
  BY ParsersAssumption DEF Flat, Opt, Options
<1>2. DOMAIN Flat \subseteq Nat /\ \A i \in DOMAIN Flat : Flat[i] \in Opt
  BY <1>1, SMT
<1>3. \A i, j \in DOMAIN Flat : Flat[i] = Flat[j] => i = j
  BY ParsersAssumption, Zenon DEF Flat
<1>4. \A line \in CommandLines : IsSequence(line)
  BY ParsersAssumption, Zenon DEF CommandLines
<1>5. \A o \in Opt :
        /\ Kind(o) \in Flags \cup Positionals
        /\ Kind(o) \in Lists => IsSequence(Options[o].default)
        /\ Kind(o) = "CounterFlag" => Options[o].default \in Int
        /\ Kind(o) \in Singles /\ Options[o].type = "int" =>
             Options[o].default \in Int
  BY ParsersAssumption, Zenon DEF Opt, Kind, Options
<1> QED BY <1>2, <1>3, <1>4, <1>5, Zenon

\* The first of some places of the tree is an option that stands there, and no
\* earlier place is one of them.
LEMMA FirstFacts ==
  ASSUME parser \in DOMAIN Parsers, NEW S, S \subseteq DOMAIN Flat, S # {}
  PROVE  \E k \in S : First(S) = Flat[k] /\ Flat[k] \in Opt /\ \A j \in S : k <= j
<1>1. S \subseteq Nat
  BY ParserFacts, Zenon
<1>2. Least(S) \in S /\ \A j \in S : Least(S) <= j
  BY <1>1, LeastFacts, Zenon
<1> QED BY <1>2, ParserFacts, Zenon DEF First

----------------------------------------------------------------------------
(* The ParseValue functions. *)

\* operator>> gives an int.
LEMMA ExtractedInt ==
  ASSUME NEW t
  PROVE  Extracted(t) \in Int
<1>1. CASE HasNumeral(t)
  <2>1. Number[t[Sign(t) + 1]] \in Nat /\ IntMax \in Nat
    BY <1>1, ParsersAssumption, Zenon DEF HasNumeral
  <2> QED BY <1>1, <2>1, SMT DEF Extracted
<1>2. CASE ~HasNumeral(t)
  BY <1>2, SMT DEF Extracted
<1> QED BY <1>1, <1>2

\* What ValueReader leaves in an int is an int when the destination held one.
LEMMA ReaderFacts ==
  ASSUME NEW o, NEW t, NEW before, NEW r \in ValueReader(o, t, before)
  PROVE  /\ r.ok \in BOOLEAN
         /\ Options[o].type # "string" /\ before \subseteq Int => r.v \in Int
<1>1. CASE Options[o].type = "string"
  <2>1. r = [ok |-> TRUE, v |-> t]
    BY <1>1, Zenon DEF ValueReader
  <2> QED BY <1>1, <2>1, Zenon
<1>2. CASE Options[o].type # "string" /\ t = <<>>
  <2>1. PICK b \in before : r = [ok |-> TRUE, v |-> b]
    BY <1>2, Zenon DEF ValueReader
  <2>2. r.ok = TRUE /\ r.v = b
    BY <2>1, Zenon
  <2> QED BY <2>2, Zenon
<1>3. CASE Options[o].type # "string" /\ t # <<>>
  <2>1. r = [ok |-> Consumed(t) = Len(t), v |-> Extracted(t)]
    BY <1>3, Zenon DEF ValueReader
  <2> QED BY <1>3, <2>1, ExtractedInt, Zenon
<1> QED BY <1>1, <1>2, <1>3, Zenon

\* What the ParseValue of option o may leave behind: it is matched unless the
\* exception comes, a positional with one value is then not ready, a list has
\* one element more, an int is an int.
Left(o, p) ==
  /\ p.matched \in BOOLEAN /\ p.ready \in BOOLEAN
  /\ p.error \in {"none", "ParseError", "MapError"}
  /\ p.matched <=> matched[o] \/ p.error = "none"
  /\ Kind(o) \in Positionals \ Lists => (p.ready <=> p.error # "none")
  /\ Kind(o) \notin Positionals \ Lists => p.ready = ready[o]
  /\ Kind(o) \in Lists =>
       /\ IsSequence(p.value)
       /\ p.error = "none" => Len(p.value) = Len(value[o]) + 1
  /\ Kind(o) \in Singles /\ Options[o].type = "int" => p.value \in Int

\* The marks and the exception, of a flag or a list and of a positional.
LEMMA ParsedFacts ==
  ASSUME NEW o, matched[o] \in BOOLEAN, ready[o] \in BOOLEAN,
         NEW ok \in BOOLEAN, NEW ex \in {"ParseError", "MapError"}, NEW v,
         NEW p, p = Parsed(o, ok, ex, v)
  PROVE  /\ p.matched \in BOOLEAN /\ p.ready = ready[o] /\ p.value = v
         /\ p.error \in {"none", "ParseError", "MapError"}
         /\ p.error = "none" <=> ok
         /\ p.matched <=> matched[o] \/ p.error = "none"
         /\ p = [value |-> p.value, matched |-> p.matched, ready |-> p.ready,
                 error |-> p.error]
<1>1. p = [value |-> p.value, matched |-> p.matched, ready |-> p.ready,
           error |-> p.error]
  BY Zenon DEF Parsed
<1>2. /\ p.value = v /\ p.ready = ready[o] /\ p.matched = (matched[o] \/ ok)
      /\ p.error = (IF ok THEN "none" ELSE ex)
  BY Zenon DEF Parsed
<1>3. CASE ok
  BY <1>1, <1>2, <1>3, Zenon
<1>4. CASE ~ok
  BY <1>1, <1>2, <1>4, Zenon
<1> QED BY <1>3, <1>4, Zenon

LEMMA FilledFacts ==
  ASSUME NEW o, matched[o] \in BOOLEAN, ready[o] \in BOOLEAN,
         NEW ok \in BOOLEAN, NEW ex \in {"ParseError", "MapError"}, NEW v,
         NEW p, p = Filled(Parsed(o, ok, ex, v))
  PROVE  /\ p.matched \in BOOLEAN /\ p.ready \in BOOLEAN /\ p.value = v
         /\ p.error \in {"none", "ParseError", "MapError"}
         /\ p.error = "none" <=> ok
         /\ p.matched <=> matched[o] \/ p.error = "none"
         /\ p.ready <=> p.error # "none"
<1>1. PICK q : q = Parsed(o, ok, ex, v)
  BY Zenon
<1>2. /\ q.matched \in BOOLEAN /\ q.value = v
      /\ q.error \in {"none", "ParseError", "MapError"}
      /\ q.error = "none" <=> ok
      /\ q.matched <=> matched[o] \/ q.error = "none"
      /\ q = [value |-> q.value, matched |-> q.matched, ready |-> q.ready,
              error |-> q.error]
  BY <1>1, ParsedFacts
<1>3. p = [q EXCEPT !.ready = q.error # "none"]
  BY <1>1, Zenon DEF Filled
<1>4. p = [value |-> q.value, matched |-> q.matched,
           ready |-> q.error # "none", error |-> q.error]
  BY <1>2, <1>3
<1>5. /\ p.value = q.value /\ p.matched = q.matched /\ p.error = q.error
      /\ p.ready = (q.error # "none")
  BY <1>4
<1> QED BY <1>2, <1>5, Zenon

\* A value that is appended, or not.
LEMMA ListLeft ==
  ASSUME NEW o, IsSequence(value[o]), NEW ok \in BOOLEAN, NEW e, NEW v,
         v = IF ok THEN Append(value[o], e) ELSE value[o]
  PROVE  IsSequence(v) /\ (ok => Len(v) = Len(value[o]) + 1)
<1>1. CASE ok
  BY <1>1, AppendFacts
<1>2. CASE ~ok
  BY <1>2
<1> QED BY <1>1, <1>2

LEMMA LookupFacts ==
  ASSUME NEW o, NEW r, r.ok \in BOOLEAN
  PROVE  Found(o, r) \in BOOLEAN /\ LookupError(r) \in {"ParseError", "MapError"}
  BY Zenon DEF Found, LookupError

\* Every class leaves behind what Left says.
LEMMA ParseValueFacts ==
  ASSUME NEW o, Kind(o) \in ValueFlags \cup Positionals,
         matched[o] \in BOOLEAN, ready[o] \in BOOLEAN,
         Kind(o) \in Lists => IsSequence(value[o]),
         Kind(o) \in Singles /\ Options[o].type = "int" => value[o] \in Int,
         NEW t, NEW p \in ParseValue(o, t)
  PROVE  Left(o, p)
<1>1. CASE Kind(o) \in Singles
  <2>1. PICK r \in ValueReader(o, t, {value[o]}) :
          p = IF Kind(o) = "ValueFlag" THEN Parsed(o, r.ok, "ParseError", r.v)
              ELSE Filled(Parsed(o, r.ok, "ParseError", r.v))
    BY <1>1, Zenon DEF ParseValue, ValueFlag, Positional, Singles
  <2>2. /\ r.ok \in BOOLEAN
        /\ Options[o].type = "int" => r.v \in Int
    BY <1>1, ReaderFacts
  <2>3. CASE Kind(o) = "ValueFlag"
    <3>1. p = Parsed(o, r.ok, "ParseError", r.v)
      BY <2>1, <2>3, Zenon
    <3>2. "ParseError" \in {"ParseError", "MapError"}
      BY Zenon
    <3>3. /\ p.matched \in BOOLEAN /\ p.ready = ready[o] /\ p.value = r.v
          /\ p.error \in {"none", "ParseError", "MapError"}
          /\ p.matched <=> matched[o] \/ p.error = "none"
      BY <2>2, <3>1, <3>2, ParsedFacts
    <3>4. Kind(o) \notin Positionals /\ Kind(o) \notin Lists
      BY <2>3, Zenon DEF Positionals, Lists
    <3> QED BY <2>2, <3>3, <3>4, Zenon DEF Left
  <2>4. CASE Kind(o) = "Positional"
    <3>1. p = Filled(Parsed(o, r.ok, "ParseError", r.v))
      BY <2>1, <2>4, Zenon
    <3>2. "ParseError" \in {"ParseError", "MapError"}
      BY Zenon
    <3>3. /\ p.matched \in BOOLEAN /\ p.ready \in BOOLEAN /\ p.value = r.v
          /\ p.error \in {"none", "ParseError", "MapError"}
          /\ p.matched <=> matched[o] \/ p.error = "none"
          /\ p.ready <=> p.error # "none"
      BY <2>2, <3>1, <3>2, FilledFacts
    <3>4. Kind(o) \in Positionals /\ Kind(o) \notin Lists
      BY <2>4, Zenon DEF Positionals, Lists
    <3> QED BY <2>2, <3>3, <3>4, Zenon DEF Left
  <2> QED BY <1>1, <2>3, <2>4, Zenon DEF Singles
<1>2. CASE Kind(o) \in Lists
  <2>1. PICK r \in ValueReader(o, t, Uninitialised) :
          \E ok, ex, e, v :
            /\ ok \in {r.ok, Found(o, r)} /\ ex \in {"ParseError", LookupError(r)}
            /\ p = Parsed(o, ok, ex, v)
            /\ v = IF ok THEN Append(value[o], e) ELSE value[o]
    <3>1. CASE Kind(o) = "ValueFlagList" \/ Kind(o) = "PositionalList"
      BY <3>1, Zenon DEF ParseValue, ValueFlagList, PositionalList
    <3>2. CASE Kind(o) = "MapFlagList" \/ Kind(o) = "MapPositionalList"
      BY <3>2, Zenon DEF ParseValue, MapFlagList, MapPositionalList
    <3> QED BY <1>2, <3>1, <3>2, Zenon DEF Lists
  <2>2. PICK ok, ex, e, v :
          /\ ok \in {r.ok, Found(o, r)} /\ ex \in {"ParseError", LookupError(r)}
          /\ p = Parsed(o, ok, ex, v)
          /\ v = IF ok THEN Append(value[o], e) ELSE value[o]
    BY <2>1, Zenon
  <2>3. ok \in BOOLEAN /\ ex \in {"ParseError", "MapError"}
    <3>1. r.ok \in BOOLEAN
      BY ReaderFacts
    <3>2. Found(o, r) \in BOOLEAN /\ LookupError(r) \in {"ParseError", "MapError"}
      BY <3>1, LookupFacts
    <3> QED BY <2>2, <3>1, <3>2, Zenon
  <2>4. /\ p.matched \in BOOLEAN /\ p.ready = ready[o] /\ p.value = v
        /\ p.error \in {"none", "ParseError", "MapError"}
        /\ p.error = "none" <=> ok
        /\ p.matched <=> matched[o] \/ p.error = "none"
    BY <2>2, <2>3, ParsedFacts
  <2>5. IsSequence(v) /\ (ok => Len(v) = Len(value[o]) + 1)
    BY <1>2, <2>2, <2>3, ListLeft, Zenon
  <2>6. Kind(o) \notin Singles
    BY <1>2, Classes, Zenon
  <2> QED BY <1>2, <2>4, <2>5, <2>6, Zenon DEF Left
<1>3. CASE Kind(o) \in {"MapFlag", "MapPositional"}
  <2>1. PICK r \in ValueReader(o, t, Uninitialised) :
          \E v : p = IF Kind(o) = "MapFlag"
                     THEN Parsed(o, Found(o, r), LookupError(r), v)
                     ELSE Filled(Parsed(o, Found(o, r), LookupError(r), v))
    BY <1>3, Zenon DEF ParseValue, MapFlag, MapPositional
  <2>2. PICK v : p = IF Kind(o) = "MapFlag"
                     THEN Parsed(o, Found(o, r), LookupError(r), v)
                     ELSE Filled(Parsed(o, Found(o, r), LookupError(r), v))
    BY <2>1
  <2>3. Found(o, r) \in BOOLEAN /\ LookupError(r) \in {"ParseError", "MapError"}
    <3>1. r.ok \in BOOLEAN
      BY ReaderFacts
    <3> QED BY <3>1, LookupFacts
  <2>4. Kind(o) \notin Singles /\ Kind(o) \notin Lists
    BY <1>3, Zenon DEF Singles, Lists
  <2>5. CASE Kind(o) = "MapFlag"
    <3>1. p = Parsed(o, Found(o, r), LookupError(r), v)
      BY <2>2, <2>5, Zenon
    <3>2. /\ p.matched \in BOOLEAN /\ p.ready = ready[o]
          /\ p.error \in {"none", "ParseError", "MapError"}
          /\ p.matched <=> matched[o] \/ p.error = "none"
      BY <2>3, <3>1, ParsedFacts
    <3>3. Kind(o) \notin Positionals
      BY <2>5, Zenon DEF Positionals
    <3> QED BY <2>4, <3>2, <3>3, Zenon DEF Left
  <2>6. CASE Kind(o) = "MapPositional"
    <3>1. p = Filled(Parsed(o, Found(o, r), LookupError(r), v))
      BY <2>2, <2>6, Zenon
    <3>2. /\ p.matched \in BOOLEAN /\ p.ready \in BOOLEAN
          /\ p.error \in {"none", "ParseError", "MapError"}
          /\ p.matched <=> matched[o] \/ p.error = "none"
          /\ p.ready <=> p.error # "none"
      BY <2>3, <3>1, FilledFacts
    <3>3. Kind(o) \in Positionals
      BY <2>6, Zenon DEF Positionals
    <3> QED BY <2>4, <3>2, <3>3, Zenon DEF Left
  <2> QED BY <1>3, <2>5, <2>6, Zenon
<1>4. Kind(o) \in Singles \cup Lists \cup {"MapFlag", "MapPositional"}
  BY Zenon DEF Singles, Lists, ValueFlags, Positionals
<1> QED BY <1>1, <1>2, <1>3, <1>4, Zenon

----------------------------------------------------------------------------
(* The invariant of ParseArgs. *)

\* Where ParseArgs is, and what its variables hold there.
Control ==
  /\ parser \in DOMAIN Parsers
  /\ IsSequence(args) /\ TypeOK /\ DOMAIN value = Opt
  /\ pc # "idle" => result = "none"
  /\ pc = "value" => it \in DOMAIN args /\ Kind(flag) \in Flags

\* The chunks taken so far, and whether the chunk at hand is one of them: a flag
\* in it waits for its value, or it is a bundle that is not finished.
TakenSoFar == {roles[i].at : i \in DOMAIN roles}
Begun == pc = "value" \/ argit > 1

\* Each chunk is taken for one thing, a bundle of flags for several of a kind.
Consistent ==
  /\ IsSequence(roles)
  /\ \A i \in DOMAIN roles :
       roles[i].as \in {"flag", "value", "positional", "terminator"}
  /\ \A i, j \in DOMAIN roles :
       roles[i].at = roles[j].at => roles[i].as = roles[j].as

\* Everything before the chunk at hand has been taken.
ChunksTaken ==
  /\ Consistent
  /\ pc # "idle" =>
       /\ TakenSoFar = 1 .. (IF Begun THEN it ELSE it - 1)
       /\ Begun =>
            /\ it \in DOMAIN args
            /\ \A i \in DOMAIN roles : roles[i].at = it => roles[i].as = "flag"
       /\ argit > 1 \/ (pc = "value" /\ form = "short") => IsShort
  /\ result = "done" => TakenSoFar = DOMAIN args

\* What the options report is about the chunks taken so far; a list waits for
\* the value of the flag at hand.
FlagRoles(o) == {i \in Given(o) : roles[i].as = "flag"}
Report(o) ==
  /\ matched[o] <=> Given(o) # {}
  /\ Kind(o) = "CounterFlag" =>
       value[o] = Options[o].default + Cardinality(Given(o))
  /\ Kind(o) \in Lists \ Flags => Len(value[o]) = Cardinality(Given(o))
  /\ Kind(o) \in Lists \ Positionals =>
       Cardinality(FlagRoles(o)) =
         IF pc = "value" /\ flag = o THEN Len(value[o]) + 1 ELSE Len(value[o])
Reports ==
  /\ pc # "idle" \/ result = "done" => \A o \in Opt : Report(o)
  /\ pc = "value" => matched[flag]

\* The value v of option o is made of the texts ts: a list of all of them, a
\* single value of the last one that leaves something; without such a text it is
\* the default in the first call.
OneValue == Singles \cup SingleMaps
MadeOf(o, ts, v, call) ==
  LET left == {i \in DOMAIN ts : Leaves(o, ts[i])}
  IN /\ Kind(o) \in Lists =>
          Len(v) = Len(ts) /\ \A i \in DOMAIN v : Reads(o, ts[i], v[i])
     /\ Kind(o) \in OneValue =>
          /\ \A i \in left : (\A j \in left : j <= i) => Reads(o, ts[i], v)
          /\ left = {} /\ call = 1 => v = Options[o].default
HasText(o) ==
  matched[o] /\ Kind(o) \in ValueFlags \cup Positionals =>
    texts[o] # <<>> \/ (pc = "value" /\ flag = o)
TextsRead ==
  /\ DOMAIN texts = Opt /\ calls \in Nat
  /\ \A o \in Opt : IsSequence(texts[o])
  /\ calls = 0 => /\ pc = "idle"
                  /\ \A o \in Opt :
                       Kind(o) \in OneValue => value[o] = Options[o].default
  /\ pc # "idle" \/ result = "done" =>
       \A o \in Opt : MadeOf(o, texts[o], value[o], calls) /\ HasText(o)

\* A positional that is not ready has its value and is no list.
Filling ==
  /\ \A o \in Opt :
       Kind(o) \in Positionals /\ ~ready[o] => matched[o] /\ Kind(o) \notin Lists
  /\ PositionalsInOrder

\* Help is thrown by a help flag, the last thing taken.
HelpThrown ==
  result = "Help" =>
    /\ roles # <<>> /\ roles[Len(roles)].opt \in Opt
    /\ Kind(roles[Len(roles)].opt) = "HelpFlag"

ParserInv ==
  Control /\ ChunksTaken /\ Reports /\ TextsRead /\ Filling /\ HelpThrown

----------------------------------------------------------------------------
(* What the actions do, in terms of the invariant. *)

\* The parser at hand stays the same.
LEMMA SameParser ==
  ASSUME parser' = parser
  PROVE  /\ Opt' = Opt /\ Options' = Options /\ Flat' = Flat
         /\ \A o : Kind(o)' = Kind(o)
  BY Zenon DEF Opt, Options, Flat, Kind

\* The types that ParserInv gives.
LEMMA InvTypes ==
  ASSUME Control
  PROVE  /\ parser \in DOMAIN Parsers
         /\ IsSequence(args) /\ Len(args) \in Nat /\ DOMAIN args = 1 .. Len(args)
         /\ it \in 1 .. Len(args) + 1 /\ argit \in Nat \ {0}
         /\ matched \in [Opt -> BOOLEAN] /\ ready \in [Opt -> BOOLEAN]
         /\ DOMAIN value = Opt
         /\ \A o \in Opt :
              /\ matched[o] \in BOOLEAN /\ ready[o] \in BOOLEAN
              /\ Kind(o) \in Lists => IsSequence(value[o])
              /\ Kind(o) \in Singles /\ Options[o].type = "int" => value[o] \in Int
<1>1. Len(args) \in Nat /\ DOMAIN args = 1 .. Len(args)
  BY SequenceFacts DEF Control
<1>2. \A o \in Opt : matched[o] \in BOOLEAN /\ ready[o] \in BOOLEAN
  BY Zenon DEF Control, TypeOK
<1> QED BY <1>1, <1>2, Zenon DEF Control, TypeOK

\* An option takes a value or throws.
LEMMA GiveFacts ==
  ASSUME Control, NEW o \in Opt, Kind(o) \in ValueFlags \cup Positionals,
         NEW t, NEW i, Give(o, t, i)
  PROVE  \E p :
           /\ Left(o, p)
           /\ value' = [value EXCEPT ![o] = p.value]
           /\ matched' = [matched EXCEPT ![o] = p.matched]
           /\ ready' = [ready EXCEPT ![o] = p.ready]
           /\ \/ /\ p.error = "none" /\ it' = i + 1
                 /\ \/ pc' = "idle" /\ result' = "kickout"
                    \/ pc' = "chunk" /\ result' = result
              \/ /\ p.error # "none" /\ it' = i
                 /\ pc' = "idle" /\ result' = p.error
<1>1. PICK p \in ParseValue(o, t) :
        /\ value' = [value EXCEPT ![o] = p.value]
        /\ matched' = [matched EXCEPT ![o] = p.matched]
        /\ ready' = [ready EXCEPT ![o] = p.ready]
        /\ \/ p.error = "none" /\ AfterValue(o, i + 1)
           \/ p.error # "none" /\ Throw(p.error) /\ it' = i
  BY Zenon DEF Give
<1>2. Left(o, p)
  BY InvTypes, ParseValueFacts
<1>3. CASE p.error = "none" /\ AfterValue(o, i + 1)
  <2>1. \/ pc' = "idle" /\ it' = i + 1 /\ result' = "kickout"
        \/ pc' = "chunk" /\ it' = i + 1 /\ result' = result
    BY <1>3, Zenon DEF AfterValue, LeaveAt, NextChunk
  <2> QED BY <1>1, <1>2, <1>3, <2>1, Zenon
<1>4. CASE p.error # "none" /\ Throw(p.error) /\ it' = i
  BY <1>1, <1>2, <1>4, Zenon DEF Throw
<1> QED BY <1>1, <1>3, <1>4, Zenon

\* A name is looked up: it is unknown, or the first flag that has it is matched.
LEMMA LookFacts ==
  ASSUME Control, LongArg \/ ShortArg
  PROVE  /\ AtChunk /\ (IsLong \/ IsShort)
         /\ UNCHANGED <<parser, args, it, argit, terminated, ready, calls>>
         /\ \/ /\ pc' = "idle" /\ result' = "ParseError"
               /\ UNCHANGED <<matched, value, form, flag, joined, roles>>
            \/ \E o \in Opt :
                 /\ Kind(o) \in Flags /\ MatchFlag(o)
                 /\ flag' = o /\ roles' = Append(roles, Role(it, "flag", o))
                 /\ \/ form' = "long"
                    \/ form' = "short" /\ IsShort
<1>1. \E hit, how, rest :
        /\ hit \subseteq {i \in DOMAIN Flat : Kind(Flat[i]) \in Flags}
        /\ how = "long" \/ (how = "short" /\ IsShort)
        /\ Lookup(hit, how, rest) /\ AtChunk /\ (IsLong \/ IsShort)
  <2>1. CASE LongArg
    <3>1. \E hit, rest :
            /\ hit \subseteq {i \in DOMAIN Flat : Kind(Flat[i]) \in Flags}
            /\ Lookup(hit, "long", rest)
      <4> DEFINE argchunk == Tail(Chunk)
                 separators == {i \in DOMAIN argchunk : argchunk[i] = "="}
                 arg == IF separators = {} THEN argchunk
                        ELSE SubSeq(argchunk, 1, Least(separators) - 1)
                 hit == IF Len(arg) = 1 THEN Match("long", arg[1]) ELSE {}
                 rest == IF separators = {} THEN <<>>
                         ELSE <<SubSeq(argchunk, Least(separators) + 1,
                                       Len(argchunk))>>
      <4>1. Lookup(hit, "long", rest)
        BY <2>1, Zenon DEF LongArg
      <4>2. \A x : Match("long", x) \subseteq
                     {i \in DOMAIN Flat : Kind(Flat[i]) \in Flags}
        BY Zenon DEF Match
      <4>3. hit \subseteq {i \in DOMAIN Flat : Kind(Flat[i]) \in Flags}
        <5> HIDE DEF arg
        <5> QED BY <4>2, Zenon
      <4> HIDE DEF hit, rest
      <4> QED BY <4>1, <4>3, Zenon
    <3>2. AtChunk /\ IsLong
      BY <2>1, Zenon DEF LongArg
    <3> QED BY <3>1, <3>2, Zenon
  <2>2. CASE ShortArg
    <3>1. \E hit, rest :
            /\ hit \subseteq {i \in DOMAIN Flat : Kind(Flat[i]) \in Flags}
            /\ Lookup(hit, "short", rest)
      <4> DEFINE argchunk == Tail(Chunk)
                 after == SubSeq(argchunk, argit + 1, Len(argchunk))
                 hit == Match("short", argchunk[argit])
                 rest == IF after = <<>> THEN <<>> ELSE <<after>>
      <4>1. Lookup(hit, "short", rest)
        BY <2>2, Zenon DEF ShortArg
      <4>2. hit \subseteq {i \in DOMAIN Flat : Kind(Flat[i]) \in Flags}
        BY Zenon DEF Match
      <4> HIDE DEF hit, rest
      <4> QED BY <4>1, <4>2, Zenon
    <3>2. AtChunk /\ IsShort
      BY <2>2, Zenon DEF ShortArg
    <3> QED BY <3>1, <3>2, Zenon
  <2> QED BY <2>1, <2>2, Zenon
<1>2. PICK hit, how, rest :
        /\ hit \subseteq {i \in DOMAIN Flat : Kind(Flat[i]) \in Flags}
        /\ how = "long" \/ (how = "short" /\ IsShort)
        /\ Lookup(hit, how, rest) /\ AtChunk /\ (IsLong \/ IsShort)
  BY <1>1
<1>3. UNCHANGED <<parser, args, it, argit, terminated, ready, calls>>
  BY <1>2, Zenon DEF Lookup
<1>4. CASE hit = {}
  BY <1>2, <1>3, <1>4, Zenon DEF Lookup, Throw
<1>5. CASE hit # {}
  <2>1. hit \subseteq DOMAIN Flat /\ parser \in DOMAIN Parsers
    BY <1>2, Zenon DEF Control
  <2>2. PICK k \in hit : First(hit) = Flat[k] /\ Flat[k] \in Opt
    BY <1>5, <2>1, FirstFacts
  <2>3. /\ MatchFlag(First(hit)) /\ form' = how /\ flag' = First(hit)
        /\ roles' = Append(roles, Role(it, "flag", First(hit)))
    BY <1>2, <1>5, Zenon DEF Lookup
  <2>4. Kind(Flat[k]) \in Flags
    BY <1>2, Zenon
  <2> QED BY <1>2, <1>3, <2>2, <2>3, <2>4, Zenon
<1> QED BY <1>4, <1>5

\* FlagBase::Match throws, or marks the flag and goes on with its value.
LEMMA MatchFlagFacts ==
  ASSUME NEW o, MatchFlag(o)
  PROVE  \/ pc' = "idle" /\ result' = "ExtraError" /\ UNCHANGED <<matched, value>>
         \/ /\ matched' = [matched EXCEPT ![o] = TRUE]
            /\ \/ /\ Kind(o) = "HelpFlag" /\ pc' = "idle" /\ result' = "Help"
                  /\ value' = value
               \/ /\ Kind(o) # "HelpFlag" /\ pc' = "value" /\ result' = result
                  /\ value' = IF Kind(o) = "CounterFlag"
                              THEN [value EXCEPT ![o] = @ + 1] ELSE value
  BY Zenon DEF MatchFlag, Throw

----------------------------------------------------------------------------
(* Control. *)

\* The part of Control that is about the options, after one of them has changed.
LEMMA OptionsStay ==
  ASSUME Control, parser' = parser, NEW o \in Opt,
         NEW v, NEW m \in BOOLEAN, NEW r \in BOOLEAN,
         Kind(o) \in Lists => IsSequence(v),
         Kind(o) \in Singles /\ Options[o].type = "int" => v \in Int,
         value' = [value EXCEPT ![o] = v] \/ value' = value,
         matched' = [matched EXCEPT ![o] = m] \/ matched' = matched,
         ready' = [ready EXCEPT ![o] = r] \/ ready' = ready
  PROVE  /\ DOMAIN value' = Opt'
         /\ matched' \in [Opt' -> BOOLEAN] /\ ready' \in [Opt' -> BOOLEAN]
         /\ \A q \in Opt' :
              /\ Kind(q)' \in Lists => IsSequence(value'[q])
              /\ Kind(q)' \in Singles /\ Options'[q].type = "int" => value'[q] \in Int
<1>1. Opt' = Opt /\ Options' = Options /\ \A q : Kind(q)' = Kind(q)
  BY SameParser
<1>2. /\ matched \in [Opt -> BOOLEAN] /\ ready \in [Opt -> BOOLEAN]
      /\ DOMAIN value = Opt
      /\ \A q \in Opt :
           /\ Kind(q) \in Lists => IsSequence(value[q])
           /\ Kind(q) \in Singles /\ Options[q].type = "int" => value[q] \in Int
  BY InvTypes, Zenon
<1>3. DOMAIN value' = Opt
  BY <1>2, Zenon
<1>4. matched' \in [Opt -> BOOLEAN] /\ ready' \in [Opt -> BOOLEAN]
  BY <1>2, Zenon
<1>5. ASSUME NEW q \in Opt
      PROVE  /\ Kind(q) \in Lists => IsSequence(value'[q])
             /\ Kind(q) \in Singles /\ Options[q].type = "int" => value'[q] \in Int
  <2>1. value'[q] = value[q] \/ (q = o /\ value'[q] = v)
    BY <1>2, Zenon
  <2> QED BY <1>2, <2>1, Zenon
<1> QED BY <1>1, <1>3, <1>4, <1>5, Zenon

\* The results that a step of ParseArgs may leave.
Results == {"none", "done", "kickout"} \cup Exceptions

LEMMA ResultFacts ==
  /\ "none" \in Results /\ "done" \in Results /\ "kickout" \in Results
  /\ "ParseError" \in Results /\ "MapError" \in Results /\ "ExtraError" \in Results
  /\ "Help" \in Results /\ "ValidationError" \in Results
  BY Zenon DEF Results, Exceptions

\* Control, put together again.
LEMMA ControlAgain ==
  ASSUME Control, parser' = parser, IsSequence(args'),
         it' \in 1 .. Len(args') + 1, argit' \in Nat \ {0},
         pc' \in {"idle", "chunk", "value"}, form' \in {"long", "short"},
         result' \in Results, pc' # "idle" => result' = "none",
         pc' = "value" => it' \in DOMAIN args' /\ flag' \in Opt /\ Kind(flag') \in Flags,
         DOMAIN value' = Opt',
         matched' \in [Opt' -> BOOLEAN], ready' \in [Opt' -> BOOLEAN],
         \A q \in Opt' :
           /\ Kind(q)' \in Lists => IsSequence(value'[q])
           /\ Kind(q)' \in Singles /\ Options'[q].type = "int" => value'[q] \in Int
  PROVE  Control'
<1>1. Opt' = Opt /\ Options' = Options /\ \A q : Options'[q].kind = Kind(q)
  BY SameParser, Zenon DEF Kind
<1>2. TypeOK'
  BY <1>1, Zenon DEF TypeOK, Results
<1>3. pc' = "value" => it' \in DOMAIN args' /\ Kind(flag)' \in Flags
  BY <1>1, Zenon DEF Kind
<1>4. parser' \in DOMAIN Parsers
  BY Zenon DEF Control
<1> QED BY <1>2, <1>3, <1>4, Zenon DEF Control

\* A value is given to an option in chunk i.
LEMMA GiveControl ==
  ASSUME Control, NEW o \in Opt, Kind(o) \in ValueFlags \cup Positionals,
         NEW t, NEW i \in DOMAIN args, Give(o, t, i), result = "none",
         UNCHANGED <<parser, args, form>>, argit' \in Nat \ {0}
  PROVE  Control'
<1>1. PICK p :
        /\ Left(o, p)
        /\ value' = [value EXCEPT ![o] = p.value]
        /\ matched' = [matched EXCEPT ![o] = p.matched]
        /\ ready' = [ready EXCEPT ![o] = p.ready]
        /\ \/ /\ p.error = "none" /\ it' = i + 1
              /\ \/ pc' = "idle" /\ result' = "kickout"
                 \/ pc' = "chunk" /\ result' = result
           \/ /\ p.error # "none" /\ it' = i
              /\ pc' = "idle" /\ result' = p.error
  BY GiveFacts
<1>2. /\ p.matched \in BOOLEAN /\ p.ready \in BOOLEAN
      /\ p.error \in {"none", "ParseError", "MapError"}
      /\ Kind(o) \in Lists => IsSequence(p.value)
      /\ Kind(o) \in Singles /\ Options[o].type = "int" => p.value \in Int
  BY <1>1, Zenon DEF Left
<1>3. /\ DOMAIN value' = Opt'
      /\ matched' \in [Opt' -> BOOLEAN] /\ ready' \in [Opt' -> BOOLEAN]
      /\ \A q \in Opt' :
           /\ Kind(q)' \in Lists => IsSequence(value'[q])
           /\ Kind(q)' \in Singles /\ Options'[q].type = "int" => value'[q] \in Int
  BY <1>1, <1>2, OptionsStay, Zenon
<1>4. /\ pc' \in {"idle", "chunk"} /\ result' \in Results
      /\ pc' # "idle" => result' = "none"
  BY <1>1, <1>2, ResultFacts, Zenon
<1>5. it' \in 1 .. Len(args') + 1
  <2>1. it' = i \/ it' = i + 1
    BY <1>1, Zenon
  <2> QED BY <2>1, InvTypes, SMT
<1>6. IsSequence(args') /\ form' \in {"long", "short"}
  BY Zenon DEF Control, TypeOK
<1> QED BY <1>3, <1>4, <1>5, <1>6, ControlAgain, Zenon

LEMMA OptionsSame ==
  ASSUME Control, UNCHANGED <<parser, value, matched, ready>>
  PROVE  /\ DOMAIN value' = Opt'
         /\ matched' \in [Opt' -> BOOLEAN] /\ ready' \in [Opt' -> BOOLEAN]
         /\ \A q \in Opt' :
              /\ Kind(q)' \in Lists => IsSequence(value'[q])
              /\ Kind(q)' \in Singles /\ Options'[q].type = "int" => value'[q] \in Int
<1>1. Opt' = Opt /\ Options' = Options /\ \A q : Kind(q)' = Kind(q)
  BY SameParser
<1> QED BY <1>1, InvTypes, Zenon

\* The option that PositionalArg gives the chunk to.
LEMMA PositionalFacts ==
  ASSUME Control, PositionalArg
  PROVE  /\ AtChunk /\ ~IsTerminator /\ ~IsLong /\ ~IsShort /\ it \in DOMAIN args
         /\ UNCHANGED <<parser, args, argit, terminated, form, flag, joined, calls>>
         /\ \/ /\ pc' = "idle" /\ result' = "ParseError"
               /\ UNCHANGED <<it, matched, ready, value, roles>>
            \/ \E k \in DOMAIN Flat :
                 /\ Flat[k] \in Opt /\ Kind(Flat[k]) \in Positionals
                 /\ ready[Flat[k]]
                 /\ \A j \in DOMAIN Flat :
                      Kind(Flat[j]) \in Positionals /\ j < k => ~ready[Flat[j]]
                 /\ Give(Flat[k], Chunk, it)
                 /\ roles' = Append(roles, Role(it, "positional", Flat[k]))
<1>1. /\ AtChunk /\ ~IsTerminator /\ ~IsLong /\ ~IsShort
      /\ UNCHANGED <<parser, args, argit, terminated, form, flag, joined, calls>>
  BY Zenon DEF PositionalArg
<1>2. it \in DOMAIN args
  BY <1>1, InvTypes, SMT DEF AtChunk
<1>3. CASE ReadyPositionals = {}
  BY <1>1, <1>2, <1>3, Zenon DEF PositionalArg, Throw
<1>4. CASE ReadyPositionals # {}
  <2>1. ReadyPositionals \subseteq DOMAIN Flat /\ parser \in DOMAIN Parsers
    BY Zenon DEF ReadyPositionals, Control
  <2>2. PICK k \in ReadyPositionals :
          /\ First(ReadyPositionals) = Flat[k] /\ Flat[k] \in Opt
          /\ \A j \in ReadyPositionals : k <= j
    BY <1>4, <2>1, FirstFacts
  <2>3. /\ Give(Flat[k], Chunk, it)
        /\ roles' = Append(roles, Role(it, "positional", Flat[k]))
    BY <1>4, <2>2, Zenon DEF PositionalArg
  <2>4. k \in DOMAIN Flat /\ Kind(Flat[k]) \in Positionals /\ ready[Flat[k]]
    BY Zenon DEF ReadyPositionals
  <2>5. ASSUME NEW j \in DOMAIN Flat, Kind(Flat[j]) \in Positionals, j < k
        PROVE  ~ready[Flat[j]]
    <3>1. ~(k <= j)
      <4>1. j \in Nat /\ k \in Nat
        BY <2>1, <2>4, ParserFacts, Zenon
      <4> QED BY <4>1, <2>5, SMT
    <3> QED BY <3>1, <2>2, <2>5, Zenon DEF ReadyPositionals
  <2> QED BY <1>1, <1>2, <2>2, <2>3, <2>4, <2>5, Zenon
<1> QED BY <1>3, <1>4, Zenon

\* The flag that waits for its value.
LEMMA FlagFacts ==
  ASSUME Control, pc = "value"
  PROVE  flag \in Opt /\ Kind(flag) \in Flags /\ it \in DOMAIN args /\ result = "none"
  BY Zenon DEF Control, TypeOK

LEMMA LookControl ==
  ASSUME Control, LongArg \/ ShortArg
  PROVE  Control'
<1>1. /\ AtChunk /\ UNCHANGED <<parser, args, it, argit, ready>>
      /\ \/ /\ pc' = "idle" /\ result' = "ParseError"
            /\ UNCHANGED <<matched, value, form>>
         \/ \E o \in Opt :
              /\ Kind(o) \in Flags /\ MatchFlag(o) /\ flag' = o
              /\ form' \in {"long", "short"}
  BY LookFacts, Zenon
<1>2. /\ it \in DOMAIN args /\ it' \in 1 .. Len(args') + 1
      /\ argit' \in Nat \ {0} /\ IsSequence(args') /\ result = "none"
      /\ form \in {"long", "short"}
  <2>1. it \in DOMAIN args
    BY <1>1, InvTypes, SMT DEF AtChunk
  <2>2. result = "none" /\ form \in {"long", "short"}
    BY <1>1, Zenon DEF AtChunk, Control, TypeOK
  <2> QED BY <1>1, <2>1, <2>2, InvTypes, Zenon
<1>3. CASE pc' = "idle" /\ result' = "ParseError" /\ UNCHANGED <<matched, value, form>>
  <2>1. /\ DOMAIN value' = Opt'
        /\ matched' \in [Opt' -> BOOLEAN] /\ ready' \in [Opt' -> BOOLEAN]
        /\ \A q \in Opt' :
             /\ Kind(q)' \in Lists => IsSequence(value'[q])
             /\ Kind(q)' \in Singles /\ Options'[q].type = "int" => value'[q] \in Int
    BY <1>1, <1>3, OptionsSame
  <2> QED BY <1>1, <1>2, <1>3, <2>1, ResultFacts, ControlAgain, Zenon
<1>4. ASSUME NEW o \in Opt, Kind(o) \in Flags, MatchFlag(o), flag' = o,
             form' \in {"long", "short"}
      PROVE  Control'
  <2>1. PICK v :
          /\ Kind(o) \notin Lists \cup Singles \/ v = value[o]
          /\ value' = [value EXCEPT ![o] = v] \/ value' = value
    <3>1. CASE Kind(o) = "CounterFlag"
      <4>1. \/ value' = value
            \/ value' = [value EXCEPT ![o] = value[o] + 1]
        BY <1>4, <3>1, InvTypes, MatchFlagFacts, Zenon
      <4>2. Kind(o) \notin Lists \cup Singles
        BY <3>1, Zenon DEF Lists, Singles
      <4> QED BY <4>1, <4>2, Zenon
    <3>2. CASE Kind(o) # "CounterFlag"
      <4>1. value' = value
        BY <1>4, <3>2, MatchFlagFacts, Zenon
      <4> QED BY <4>1, Zenon
    <3> QED BY <3>1, <3>2
  <2>2. matched' = [matched EXCEPT ![o] = TRUE] \/ matched' = matched
    BY <1>4, MatchFlagFacts, Zenon
  <2>3. /\ DOMAIN value' = Opt'
        /\ matched' \in [Opt' -> BOOLEAN] /\ ready' \in [Opt' -> BOOLEAN]
        /\ \A q \in Opt' :
             /\ Kind(q)' \in Lists => IsSequence(value'[q])
             /\ Kind(q)' \in Singles /\ Options'[q].type = "int" => value'[q] \in Int
    <3>1. Kind(o) \in Lists => IsSequence(v)
      BY <2>1, InvTypes, Zenon
    <3>2. Kind(o) \in Singles /\ Options[o].type = "int" => v \in Int
      BY <2>1, InvTypes, Zenon
    <3>3. TRUE \in BOOLEAN /\ parser' = parser /\ ready' = ready
      BY <1>1
    <3> QED BY <2>1, <2>2, <3>1, <3>2, <3>3, OptionsStay, Zenon
  <2>4. /\ pc' \in {"idle", "value"} /\ result' \in Results
        /\ pc' # "idle" => result' = "none"
    BY <1>2, <1>4, MatchFlagFacts, ResultFacts, Zenon
  <2> QED BY <1>1, <1>2, <1>4, <2>3, <2>4, ControlAgain, Zenon
<1> QED BY <1>1, <1>3, <1>4, Zenon

\* A step that leaves the options alone.
LEMMA QuietControl ==
  ASSUME Control, UNCHANGED <<parser, args, value, matched, ready, form, flag>>,
         it' \in 1 .. Len(args) + 1, argit' \in Nat \ {0},
         pc' \in {"idle", "chunk"}, result' \in Results,
         pc' # "idle" => result' = "none"
  PROVE  Control'
<1>1. /\ DOMAIN value' = Opt'
      /\ matched' \in [Opt' -> BOOLEAN] /\ ready' \in [Opt' -> BOOLEAN]
      /\ \A q \in Opt' :
           /\ Kind(q)' \in Lists => IsSequence(value'[q])
           /\ Kind(q)' \in Singles /\ Options'[q].type = "int" => value'[q] \in Int
  BY OptionsSame
<1>2. IsSequence(args') /\ form' \in {"long", "short"}
  BY Zenon DEF Control, TypeOK
<1> QED BY <1>1, <1>2, ControlAgain, Zenon

LEMMA TerminatorControl ==
  ASSUME Control, Terminator
  PROVE  Control'
<1>1. /\ AtChunk /\ pc' = "chunk" /\ it' = it + 1 /\ result' = result
      /\ UNCHANGED <<parser, args, argit, form, flag, matched, ready, value>>
  BY Zenon DEF Terminator, NextChunk
<1>2. it' \in 1 .. Len(args) + 1 /\ argit' \in Nat \ {0}
  BY <1>1, InvTypes, SMT DEF AtChunk
<1>3. result' = "none" /\ result' \in Results
  BY <1>1, ResultFacts, Zenon DEF AtChunk, Control
<1> QED BY <1>1, <1>2, <1>3, QuietControl, Zenon

LEMMA PositionalControl ==
  ASSUME Control, PositionalArg
  PROVE  Control'
<1>1. /\ AtChunk /\ it \in DOMAIN args
      /\ UNCHANGED <<parser, args, argit, form, flag>>
      /\ \/ /\ pc' = "idle" /\ result' = "ParseError"
            /\ UNCHANGED <<it, matched, ready, value>>
         \/ \E k \in DOMAIN Flat :
              /\ Flat[k] \in Opt /\ Kind(Flat[k]) \in Positionals
              /\ Give(Flat[k], Chunk, it)
  BY PositionalFacts, Zenon
<1>2. argit' \in Nat \ {0} /\ result = "none" /\ it \in 1 .. Len(args) + 1
  BY <1>1, InvTypes, Zenon DEF AtChunk, Control
<1>3. CASE pc' = "idle" /\ result' = "ParseError" /\ UNCHANGED <<it, matched, ready, value>>
  BY <1>1, <1>2, <1>3, ResultFacts, QuietControl, Zenon
<1>4. ASSUME NEW k \in DOMAIN Flat, Flat[k] \in Opt, Kind(Flat[k]) \in Positionals,
             Give(Flat[k], Chunk, it)
      PROVE  Control'
  <2>1. Kind(Flat[k]) \in ValueFlags \cup Positionals
    BY <1>4, Zenon
  <2> QED BY <1>1, <1>2, <1>4, <2>1, GiveControl
<1> QED BY <1>1, <1>3, <1>4, Zenon

\* What the three actions on the value of a flag do.
LEMMA JoinedFacts ==
  ASSUME Control, JoinedValue
  PROVE  /\ pc = "value" /\ Kind(flag) \in ValueFlags /\ argit' = 1
         /\ UNCHANGED <<parser, args, terminated, form, flag, joined, calls, roles>>
         /\ \/ Give(flag, joined[1], it)
            \/ /\ pc' = "idle" /\ result' = "ParseError"
               /\ UNCHANGED <<it, matched, ready, value>>
  BY Zenon DEF JoinedValue, Throw

LEMMA SeparateFacts ==
  ASSUME Control, SeparateValue
  PROVE  /\ pc = "value" /\ Kind(flag) \in ValueFlags /\ argit' = 1
         /\ UNCHANGED <<parser, args, terminated, form, flag, joined, calls>>
         /\ \/ /\ it + 1 \in DOMAIN args /\ Give(flag, args[it + 1], it + 1)
               /\ roles' = Append(roles, Role(it + 1, "value", flag))
            \/ /\ pc' = "idle" /\ result' = "ParseError" /\ it' = it + 1
               /\ UNCHANGED <<matched, ready, value, roles>>
<1>1. it < Len(args) => it + 1 \in DOMAIN args
  BY InvTypes, SMT
<1> QED BY <1>1, Zenon DEF SeparateValue, Throw

LEMMA NoValueFacts ==
  ASSUME Control, NoValue
  PROVE  /\ pc = "value" /\ Kind(flag) \notin ValueFlags
         /\ UNCHANGED <<parser, args, terminated, form, flag, joined, matched, ready,
                        value, calls, roles>>
         /\ \/ pc' = "idle" /\ result' = "ParseError" /\ UNCHANGED <<it, argit>>
            \/ /\ pc' = "idle" /\ result' = "kickout" /\ it' = it + 1
               /\ argit' \in {argit + 1, 1}
            \/ /\ pc' = "chunk" /\ result' = result /\ it' = it
               /\ argit' = argit + 1 /\ form = "short"
            \/ pc' = "chunk" /\ result' = result /\ it' = it + 1 /\ argit' = 1
<1> DEFINE bundled == form = "short" /\ joined # <<>>
<1>1. /\ pc = "value" /\ Kind(flag) \notin ValueFlags
      /\ UNCHANGED <<parser, args, terminated, form, flag, joined, matched, ready,
                     value, calls, roles>>
      /\ \/ Throw("ParseError") /\ UNCHANGED <<it, argit>>
         \/ /\ IF Options[flag].kickout THEN LeaveAt(it + 1)
               ELSE NextChunk(IF bundled THEN it ELSE it + 1)
            /\ argit' = IF bundled THEN argit + 1 ELSE 1
  BY Zenon DEF NoValue
<1>2. CASE bundled
  BY <1>1, <1>2, Zenon DEF Throw, LeaveAt, NextChunk
<1>3. CASE ~bundled
  BY <1>1, <1>3, Zenon DEF Throw, LeaveAt, NextChunk
<1> QED BY <1>2, <1>3, Zenon

LEMMA ValueControl ==
  ASSUME Control, JoinedValue \/ SeparateValue \/ NoValue
  PROVE  Control'
<1>1. pc = "value"
  BY JoinedFacts, SeparateFacts, NoValueFacts, Zenon
<1>2. flag \in Opt /\ it \in DOMAIN args /\ result = "none"
  BY <1>1, FlagFacts
<1>3. /\ it \in 1 .. Len(args) + 1 /\ it + 1 \in 1 .. Len(args) + 1
      /\ 1 \in Nat \ {0} /\ argit + 1 \in Nat \ {0} /\ argit \in Nat \ {0}
  BY <1>2, InvTypes, SMT
<1>4. CASE JoinedValue
  <2>1. /\ Kind(flag) \in ValueFlags \cup Positionals /\ argit' \in Nat \ {0}
        /\ UNCHANGED <<parser, args, form, flag>>
        /\ \/ Give(flag, joined[1], it)
           \/ /\ pc' = "idle" /\ result' = "ParseError"
              /\ UNCHANGED <<it, matched, ready, value>>
    BY <1>3, <1>4, JoinedFacts, Zenon
  <2>2. CASE Give(flag, joined[1], it)
    BY <1>2, <2>1, <2>2, GiveControl
  <2>3. CASE pc' = "idle" /\ result' = "ParseError" /\ UNCHANGED <<it, matched, ready, value>>
    BY <1>3, <2>1, <2>3, ResultFacts, QuietControl, Zenon
  <2> QED BY <2>1, <2>2, <2>3, Zenon
<1>5. CASE SeparateValue
  <2>1. /\ Kind(flag) \in ValueFlags \cup Positionals /\ argit' \in Nat \ {0}
        /\ UNCHANGED <<parser, args, form, flag>>
        /\ \/ it + 1 \in DOMAIN args /\ Give(flag, args[it + 1], it + 1)
           \/ /\ pc' = "idle" /\ result' = "ParseError" /\ it' = it + 1
              /\ UNCHANGED <<matched, ready, value>>
    BY <1>3, <1>5, SeparateFacts, Zenon
  <2>2. CASE it + 1 \in DOMAIN args /\ Give(flag, args[it + 1], it + 1)
    BY <1>2, <2>1, <2>2, GiveControl
  <2>3. CASE pc' = "idle" /\ result' = "ParseError" /\ it' = it + 1
             /\ UNCHANGED <<matched, ready, value>>
    BY <1>3, <2>1, <2>3, ResultFacts, QuietControl, Zenon
  <2> QED BY <2>1, <2>2, <2>3, Zenon
<1>6. CASE NoValue
  <2>1. /\ UNCHANGED <<parser, args, form, flag, matched, ready, value>>
        /\ it' \in {it, it + 1} /\ argit' \in {argit, argit + 1, 1}
        /\ pc' \in {"idle", "chunk"}
        /\ result' \in {"ParseError", "kickout"} \/ result' = result
        /\ pc' # "idle" => result' = result
    BY <1>6, NoValueFacts, Zenon
  <2> QED BY <1>2, <1>3, <2>1, ResultFacts, QuietControl, Zenon
<1> QED BY <1>4, <1>5, <1>6, Zenon

LEMMA EndControl ==
  ASSUME Control, EndOfArgs
  PROVE  Control'
<1>1. /\ pc' = "idle" /\ result' \in {"done", "ValidationError"}
      /\ UNCHANGED <<parser, args, it, argit, form, flag, matched, ready, value>>
  BY Zenon DEF EndOfArgs, Throw
<1> QED BY <1>1, InvTypes, ResultFacts, QuietControl, Zenon

\* Reset leaves every option with a value of its class.
LEMMA ResetControl ==
  ASSUME Control, NEW a \in CommandLines, ParseCLI(a)
  PROVE  Control'
<1>1. /\ args' = a /\ it' = 1 /\ argit' = 1 /\ pc' = "chunk" /\ result' = "none"
      /\ matched' = [o \in Opt |-> FALSE] /\ ready' = [o \in Opt |-> TRUE]
      /\ value' = [o \in Opt |-> ResetValue(o)] /\ UNCHANGED <<parser, form, flag>>
  BY Zenon DEF ParseCLI
<1>2. Opt' = Opt /\ Options' = Options /\ \A q : Kind(q)' = Kind(q)
  BY <1>1, SameParser
<1>3. parser \in DOMAIN Parsers
  BY Zenon DEF Control
<1>4. IsSequence(args')
  BY <1>1, <1>3, ParserFacts, Zenon
<1>5. it' \in 1 .. Len(args') + 1 /\ argit' \in Nat \ {0}
  BY <1>1, <1>4, SequenceFacts, SMT
<1>6. ASSUME NEW q \in Opt
      PROVE  /\ Kind(q) \in Lists => IsSequence(value'[q])
             /\ Kind(q) \in Singles /\ Options[q].type = "int" => value'[q] \in Int
  <2>1. value'[q] = ResetValue(q)
    BY <1>1, Zenon
  <2>2. CASE Kind(q) \in Lists
    BY <2>1, <2>2, EmptyFacts, Classes, Zenon DEF ResetValue
  <2>3. CASE Kind(q) = "CounterFlag"
    BY <2>1, <2>3, Classes, Zenon DEF Singles
  <2>4. CASE Kind(q) \notin Lists /\ Kind(q) # "CounterFlag"
    <3>1. value'[q] = value[q]
      BY <2>1, <2>4, Zenon DEF ResetValue
    <3> QED BY <2>4, <3>1, InvTypes, Zenon
  <2> QED BY <2>2, <2>3, <2>4, Zenon
<1>7. /\ DOMAIN value' = Opt /\ matched' \in [Opt -> BOOLEAN]
      /\ ready' \in [Opt -> BOOLEAN] /\ form' \in {"long", "short"}
  BY <1>1, Zenon DEF Control, TypeOK
<1> QED BY <1>1, <1>2, <1>4, <1>5, <1>6, <1>7, ResultFacts, ControlAgain, Zenon

LEMMA StutterControl ==
  ASSUME Control, UNCHANGED vars
  PROVE  Control'
<1>1. UNCHANGED <<parser, args, it, argit, pc, form, flag, matched, ready, value, result>>
  BY Zenon DEF vars
<1>2. Opt' = Opt /\ Options' = Options
  BY <1>1, SameParser
<1>3. TypeOK'
  BY <1>1, <1>2, Zenon DEF Control, TypeOK, Kind
<1> QED BY <1>1, <1>2, <1>3, Zenon DEF Control, Kind

LEMMA ControlNext ==
  ASSUME Control, [Next]_vars
  PROVE  Control'
<1>1. ASSUME NEW a \in CommandLines, ParseCLI(a) PROVE Control'
  BY <1>1, ResetControl
<1> QED
  BY <1>1, TerminatorControl, LookControl, PositionalControl, ValueControl, EndControl,
     StutterControl, Zenon DEF Next, ParseArgs

LEMMA ControlInit == Init => Control
<1> SUFFICES ASSUME Init PROVE Control
  OBVIOUS
<1>1. /\ parser \in DOMAIN Parsers /\ args = <<>> /\ it = 1 /\ argit = 1
      /\ pc = "idle" /\ result = "none" /\ form = "long"
      /\ matched = [o \in Opt |-> FALSE] /\ ready = [o \in Opt |-> TRUE]
      /\ value = [o \in Opt |-> Options[o].default]
  BY Zenon DEF Init
<1>2. IsSequence(args) /\ it \in 1 .. Len(args) + 1 /\ argit \in Nat \ {0}
  BY <1>1, EmptyFacts, SMT
<1>3. \A o \in Opt : value[o] = Options[o].default
  BY <1>1, Zenon
<1>4. /\ matched \in [Opt -> BOOLEAN] /\ ready \in [Opt -> BOOLEAN]
      /\ DOMAIN value = Opt
  BY <1>1, Zenon
<1>5. TypeOK
  BY <1>1, <1>2, <1>3, <1>4, ParserFacts, Zenon DEF TypeOK
<1> QED BY <1>1, <1>2, <1>4, <1>5, Zenon DEF Control

----------------------------------------------------------------------------
(* ChunksTaken. *)

\* A chunk is taken: one role is added.
LEMMA RoleAdded ==
  ASSUME IsSequence(roles), NEW a, NEW as, NEW o, roles' = Append(roles, Role(a, as, o))
  PROVE  /\ IsSequence(roles') /\ Len(roles) \in Nat /\ Len(roles') = Len(roles) + 1
         /\ DOMAIN roles' = DOMAIN roles \cup {Len(roles) + 1}
         /\ Len(roles) + 1 \notin DOMAIN roles
         /\ \A i \in DOMAIN roles : roles'[i] = roles[i]
         /\ roles'[Len(roles) + 1].at = a /\ roles'[Len(roles) + 1].as = as
         /\ roles'[Len(roles) + 1].opt = o
<1>1. /\ IsSequence(roles') /\ Len(roles') = Len(roles) + 1
      /\ \A i \in DOMAIN roles : roles'[i] = roles[i]
      /\ roles'[Len(roles) + 1] = Role(a, as, o)
  BY AppendFacts, Zenon
<1>2. /\ Len(roles) \in Nat /\ DOMAIN roles = 1 .. Len(roles)
      /\ DOMAIN roles' = 1 .. Len(roles')
  BY <1>1, SequenceFacts
<1>3. DOMAIN roles' = DOMAIN roles \cup {Len(roles) + 1} /\ Len(roles) + 1 \notin DOMAIN roles
  BY <1>1, <1>2, SMT
<1>4. Role(a, as, o).at = a /\ Role(a, as, o).as = as /\ Role(a, as, o).opt = o
  BY Zenon DEF Role
<1> QED BY <1>1, <1>2, <1>3, <1>4, Zenon

LEMMA ConsistentAgain ==
  ASSUME Consistent, NEW a, NEW as \in {"flag", "value", "positional", "terminator"},
         NEW o, roles' = Append(roles, Role(a, as, o)),
         \A i \in DOMAIN roles : roles[i].at = a => roles[i].as = as
  PROVE  Consistent' /\ TakenSoFar' = TakenSoFar \cup {a}
<1> DEFINE n == Len(roles) + 1
<1>1. /\ IsSequence(roles') /\ DOMAIN roles' = DOMAIN roles \cup {n} /\ n \notin DOMAIN roles
      /\ \A i \in DOMAIN roles : roles'[i] = roles[i]
      /\ roles'[n].at = a /\ roles'[n].as = as
  BY RoleAdded, Zenon DEF Consistent
<1> HIDE DEF n
<1>2. Consistent'
  <2>1. \A i \in DOMAIN roles' :
          roles'[i].as \in {"flag", "value", "positional", "terminator"}
    BY <1>1, Zenon DEF Consistent
  <2>2. ASSUME NEW i \in DOMAIN roles', NEW j \in DOMAIN roles',
               roles'[i].at = roles'[j].at
        PROVE  roles'[i].as = roles'[j].as
    <3>1. CASE i = n \/ j = n
      BY <1>1, <2>2, <3>1, Zenon
    <3>2. CASE i # n /\ j # n
      BY <1>1, <2>2, <3>2, ZenonT(40) DEF Consistent
    <3> QED BY <3>1, <3>2, Zenon
  <2> QED BY <1>1, <2>1, <2>2, Zenon DEF Consistent
<1>3. TakenSoFar' = TakenSoFar \cup {a}
  <2>1. ASSUME NEW x \in TakenSoFar' PROVE x \in TakenSoFar \cup {a}
    <3>1. PICK i \in DOMAIN roles' : x = roles'[i].at
      BY <2>1, Zenon DEF TakenSoFar
    <3>2. CASE i = n
      BY <1>1, <3>1, <3>2, Zenon
    <3>3. CASE i \in DOMAIN roles
      BY <1>1, <3>1, <3>3, Zenon DEF TakenSoFar
    <3> QED BY <1>1, <3>2, <3>3, Zenon
  <2>2. ASSUME NEW x \in TakenSoFar \cup {a} PROVE x \in TakenSoFar'
    <3>1. CASE x = a
      BY <1>1, <3>1, Zenon DEF TakenSoFar
    <3>2. CASE x \in TakenSoFar
      BY <1>1, <3>2, Zenon DEF TakenSoFar
    <3> QED BY <2>2, <3>1, <3>2, Zenon
  <2> QED BY <2>1, <2>2, Zenon
<1> QED BY <1>2, <1>3

LEMMA ConsistentSame ==
  ASSUME Consistent, roles' = roles
  PROVE  Consistent' /\ TakenSoFar' = TakenSoFar
  BY Zenon DEF Consistent, TakenSoFar

\* What is taken when a chunk is begun, and when not.
LEMMA TakenFacts ==
  ASSUME Control, ChunksTaken, pc # "idle"
  PROVE  /\ Consistent /\ result = "none"
         /\ Begun => TakenSoFar = 1 .. it /\ it \in DOMAIN args
         /\ ~Begun => /\ TakenSoFar = 1 .. it - 1
                      /\ \A i \in DOMAIN roles : roles[i].at # it
         /\ \A i \in DOMAIN roles : roles[i].at = it => roles[i].as = "flag"
         /\ \A i \in DOMAIN roles : roles[i].at # it + 1
<1>1. /\ Consistent /\ result = "none"
      /\ Begun => TakenSoFar = 1 .. it /\ it \in DOMAIN args
      /\ ~Begun => TakenSoFar = 1 .. it - 1
      /\ Begun => \A i \in DOMAIN roles : roles[i].at = it => roles[i].as = "flag"
  BY Zenon DEF Control, ChunksTaken
<1>2. \A i \in DOMAIN roles : roles[i].at \in TakenSoFar
  BY Zenon DEF TakenSoFar
<1>3. it \in Nat
  BY InvTypes, SMT
<1>4. it + 1 \notin 1 .. it /\ it + 1 \notin 1 .. it - 1 /\ it \notin 1 .. it - 1
  BY <1>3, SMT
<1> QED BY <1>1, <1>2, <1>4, Zenon

\* ChunksTaken, put together again: after an end of ParseArgs other than "done",
\* and when it goes on with a chunk that is not begun.
LEMMA TakenAtEnd ==
  ASSUME Consistent', pc' = "idle", result' # "done"
  PROVE  ChunksTaken'
  BY Zenon DEF ChunksTaken

LEMMA TakenAtNext ==
  ASSUME Consistent', pc' = "chunk", argit' = 1, result' # "done",
         TakenSoFar' = 1 .. it' - 1
  PROVE  ChunksTaken'
<1>1. ~Begun'
  BY SMT DEF Begun
<1> QED BY <1>1, SMT DEF ChunksTaken, Begun

LEMMA LookTaken ==
  ASSUME Control, ChunksTaken, LongArg \/ ShortArg
  PROVE  ChunksTaken'
<1>1. /\ AtChunk /\ UNCHANGED <<parser, args, it, argit, terminated>>
      /\ \/ pc' = "idle" /\ result' = "ParseError" /\ roles' = roles
         \/ \E o \in Opt :
              /\ MatchFlag(o) /\ roles' = Append(roles, Role(it, "flag", o))
              /\ form' = "long" \/ (form' = "short" /\ IsShort)
  BY LookFacts, Zenon
<1>2. pc = "chunk" /\ it \in DOMAIN args /\ it \in Nat \ {0}
  BY <1>1, InvTypes, SMT DEF AtChunk
<1>3. /\ Consistent /\ result = "none"
      /\ TakenSoFar = 1 .. it \/ TakenSoFar = 1 .. it - 1
      /\ \A i \in DOMAIN roles : roles[i].at = it => roles[i].as = "flag"
      /\ argit > 1 => IsShort
  BY <1>2, TakenFacts, Zenon DEF ChunksTaken
<1>4. CASE pc' = "idle" /\ result' = "ParseError" /\ roles' = roles
  BY <1>3, <1>4, ConsistentSame, TakenAtEnd, Zenon
<1>5. ASSUME NEW o \in Opt, MatchFlag(o), roles' = Append(roles, Role(it, "flag", o)),
             form' = "long" \/ (form' = "short" /\ IsShort)
      PROVE  ChunksTaken'
  <2>1. Consistent' /\ TakenSoFar' = TakenSoFar \cup {it}
    <3>1. "flag" \in {"flag", "value", "positional", "terminator"}
      BY Zenon
    <3> QED BY <1>3, <1>5, <3>1, ConsistentAgain, Zenon
  <2>2. TakenSoFar' = 1 .. it
    BY <1>2, <1>3, <2>1, SMT
  <2>3. \A i \in DOMAIN roles' : roles'[i].at = it => roles'[i].as = "flag"
    <3> DEFINE n == Len(roles) + 1
    <3>1. /\ DOMAIN roles' = DOMAIN roles \cup {n} /\ roles'[n].as = "flag"
          /\ \A i \in DOMAIN roles : roles'[i] = roles[i]
      BY <1>3, <1>5, RoleAdded DEF Consistent
    <3> HIDE DEF n
    <3> QED BY <1>3, <3>1
  <2>4. result' # "done" /\ pc' \in {"idle", "value"}
    BY <1>3, <1>5, MatchFlagFacts, Zenon
  <2>5. CASE pc' = "idle"
    BY <2>1, <2>4, <2>5, TakenAtEnd, Zenon
  <2>6. CASE pc' = "value"
    <3>1. Begun' /\ (IsShort <=> IsShort')
      BY <1>1, <2>6, Zenon DEF Begun, IsShort, Chunk
    <3>2. argit' > 1 \/ (pc' = "value" /\ form' = "short") => IsShort'
      BY <1>1, <1>3, <1>5, <3>1, Zenon
    <3> QED BY <1>1, <1>2, <2>1, <2>2, <2>3, <2>4, <3>1, <3>2, Zenon DEF ChunksTaken
  <2> QED BY <2>4, <2>5, <2>6, Zenon
<1> QED BY <1>1, <1>4, <1>5, Zenon

\* At a chunk that is no bundle of short flags, nothing is begun.
LEMMA NotBegun ==
  ASSUME Control, ChunksTaken, AtChunk, ~IsShort
  PROVE  /\ argit = 1 /\ ~Begun /\ pc = "chunk" /\ it \in Nat \ {0}
         /\ TakenSoFar = 1 .. it - 1 /\ Consistent /\ result = "none"
         /\ \A i \in DOMAIN roles : roles[i].at # it
<1>1. pc = "chunk" /\ ~(argit > 1)
  BY Zenon DEF AtChunk, ChunksTaken
<1>2. argit = 1 /\ ~Begun /\ it \in Nat \ {0}
  BY <1>1, InvTypes, SMT DEF Begun
<1> QED BY <1>1, <1>2, TakenFacts, Zenon

LEMMA TerminatorTaken ==
  ASSUME Control, ChunksTaken, Terminator
  PROVE  ChunksTaken'
<1>1. /\ AtChunk /\ IsTerminator /\ pc' = "chunk" /\ it' = it + 1
      /\ UNCHANGED <<result, argit>>
      /\ roles' = Append(roles, Role(it, "terminator", "none"))
  BY Zenon DEF Terminator, NextChunk
<1>2. ~IsShort
  BY <1>1, SMT DEF IsTerminator, IsShort
<1>3. /\ argit = 1 /\ it \in Nat \ {0} /\ TakenSoFar = 1 .. it - 1
      /\ Consistent /\ result = "none" /\ \A i \in DOMAIN roles : roles[i].at # it
  BY <1>1, <1>2, NotBegun, Zenon
<1>4. /\ "terminator" \in {"flag", "value", "positional", "terminator"}
      /\ \A i \in DOMAIN roles : roles[i].at = it => roles[i].as = "terminator"
  BY <1>3, Zenon
<1>5. Consistent' /\ TakenSoFar' = TakenSoFar \cup {it}
  BY <1>1, <1>3, <1>4, ConsistentAgain, Zenon
<1>6. TakenSoFar' = 1 .. it' - 1
  BY <1>1, <1>3, <1>5, SMT
<1> QED BY <1>1, <1>3, <1>5, <1>6, TakenAtNext, Zenon

\* An option takes a value in chunk i, everything up to which is now taken.
LEMMA GiveTaken ==
  ASSUME Control, NEW o \in Opt, Kind(o) \in ValueFlags \cup Positionals,
         NEW t, NEW i \in Nat, Give(o, t, i), result = "none", argit' = 1,
         Consistent', TakenSoFar' = 1 .. i
  PROVE  ChunksTaken'
<1>1. \/ pc' = "chunk" /\ it' = i + 1 /\ result' # "done"
      \/ pc' = "idle" /\ result' # "done"
  <2>1. PICK p :
        /\ Left(o, p)
        /\ \/ /\ p.error = "none" /\ it' = i + 1
              /\ \/ pc' = "idle" /\ result' = "kickout"
                 \/ pc' = "chunk" /\ result' = result
           \/ /\ p.error # "none" /\ it' = i
              /\ pc' = "idle" /\ result' = p.error
    BY GiveFacts
  <2>2. p.error # "done"
    BY <2>1, Zenon DEF Left
  <2> QED BY <2>1, <2>2, Zenon
<1>2. CASE pc' = "chunk" /\ it' = i + 1 /\ result' # "done"
  <2>1. TakenSoFar' = 1 .. it' - 1
    BY <1>2, SMT
  <2> QED BY <1>2, <2>1, TakenAtNext, Zenon
<1>3. CASE pc' = "idle" /\ result' # "done"
  BY <1>3, TakenAtEnd, Zenon
<1> QED BY <1>1, <1>2, <1>3, Zenon

LEMMA PositionalTaken ==
  ASSUME Control, ChunksTaken, PositionalArg
  PROVE  ChunksTaken'
<1>1. /\ AtChunk /\ ~IsShort /\ UNCHANGED argit
      /\ \/ pc' = "idle" /\ result' = "ParseError" /\ roles' = roles
         \/ \E k \in DOMAIN Flat :
              /\ Flat[k] \in Opt /\ Kind(Flat[k]) \in Positionals
              /\ Give(Flat[k], Chunk, it)
              /\ roles' = Append(roles, Role(it, "positional", Flat[k]))
  BY PositionalFacts, Zenon
<1>2. /\ argit = 1 /\ it \in Nat \ {0} /\ TakenSoFar = 1 .. it - 1
      /\ Consistent /\ result = "none" /\ \A i \in DOMAIN roles : roles[i].at # it
  BY <1>1, NotBegun, Zenon
<1>3. CASE pc' = "idle" /\ result' = "ParseError" /\ roles' = roles
  BY <1>2, <1>3, ConsistentSame, TakenAtEnd, Zenon
<1>4. ASSUME NEW o \in Opt, Kind(o) \in Positionals, Give(o, Chunk, it),
             roles' = Append(roles, Role(it, "positional", o))
      PROVE  ChunksTaken'
  <2>1. /\ "positional" \in {"flag", "value", "positional", "terminator"}
        /\ \A i \in DOMAIN roles : roles[i].at = it => roles[i].as = "positional"
    BY <1>2, Zenon
  <2>2. Consistent' /\ TakenSoFar' = TakenSoFar \cup {it}
    BY <1>2, <1>4, <2>1, ConsistentAgain, Zenon
  <2>3. TakenSoFar' = 1 .. it
    BY <1>2, <2>2, SMT
  <2>4. Kind(o) \in ValueFlags \cup Positionals /\ argit' = 1
    BY <1>1, <1>2, <1>4, Zenon
  <2> QED BY <1>2, <1>4, <2>2, <2>3, <2>4, GiveTaken
<1> QED BY <1>1, <1>3, <1>4, Zenon

LEMMA ValueTaken ==
  ASSUME Control, ChunksTaken, JoinedValue \/ SeparateValue \/ NoValue
  PROVE  ChunksTaken'
<1>1. pc = "value"
  BY JoinedFacts, SeparateFacts, NoValueFacts, Zenon
<1>2. Begun /\ flag \in Opt /\ it \in Nat \ {0}
  BY <1>1, FlagFacts, InvTypes, SMT DEF Begun
<1>3. /\ Consistent /\ result = "none" /\ TakenSoFar = 1 .. it /\ it \in DOMAIN args
      /\ \A i \in DOMAIN roles : roles[i].at = it => roles[i].as = "flag"
      /\ \A i \in DOMAIN roles : roles[i].at # it + 1
      /\ form = "short" => IsShort
  BY <1>1, <1>2, TakenFacts, Zenon DEF ChunksTaken
<1>4. CASE JoinedValue
  <2>1. /\ Kind(flag) \in ValueFlags \cup Positionals /\ argit' = 1 /\ roles' = roles
        /\ \/ Give(flag, joined[1], it)
           \/ pc' = "idle" /\ result' = "ParseError"
    BY <1>4, JoinedFacts, Zenon
  <2>2. Consistent' /\ TakenSoFar' = 1 .. it
    BY <1>3, <2>1, ConsistentSame, Zenon
  <2>3. CASE Give(flag, joined[1], it)
    BY <1>2, <1>3, <2>1, <2>2, <2>3, GiveTaken
  <2>4. CASE pc' = "idle" /\ result' = "ParseError"
    BY <2>2, <2>4, TakenAtEnd, Zenon
  <2> QED BY <2>1, <2>3, <2>4, Zenon
<1>5. CASE SeparateValue
  <2>1. /\ Kind(flag) \in ValueFlags \cup Positionals /\ argit' = 1
        /\ \/ /\ Give(flag, args[it + 1], it + 1)
              /\ roles' = Append(roles, Role(it + 1, "value", flag))
           \/ pc' = "idle" /\ result' = "ParseError" /\ roles' = roles
    BY <1>5, SeparateFacts, Zenon
  <2>2. CASE /\ Give(flag, args[it + 1], it + 1)
             /\ roles' = Append(roles, Role(it + 1, "value", flag))
    <3>1. /\ "value" \in {"flag", "value", "positional", "terminator"}
          /\ \A i \in DOMAIN roles : roles[i].at = it + 1 => roles[i].as = "value"
      BY <1>3, Zenon
    <3>2. Consistent' /\ TakenSoFar' = TakenSoFar \cup {it + 1}
      BY <1>3, <2>2, <3>1, ConsistentAgain, Zenon
    <3>3. TakenSoFar' = 1 .. it + 1 /\ it + 1 \in Nat
      BY <1>2, <1>3, <3>2, SMT
    <3> QED BY <1>2, <1>3, <2>1, <2>2, <3>2, <3>3, GiveTaken
  <2>3. CASE pc' = "idle" /\ result' = "ParseError" /\ roles' = roles
    BY <1>3, <2>3, ConsistentSame, TakenAtEnd, Zenon
  <2> QED BY <2>1, <2>2, <2>3, Zenon
<1>6. CASE NoValue
  <2>1. /\ UNCHANGED <<parser, args, terminated, form, roles>>
        /\ \/ pc' = "idle" /\ result' \in {"ParseError", "kickout"}
           \/ /\ pc' = "chunk" /\ result' = result /\ it' = it
              /\ argit' = argit + 1 /\ form = "short"
           \/ pc' = "chunk" /\ result' = result /\ it' = it + 1 /\ argit' = 1
    BY <1>6, NoValueFacts, Zenon
  <2>2. Consistent' /\ TakenSoFar' = 1 .. it
    BY <1>3, <2>1, ConsistentSame, Zenon
  <2>3. CASE pc' = "idle" /\ result' \in {"ParseError", "kickout"}
    BY <2>2, <2>3, TakenAtEnd, Zenon
  <2>4. CASE /\ pc' = "chunk" /\ result' = result /\ it' = it
             /\ argit' = argit + 1 /\ form = "short"
    <3>1. argit' > 1
      BY <2>4, InvTypes, SMT
    <3>2. Begun' /\ IsShort'
      BY <1>3, <2>1, <2>4, <3>1, Zenon DEF Begun, IsShort, Chunk
    <3> QED BY <1>3, <2>1, <2>2, <2>4, <3>2, Zenon DEF ChunksTaken
  <2>5. CASE pc' = "chunk" /\ result' = result /\ it' = it + 1 /\ argit' = 1
    <3>1. TakenSoFar' = 1 .. it' - 1
      BY <1>2, <2>2, <2>5, SMT
    <3> QED BY <1>3, <2>2, <2>5, <3>1, TakenAtNext, Zenon
  <2> QED BY <2>1, <2>3, <2>4, <2>5, Zenon
<1> QED BY <1>4, <1>5, <1>6, Zenon

LEMMA EndTaken ==
  ASSUME Control, ChunksTaken, EndOfArgs
  PROVE  ChunksTaken'
<1>1. /\ pc = "chunk" /\ it > Len(args) /\ pc' = "idle" /\ UNCHANGED <<args, roles>>
  BY Zenon DEF EndOfArgs, Throw
<1>2. it \notin DOMAIN args /\ 1 .. it - 1 = DOMAIN args
  BY <1>1, InvTypes, SMT
<1>3. Consistent /\ TakenSoFar = DOMAIN args
  BY <1>1, <1>2, TakenFacts, Zenon
<1>4. Consistent' /\ TakenSoFar' = DOMAIN args'
  BY <1>1, <1>3, ConsistentSame, Zenon
<1> QED BY <1>1, <1>4, Zenon DEF ChunksTaken

LEMMA ResetTaken ==
  ASSUME NEW a, ParseCLI(a)
  PROVE  ChunksTaken'
<1>1. /\ roles' = <<>> /\ pc' = "chunk" /\ argit' = 1 /\ it' = 1 /\ result' = "none"
  BY Zenon DEF ParseCLI
<1>2. IsSequence(roles') /\ DOMAIN roles' = {}
  BY <1>1, EmptyFacts
<1>3. Consistent' /\ TakenSoFar' = {}
  BY <1>2, Zenon DEF Consistent, TakenSoFar
<1>4. TakenSoFar' = 1 .. it' - 1
  BY <1>1, <1>3, SMT
<1> QED BY <1>1, <1>3, <1>4, TakenAtNext, Zenon

LEMMA StutterTaken ==
  ASSUME ChunksTaken, UNCHANGED vars
  PROVE  ChunksTaken'
<1>1. UNCHANGED <<args, it, argit, terminated, pc, form, result, roles>>
  BY Zenon DEF vars
<1>2. Consistent' /\ TakenSoFar' = TakenSoFar
  BY <1>1, ConsistentSame, Zenon DEF ChunksTaken
<1>3. (Begun' <=> Begun) /\ (IsShort' <=> IsShort)
  BY <1>1, Zenon DEF Begun, IsShort, Chunk
<1>4. CASE Begun
  BY <1>1, <1>2, <1>3, <1>4, Zenon DEF ChunksTaken
<1>5. CASE ~Begun
  BY <1>1, <1>2, <1>3, <1>5, Zenon DEF ChunksTaken
<1> QED BY <1>4, <1>5

LEMMA TakenNext ==
  ASSUME Control, ChunksTaken, [Next]_vars
  PROVE  ChunksTaken'
<1>1. ASSUME NEW a, ParseCLI(a) PROVE ChunksTaken'
  BY <1>1, ResetTaken
<1> QED
  BY <1>1, TerminatorTaken, LookTaken, PositionalTaken, ValueTaken, EndTaken,
     StutterTaken, Zenon DEF Next, ParseArgs

LEMMA TakenInit == Init => ChunksTaken
<1> SUFFICES ASSUME Init PROVE ChunksTaken
  OBVIOUS
<1>1. roles = <<>> /\ pc = "idle" /\ result = "none"
  BY Zenon DEF Init
<1>2. IsSequence(roles) /\ DOMAIN roles = {}
  BY <1>1, EmptyFacts
<1> QED BY <1>1, <1>2, Zenon DEF ChunksTaken, Consistent

----------------------------------------------------------------------------
(* Reports. *)

LEMMA GivenFinite ==
  ASSUME IsSequence(roles), NEW o
  PROVE  /\ IsFiniteSet(Given(o)) /\ Cardinality(Given(o)) \in Nat
         /\ IsFiniteSet(FlagRoles(o)) /\ Cardinality(FlagRoles(o)) \in Nat
<1>1. IsFiniteSet(DOMAIN roles)
  <2>1. Len(roles) \in Int /\ 1 \in Int /\ DOMAIN roles = 1 .. Len(roles)
    BY SequenceFacts, SMT
  <2> QED BY <2>1, FS_Interval
<1>2. Given(o) \in SUBSET DOMAIN roles /\ FlagRoles(o) \in SUBSET DOMAIN roles
  BY Zenon DEF Given, FlagRoles
<1>3. IsFiniteSet(Given(o)) /\ IsFiniteSet(FlagRoles(o))
  BY <1>1, <1>2, FS_Subset
<1> QED BY <1>3, FS_CardinalityType

\* Option q is given once more.
LEMMA GivenAdded ==
  ASSUME IsSequence(roles), NEW a, NEW as, NEW q, as # "terminator",
         roles' = Append(roles, Role(a, as, q))
  PROVE  /\ \A o : o # q => Given(o)' = Given(o) /\ FlagRoles(o)' = FlagRoles(o)
         /\ Given(q)' # {} /\ Cardinality(Given(q)') = Cardinality(Given(q)) + 1
         /\ as # "flag" => FlagRoles(q)' = FlagRoles(q)
         /\ as = "flag" => Cardinality(FlagRoles(q)') = Cardinality(FlagRoles(q)) + 1
<1> DEFINE n == Len(roles) + 1
<1>1. /\ DOMAIN roles' = DOMAIN roles \cup {n} /\ n \notin DOMAIN roles
      /\ \A i \in DOMAIN roles : roles'[i] = roles[i]
      /\ roles'[n].as = as /\ roles'[n].opt = q
  BY RoleAdded, Zenon
<1> HIDE DEF n
<1>2. \A o : /\ Given(o) = {i \in DOMAIN roles :
                              roles[i].opt = o /\ roles[i].as # "terminator"}
             /\ Given(o)' = {i \in DOMAIN roles' :
                               roles'[i].opt = o /\ roles'[i].as # "terminator"}
  BY Zenon DEF Given
<1>3. \A o : /\ FlagRoles(o) = {i \in Given(o) : roles[i].as = "flag"}
             /\ FlagRoles(o)' = {i \in Given(o)' : roles'[i].as = "flag"}
  BY Zenon DEF FlagRoles
<1>4. ASSUME NEW o, o # q
      PROVE  Given(o)' = Given(o) /\ FlagRoles(o)' = FlagRoles(o)
  <2>1. Given(o)' = Given(o)
    BY <1>1, <1>2, <1>4, Zenon
  <2>2. \A i \in Given(o) : roles'[i] = roles[i]
    BY <1>1, <1>2, Zenon
  <2> QED BY <1>3, <2>1, <2>2, Zenon
<1>5. Given(q)' = Given(q) \cup {n} /\ n \notin Given(q)
  BY <1>1, <1>2, Zenon
<1>6. \A i \in Given(q) : roles'[i] = roles[i]
  BY <1>1, <1>2, Zenon
<1>7. as # "flag" => FlagRoles(q)' = FlagRoles(q)
  BY <1>1, <1>3, <1>5, <1>6, Zenon
<1>8. as = "flag" => FlagRoles(q)' = FlagRoles(q) \cup {n}
  BY <1>1, <1>3, <1>5, <1>6, Zenon
<1>9. n \notin FlagRoles(q)
  BY <1>3, <1>5, Zenon
<1>10. IsFiniteSet(Given(q)) /\ IsFiniteSet(FlagRoles(q))
  BY GivenFinite
<1>11. Cardinality(Given(q) \cup {n}) = Cardinality(Given(q)) + 1
  BY <1>5, <1>10, FS_AddElement, Zenon
<1>12. Cardinality(FlagRoles(q) \cup {n}) = Cardinality(FlagRoles(q)) + 1
  BY <1>9, <1>10, FS_AddElement
<1>13. Given(q)' # {}
  BY <1>5, Zenon
<1> QED BY <1>4, <1>5, <1>7, <1>8, <1>11, <1>12, <1>13, Zenon

\* An option that a step does not concern.
LEMMA ReportSame ==
  ASSUME parser' = parser, NEW q, Report(q),
         matched'[q] = matched[q], value'[q] = value[q],
         Given(q)' = Given(q), FlagRoles(q)' = FlagRoles(q),
         \/ Kind(q) \notin Lists \ Positionals
         \/ (pc = "value" /\ flag = q) <=> (pc' = "value" /\ flag' = q)
  PROVE  Report(q)'
<1>1. Options' = Options /\ Kind(q)' = Kind(q)
  BY SameParser
<1> QED BY <1>1, Zenon DEF Report

LEMMA RolesSame ==
  ASSUME roles' = roles
  PROVE  \A q : Given(q)' = Given(q) /\ FlagRoles(q)' = FlagRoles(q)
  BY Zenon DEF Given, FlagRoles

LEMMA ReportsAtEnd ==
  ASSUME pc' = "idle", result' # "done"
  PROVE  Reports'
  BY Zenon DEF Reports

LEMMA LookReports ==
  ASSUME Control, ChunksTaken, Reports, LongArg \/ ShortArg
  PROVE  Reports'
<1>1. /\ AtChunk /\ UNCHANGED <<parser, it>>
      /\ \/ pc' = "idle" /\ result' = "ParseError"
         \/ \E o \in Opt :
              /\ Kind(o) \in Flags /\ MatchFlag(o)
              /\ flag' = o /\ roles' = Append(roles, Role(it, "flag", o))
  BY LookFacts, Zenon
<1>2. /\ pc = "chunk" /\ result = "none" /\ IsSequence(roles)
      /\ \A q \in Opt : Report(q)
  BY <1>1, Zenon DEF AtChunk, Control, Reports, ChunksTaken, Consistent
<1>3. CASE pc' = "idle" /\ result' = "ParseError"
  BY <1>3, ReportsAtEnd, Zenon
<1>4. ASSUME NEW o \in Opt, Kind(o) \in Flags, MatchFlag(o), flag' = o,
             roles' = Append(roles, Role(it, "flag", o))
      PROVE  Reports'
  <2>1. CASE pc' = "idle"
    <3>1. result' # "done"
      BY <1>2, <1>4, <2>1, MatchFlagFacts, Zenon
    <3> QED BY <2>1, <3>1, ReportsAtEnd, Zenon
  <2>2. CASE pc' # "idle"
    <3>1. /\ matched' = [matched EXCEPT ![o] = TRUE] /\ pc' = "value"
          /\ value' = IF Kind(o) = "CounterFlag"
                      THEN [value EXCEPT ![o] = @ + 1] ELSE value
      BY <1>4, <2>2, MatchFlagFacts, Zenon
    <3>2. /\ \A q : q # o => Given(q)' = Given(q) /\ FlagRoles(q)' = FlagRoles(q)
          /\ Given(o)' # {} /\ Cardinality(Given(o)') = Cardinality(Given(o)) + 1
          /\ Cardinality(FlagRoles(o)') = Cardinality(FlagRoles(o)) + 1
      <4>1. "flag" # "terminator"
        BY Zenon
      <4> QED BY <1>2, <1>4, <4>1, GivenAdded
    <3>3. /\ DOMAIN matched = Opt /\ DOMAIN value = Opt
      BY InvTypes, Zenon
    <3>4. ASSUME NEW q \in Opt, q # o PROVE Report(q)'
      <4>1. matched'[q] = matched[q]
        BY <3>1, <3>3, <3>4, Zenon
      <4>2. value'[q] = value[q]
        BY <3>1, <3>3, <3>4, Zenon
      <4>3. Report(q) /\ ~(pc = "value" /\ flag = q) /\ ~(pc' = "value" /\ flag' = q)
        BY <1>2, <1>4, <3>4, Zenon
      <4> QED BY <1>1, <3>2, <3>4, <4>1, <4>2, <4>3, ReportSame, Zenon
    <3>5. Report(o)'
      <4>1. Options' = Options /\ Kind(o)' = Kind(o)
        BY <1>1, SameParser
      <4>2. matched'[o] = TRUE
        BY <3>1, <3>3, Zenon
      <4>3. CASE Kind(o) = "CounterFlag"
        <5>1. value'[o] = value[o] + 1
          BY <3>1, <3>3, <4>3, Zenon
        <5>2. value[o] = Options[o].default + Cardinality(Given(o))
          BY <1>2, <4>3, Zenon DEF Report
        <5>3. Options[o].default \in Int /\ Cardinality(Given(o)) \in Nat
          BY <1>2, <4>3, InvTypes, ParserFacts, GivenFinite
        <5>4. value'[o] = Options[o].default + Cardinality(Given(o)')
          BY <3>2, <5>1, <5>2, <5>3, SMT
        <5>5. Kind(o) \notin Lists
          BY <4>3, Classes, Zenon
        <5> QED BY <3>2, <4>1, <4>2, <5>4, <5>5, Zenon DEF Report
      <4>4. CASE Kind(o) # "CounterFlag"
        <5>1. value' = value
          BY <3>1, <4>4, Zenon
        <5>2. Kind(o) \notin Lists \ Flags
          BY <1>4, Zenon
        <5>3. Kind(o) \in Lists \ Positionals =>
                Cardinality(FlagRoles(o)') = Len(value'[o]) + 1
          BY <1>2, <3>2, <5>1, Zenon DEF Report
        <5> QED BY <1>4, <3>1, <3>2, <4>1, <4>2, <4>4, <5>2, <5>3, Zenon DEF Report
      <4> QED BY <4>3, <4>4
    <3>6. \A q \in Opt' : Report(q)'
      BY <1>1, <3>4, <3>5, SameParser, Zenon
    <3>7. matched'[flag']
      BY <1>4, <3>1, <3>3, Zenon
    <3> QED BY <3>6, <3>7, Zenon DEF Reports
  <2> QED BY <2>1, <2>2
<1> QED BY <1>1, <1>3, <1>4, Zenon

\* An option takes a value, and the roles say that it was given.
LEMMA GiveReports ==
  ASSUME Control, NEW o \in Opt, Kind(o) \in ValueFlags \cup Positionals,
         NEW t, NEW i, Give(o, t, i), result = "none", parser' = parser,
         Given(o)' # {}, \A q \in Opt : Report(q),
         \A q \in Opt : q # o => /\ Given(q)' = Given(q) /\ FlagRoles(q)' = FlagRoles(q)
                                 /\ ~(pc = "value" /\ flag = q),
         Kind(o) \in Lists \ Flags =>
           Cardinality(Given(o)') = Cardinality(Given(o)) + 1,
         Kind(o) \in Lists \ Positionals =>
           FlagRoles(o)' = FlagRoles(o) /\ pc = "value" /\ flag = o
  PROVE  Reports'
<1>1. PICK p :
        /\ Left(o, p)
        /\ value' = [value EXCEPT ![o] = p.value]
        /\ matched' = [matched EXCEPT ![o] = p.matched]
        /\ \/ /\ p.error = "none" /\ it' = i + 1
              /\ \/ pc' = "idle" /\ result' = "kickout"
                 \/ pc' = "chunk" /\ result' = result
           \/ /\ p.error # "none" /\ it' = i
              /\ pc' = "idle" /\ result' = p.error
  BY GiveFacts
<1>2. CASE pc' = "idle"
  <2>1. p.error \in {"none", "ParseError", "MapError"}
    BY <1>1, Zenon DEF Left
  <2>2. result' # "done"
    BY <1>1, <1>2, <2>1, Zenon
  <2> QED BY <1>2, <2>2, ReportsAtEnd, Zenon
<1>3. CASE pc' # "idle"
  <2>1. p.error = "none" /\ pc' = "chunk"
    BY <1>1, <1>3, Zenon
  <2>2. /\ DOMAIN matched = Opt /\ DOMAIN value = Opt
    BY InvTypes, Zenon
  <2>3. ASSUME NEW q \in Opt, q # o PROVE Report(q)'
    <3>1. matched'[q] = matched[q] /\ value'[q] = value[q]
      BY <1>1, <2>2, <2>3, Zenon
    <3>2. /\ Report(q) /\ Given(q)' = Given(q) /\ FlagRoles(q)' = FlagRoles(q)
          /\ ~(pc = "value" /\ flag = q) /\ ~(pc' = "value" /\ flag' = q)
      BY <2>1, <2>3, Zenon
    <3> QED BY <3>1, <3>2, ReportSame, Zenon
  <2>4. Report(o)'
    <3>1. Options' = Options /\ Kind(o)' = Kind(o)
      BY SameParser
    <3>2. value'[o] = p.value /\ (matched'[o] <=> TRUE)
      BY <1>1, <2>1, <2>2, Zenon DEF Left
    <3>3. Kind(o) \in Lists => Len(value'[o]) = Len(value[o]) + 1
      BY <1>1, <2>1, <3>2, Zenon DEF Left
    <3>4. Kind(o) \in Lists \ Flags => Len(value'[o]) = Cardinality(Given(o)')
      BY <3>3, Zenon DEF Report
    <3>5. Kind(o) \in Lists \ Positionals =>
            Cardinality(FlagRoles(o)') = Len(value'[o])
      BY <3>3, Zenon DEF Report
    <3>6. Kind(o) # "CounterFlag"
      BY Classes, Zenon
    <3> QED BY <2>1, <3>1, <3>2, <3>4, <3>5, <3>6, Zenon DEF Report
  <2>5. \A q \in Opt' : Report(q)'
    BY <2>3, <2>4, SameParser, Zenon
  <2> QED BY <2>1, <2>5, Zenon DEF Reports
<1> QED BY <1>2, <1>3

\* A step that gives nothing to an option.
LEMMA QuietReports ==
  ASSUME UNCHANGED <<parser, matched, value>>, pc' # "value",
         \A q \in Opt : /\ Report(q) /\ Given(q)' = Given(q) /\ FlagRoles(q)' = FlagRoles(q)
                        /\ Kind(q) \in Lists \ Positionals => ~(pc = "value" /\ flag = q)
  PROVE  Reports'
<1>1. ASSUME NEW q \in Opt PROVE Report(q)'
  <2>1. /\ Report(q) /\ Given(q)' = Given(q) /\ FlagRoles(q)' = FlagRoles(q)
        /\ matched'[q] = matched[q] /\ value'[q] = value[q]
        /\ \/ Kind(q) \notin Lists \ Positionals
           \/ (pc = "value" /\ flag = q) <=> (pc' = "value" /\ flag' = q)
    BY <1>1, Zenon
  <2> QED BY <2>1, ReportSame
<1>2. \A q \in Opt' : Report(q)'
  BY <1>1, SameParser, Zenon
<1> QED BY <1>2, Zenon DEF Reports

LEMMA TerminatorReports ==
  ASSUME Control, ChunksTaken, Reports, Terminator
  PROVE  Reports'
<1>1. /\ AtChunk /\ pc' = "chunk" /\ UNCHANGED <<parser, matched, value>>
      /\ roles' = Append(roles, Role(it, "terminator", "none"))
  BY Zenon DEF Terminator, NextChunk
<1>2. pc = "chunk" /\ IsSequence(roles) /\ \A q \in Opt : Report(q)
  BY <1>1, Zenon DEF AtChunk, Reports, ChunksTaken, Consistent
<1>3. ASSUME NEW q PROVE Given(q)' = Given(q) /\ FlagRoles(q)' = FlagRoles(q)
  <2> DEFINE n == Len(roles) + 1
  <2>1. /\ DOMAIN roles' = DOMAIN roles \cup {n} /\ n \notin DOMAIN roles
        /\ \A i \in DOMAIN roles : roles'[i] = roles[i]
        /\ roles'[n].as = "terminator"
    BY <1>1, <1>2, RoleAdded
  <2> HIDE DEF n
  <2>2. Given(q)' = Given(q)
    BY <2>1 DEF Given
  <2>3. \A i \in Given(q) : roles'[i] = roles[i]
    BY <2>1, Zenon DEF Given
  <2> QED BY <2>2, <2>3 DEF FlagRoles
<1> QED BY <1>1, <1>2, <1>3, QuietReports, Zenon

LEMMA PositionalReports ==
  ASSUME Control, ChunksTaken, Reports, PositionalArg
  PROVE  Reports'
<1>1. /\ AtChunk /\ parser' = parser
      /\ \/ pc' = "idle" /\ result' = "ParseError"
         \/ \E k \in DOMAIN Flat :
              /\ Flat[k] \in Opt /\ Kind(Flat[k]) \in Positionals
              /\ Give(Flat[k], Chunk, it)
              /\ roles' = Append(roles, Role(it, "positional", Flat[k]))
  BY PositionalFacts, Zenon
<1>2. /\ pc = "chunk" /\ result = "none" /\ IsSequence(roles)
      /\ \A q \in Opt : Report(q)
  BY <1>1, Zenon DEF AtChunk, Control, Reports, ChunksTaken, Consistent
<1>3. CASE pc' = "idle" /\ result' = "ParseError"
  BY <1>3, ReportsAtEnd, Zenon
<1>4. ASSUME NEW o \in Opt, Kind(o) \in Positionals, Give(o, Chunk, it),
             roles' = Append(roles, Role(it, "positional", o))
      PROVE  Reports'
  <2>1. /\ \A q : q # o => Given(q)' = Given(q) /\ FlagRoles(q)' = FlagRoles(q)
        /\ Given(o)' # {} /\ Cardinality(Given(o)') = Cardinality(Given(o)) + 1
    <3>1. "positional" # "terminator"
      BY Zenon
    <3> QED BY <1>2, <1>4, <3>1, GivenAdded
  <2>2. Kind(o) \in ValueFlags \cup Positionals /\ Kind(o) \notin Lists \ Positionals
    BY <1>4, Zenon
  <2>3. \A q \in Opt : q # o => /\ Given(q)' = Given(q) /\ FlagRoles(q)' = FlagRoles(q)
                                /\ ~(pc = "value" /\ flag = q)
    BY <1>2, <2>1, Zenon
  <2> QED BY <1>1, <1>2, <1>4, <2>1, <2>2, <2>3, GiveReports
<1> QED BY <1>1, <1>3, <1>4, Zenon

LEMMA ValueReports ==
  ASSUME Control, ChunksTaken, Reports, JoinedValue \/ SeparateValue \/ NoValue
  PROVE  Reports'
<1>1. pc = "value" /\ parser' = parser
  BY JoinedFacts, SeparateFacts, NoValueFacts, Zenon
<1>2. /\ flag \in Opt /\ result = "none" /\ IsSequence(roles)
      /\ matched[flag] /\ \A q \in Opt : Report(q)
  BY <1>1, FlagFacts, Zenon DEF Reports, ChunksTaken, Consistent
<1>3. CASE JoinedValue
  <2>1. /\ Kind(flag) \in ValueFlags \cup Positionals /\ roles' = roles
        /\ Kind(flag) \notin Lists \ Flags
        /\ \/ Give(flag, joined[1], it)
           \/ pc' = "idle" /\ result' = "ParseError"
    BY <1>3, JoinedFacts, Classes, Zenon
  <2>2. \A q : Given(q)' = Given(q) /\ FlagRoles(q)' = FlagRoles(q)
    BY <2>1, RolesSame
  <2>3. Given(flag) # {}
    BY <1>2, Zenon DEF Report
  <2>4. PICK o : o = flag
    BY Zenon
  <2>5. /\ Given(o)' # {}
        /\ \A q \in Opt : q # o => /\ Given(q)' = Given(q) /\ FlagRoles(q)' = FlagRoles(q)
                                   /\ ~(pc = "value" /\ flag = q)
        /\ FlagRoles(o)' = FlagRoles(o)
    BY <2>2, <2>3, <2>4, Zenon
  <2>6. CASE Give(flag, joined[1], it)
    BY <1>1, <1>2, <2>1, <2>4, <2>5, <2>6, GiveReports
  <2>7. CASE pc' = "idle" /\ result' = "ParseError"
    BY <2>7, ReportsAtEnd, Zenon
  <2> QED BY <2>1, <2>6, <2>7, Zenon
<1>4. CASE SeparateValue
  <2>1. /\ Kind(flag) \in ValueFlags \cup Positionals
        /\ Kind(flag) \notin Lists \ Flags
        /\ \/ /\ Give(flag, args[it + 1], it + 1)
              /\ roles' = Append(roles, Role(it + 1, "value", flag))
           \/ pc' = "idle" /\ result' = "ParseError"
    BY <1>4, SeparateFacts, Classes, Zenon
  <2>2. PICK o : o = flag
    BY Zenon
  <2>3. CASE /\ Give(flag, args[it + 1], it + 1)
             /\ roles' = Append(roles, Role(it + 1, "value", flag))
    <3>1. "value" # "terminator" /\ "value" # "flag"
      BY Zenon
    <3>2. roles' = Append(roles, Role(it + 1, "value", o))
      BY <2>2, <2>3, Zenon
    <3>3. /\ \A q : q # o => Given(q)' = Given(q) /\ FlagRoles(q)' = FlagRoles(q)
          /\ Given(o)' # {} /\ FlagRoles(o)' = FlagRoles(o)
      BY <1>2, <3>1, <3>2, GivenAdded
    <3>4. \A q \in Opt : q # o => /\ Given(q)' = Given(q) /\ FlagRoles(q)' = FlagRoles(q)
                                  /\ ~(pc = "value" /\ flag = q)
      BY <2>2, <3>3, Zenon
    <3> QED BY <1>1, <1>2, <2>1, <2>2, <2>3, <3>3, <3>4, GiveReports
  <2>4. CASE pc' = "idle" /\ result' = "ParseError"
    BY <2>4, ReportsAtEnd, Zenon
  <2> QED BY <2>1, <2>3, <2>4, Zenon
<1>5. CASE NoValue
  <2>1. /\ Kind(flag) \notin ValueFlags /\ UNCHANGED <<parser, matched, value, roles>>
        /\ \/ pc' = "idle" /\ result' # "done"
           \/ pc' = "chunk"
    BY <1>5, NoValueFacts, Zenon
  <2>2. CASE pc' = "idle" /\ result' # "done"
    BY <2>2, ReportsAtEnd, Zenon
  <2>3. CASE pc' = "chunk"
    <3>1. \A q \in Opt : Kind(q) \in Lists \ Positionals => ~(pc = "value" /\ flag = q)
      BY <2>1, Classes, Zenon
    <3>2. \A q : Given(q)' = Given(q) /\ FlagRoles(q)' = FlagRoles(q)
      BY <2>1, RolesSame
    <3> QED BY <1>2, <2>1, <2>3, <3>1, <3>2, QuietReports, Zenon
  <2> QED BY <2>1, <2>2, <2>3, Zenon
<1> QED BY <1>3, <1>4, <1>5, Zenon

LEMMA EndReports ==
  ASSUME Reports, EndOfArgs
  PROVE  Reports'
<1>1. /\ pc = "chunk" /\ pc' = "idle" /\ UNCHANGED <<parser, matched, value, roles>>
  BY Zenon DEF EndOfArgs, Throw
<1>2. \A q : Given(q)' = Given(q) /\ FlagRoles(q)' = FlagRoles(q)
  BY <1>1, RolesSame
<1>3. \A q \in Opt : Report(q)
  BY <1>1, Zenon DEF Reports
<1> QED BY <1>1, <1>2, <1>3, QuietReports, Zenon

\* Reset forgets what an earlier call was given.
LEMMA ResetReports ==
  ASSUME Control, NEW a, ParseCLI(a)
  PROVE  Reports'
<1>1. /\ pc' = "chunk" /\ roles' = <<>> /\ parser' = parser
      /\ matched' = [o \in Opt |-> FALSE] /\ value' = [o \in Opt |-> ResetValue(o)]
  BY Zenon DEF ParseCLI
<1>2. DOMAIN roles' = {}
  BY <1>1, EmptyFacts
<1>3. ASSUME NEW q \in Opt PROVE Report(q)'
  <2>1. Given(q)' = {} /\ FlagRoles(q)' = {}
    BY <1>2, Zenon DEF Given, FlagRoles
  <2>2. Cardinality(Given(q)') = 0 /\ Cardinality(FlagRoles(q)') = 0
    BY <2>1, FS_EmptySet
  <2>3. matched'[q] = FALSE /\ value'[q] = ResetValue(q)
    BY <1>1, Zenon
  <2>4. Kind(q) \in Lists => Len(value'[q]) = 0
    BY <2>3, EmptyFacts, Zenon DEF ResetValue
  <2>5. Kind(q) = "CounterFlag" => value'[q] = Options[q].default + 0
    <3>1. Kind(q) = "CounterFlag" => Options[q].default \in Int
      BY InvTypes, ParserFacts, Zenon
    <3>2. Kind(q) = "CounterFlag" => value'[q] = Options[q].default
      BY <2>3, Classes, Zenon DEF ResetValue
    <3> QED BY <3>1, <3>2, SMT
  <2>6. Options' = Options /\ Kind(q)' = Kind(q)
    BY <1>1, SameParser
  <2> QED BY <1>1, <2>1, <2>2, <2>3, <2>4, <2>5, <2>6, Zenon DEF Report
<1>4. \A q \in Opt' : Report(q)'
  BY <1>1, <1>3, SameParser, Zenon
<1> QED BY <1>1, <1>4, Zenon DEF Reports

LEMMA StutterReports ==
  ASSUME Reports, UNCHANGED vars
  PROVE  Reports'
<1>1. UNCHANGED <<parser, matched, value, roles, pc, flag, result>>
  BY Zenon DEF vars
<1>2. \A q : Given(q)' = Given(q) /\ FlagRoles(q)' = FlagRoles(q)
  BY <1>1, RolesSame
<1>3. ASSUME NEW q \in Opt, Report(q) PROVE Report(q)'
  BY <1>1, <1>2, <1>3, ReportSame
<1> QED BY <1>1, <1>3, SameParser, Zenon DEF Reports

LEMMA ReportsNext ==
  ASSUME Control, ChunksTaken, Reports, [Next]_vars
  PROVE  Reports'
<1>1. ASSUME NEW a, ParseCLI(a) PROVE Reports'
  BY <1>1, ResetReports
<1> QED
  BY <1>1, TerminatorReports, LookReports, PositionalReports, ValueReports, EndReports,
     StutterReports, Zenon DEF Next, ParseArgs

----------------------------------------------------------------------------
(* TextsRead. *)

\* What a class that does not throw leaves in the option.
LEMMA MadeOfText ==
  ASSUME NEW o, Kind(o) \in ValueFlags \cup Positionals,
         matched[o] \in BOOLEAN, ready[o] \in BOOLEAN,
         NEW t, NEW p \in ParseValue(o, t), p.error = "none"
  PROVE  /\ Kind(o) \in Lists =>
              \E e : Reads(o, t, e) /\ p.value = Append(value[o], e)
         /\ Kind(o) \in OneValue =>
              IF Leaves(o, t) THEN Reads(o, t, p.value) ELSE p.value = value[o]
<1>1. CASE Kind(o) \in Singles
  <2>1. PICK r \in ValueReader(o, t, {value[o]}) :
          p = IF Kind(o) = "ValueFlag" THEN Parsed(o, r.ok, "ParseError", r.v)
              ELSE Filled(Parsed(o, r.ok, "ParseError", r.v))
    BY <1>1, Zenon DEF ParseValue, ValueFlag, Positional, Singles
  <2>2. r.ok \in BOOLEAN
    BY ReaderFacts
  <2>3. r.ok /\ p.value = r.v
    <3>1. "ParseError" \in {"ParseError", "MapError"}
      BY Zenon
    <3>2. CASE p = Parsed(o, r.ok, "ParseError", r.v)
      <4>1. p.value = r.v /\ (p.error = "none" <=> r.ok)
        BY <2>2, <3>1, <3>2, ParsedFacts
      <4> QED BY <4>1, Zenon
    <3>3. CASE p = Filled(Parsed(o, r.ok, "ParseError", r.v))
      <4>1. p.value = r.v /\ (p.error = "none" <=> r.ok)
        BY <2>2, <3>1, <3>3, FilledFacts
      <4> QED BY <4>1, Zenon
    <3> QED BY <2>1, <3>2, <3>3, Zenon
  <2>4. Kind(o) \notin Lists /\ Kind(o) \notin ValueMaps /\ Kind(o) \notin SingleMaps
    BY <1>1, Zenon DEF Singles, Lists, ValueMaps, SingleMaps
  <2>5. CASE Leaves(o, t)
    <3>1. r \in ValueReader(o, t, Uninitialised)
      BY <2>4, <2>5, Zenon DEF Leaves, ValueReader
    <3> QED BY <2>3, <2>4, <2>5, <3>1, Zenon DEF Reads
  <2>6. CASE ~Leaves(o, t)
    <3>1. r = [ok |-> TRUE, v |-> value[o]]
      BY <2>6, Zenon DEF Leaves, ValueReader
    <3>2. r.v = value[o]
      BY <3>1, Zenon
    <3> QED BY <2>3, <2>4, <2>6, <3>2, Zenon
  <2> QED BY <2>5, <2>6
<1>2. CASE Kind(o) \in {"ValueFlagList", "PositionalList"}
  <2>1. PICK r \in ValueReader(o, t, Uninitialised) :
          p = Parsed(o, r.ok, "ParseError",
                     IF r.ok THEN Append(value[o], r.v) ELSE value[o])
    BY <1>2, Zenon DEF ParseValue, ValueFlagList, PositionalList
  <2>2. r.ok \in BOOLEAN /\ "ParseError" \in {"ParseError", "MapError"}
    BY ReaderFacts
  <2>3. PICK v : v = IF r.ok THEN Append(value[o], r.v) ELSE value[o]
    BY Zenon
  <2>4. p = Parsed(o, r.ok, "ParseError", v)
    BY <2>1, <2>3, Zenon
  <2>5. p.value = v /\ (p.error = "none" <=> r.ok)
    BY <2>2, <2>4, ParsedFacts
  <2>6. r.ok /\ p.value = Append(value[o], r.v)
    BY <2>3, <2>5, Zenon
  <2>7. Kind(o) \notin ValueMaps /\ Kind(o) \notin OneValue
    BY <1>2, Zenon DEF ValueMaps, OneValue, Singles, SingleMaps
  <2>8. Reads(o, t, r.v)
    BY <2>6, <2>7, Zenon DEF Reads
  <2> QED BY <2>6, <2>7, <2>8, Zenon
<1>3. CASE Kind(o) \in ValueMaps
  <2> DEFINE Holds(r) ==
               IF Found(o, r)
               THEN IF Kind(o) \in Lists THEN Append(value[o], Options[o].map[r.v])
                    ELSE Options[o].map[r.v]
               ELSE value[o]
  <2>1. PICK r \in ValueReader(o, t, Uninitialised) :
          \/ p = Parsed(o, Found(o, r), LookupError(r), Holds(r))
          \/ p = Filled(Parsed(o, Found(o, r), LookupError(r), Holds(r)))
    <3>1. CASE Kind(o) \in Lists
      <4>1. Kind(o) \in {"MapFlagList", "MapPositionalList"}
        BY <1>3, <3>1, Zenon DEF ValueMaps, SingleMaps, Lists
      <4> QED BY <3>1, <4>1, Zenon DEF ParseValue, MapFlagList, MapPositionalList
    <3>2. CASE Kind(o) \notin Lists
      <4>1. Kind(o) \in {"MapFlag", "MapPositional"}
        BY <1>3, <3>2, Zenon DEF ValueMaps, SingleMaps, Lists
      <4> QED BY <3>2, <4>1, Zenon DEF ParseValue, MapFlag, MapPositional
    <3> QED BY <3>1, <3>2
  <2>2. PICK v : v = Holds(r)
    BY Zenon
  <2>3. Found(o, r) \in BOOLEAN /\ LookupError(r) \in {"ParseError", "MapError"}
    <3>1. r.ok \in BOOLEAN
      BY ReaderFacts
    <3> QED BY <3>1, LookupFacts
  <2>4. p.value = v /\ Found(o, r)
    <3>1. CASE p = Parsed(o, Found(o, r), LookupError(r), v)
      <4>1. p.value = v /\ (p.error = "none" <=> Found(o, r))
        BY <2>3, <3>1, ParsedFacts
      <4> QED BY <4>1, Zenon
    <3>2. CASE p = Filled(Parsed(o, Found(o, r), LookupError(r), v))
      <4>1. p.value = v /\ (p.error = "none" <=> Found(o, r))
        BY <2>3, <3>2, FilledFacts
      <4> QED BY <4>1, Zenon
    <3> QED BY <2>1, <2>2, <3>1, <3>2, Zenon
  <2>5. Reads(o, t, Options[o].map[r.v])
    BY <1>3, <2>4, Zenon DEF Reads
  <2>6. Kind(o) \in OneValue => Kind(o) \notin Lists /\ Leaves(o, t)
    BY <1>3, Zenon DEF OneValue, ValueMaps, Lists, Singles, SingleMaps, Leaves
  <2> QED BY <2>2, <2>4, <2>5, <2>6, Zenon
<1>4. Kind(o) \in Singles \cup {"ValueFlagList", "PositionalList"} \cup ValueMaps
  BY Zenon DEF Singles, ValueMaps, SingleMaps, ValueFlags, Positionals
<1> QED BY <1>1, <1>2, <1>3, <1>4, Zenon

\* One more text.
LEMMA MadeList ==
  ASSUME NEW o, Kind(o) \in Lists, NEW ts, IsSequence(ts), NEW v, IsSequence(v),
         NEW k, MadeOf(o, ts, v, k), NEW t, NEW e, Reads(o, t, e)
  PROVE  MadeOf(o, Append(ts, t), Append(v, e), k)
<1>1. PICK us, w : us = Append(ts, t) /\ w = Append(v, e)
  BY Zenon
<1>2. /\ Len(us) = Len(ts) + 1 /\ us[Len(ts) + 1] = t
      /\ \A i \in DOMAIN ts : us[i] = ts[i]
  BY <1>1, AppendFacts, Zenon
<1>3. /\ Len(w) = Len(v) + 1 /\ w[Len(v) + 1] = e /\ IsSequence(w)
      /\ \A i \in DOMAIN v : w[i] = v[i]
  BY <1>1, AppendFacts, Zenon
<1>4. Len(v) = Len(ts) /\ \A i \in DOMAIN v : Reads(o, ts[i], v[i])
  BY Zenon DEF MadeOf
<1>5. DOMAIN v = DOMAIN ts /\ \A i \in DOMAIN w : i \in DOMAIN v \/ i = Len(v) + 1
  <2>1. /\ DOMAIN v = 1 .. Len(v) /\ DOMAIN ts = 1 .. Len(ts) /\ Len(v) \in Nat
        /\ DOMAIN w = 1 .. Len(w)
    BY <1>3, SequenceFacts
  <2> QED BY <1>3, <1>4, <2>1, SMT
<1>6. \A i \in DOMAIN w : Reads(o, us[i], w[i])
  BY <1>2, <1>3, <1>4, <1>5, Zenon
<1>7. Kind(o) \notin OneValue
  BY Zenon DEF OneValue, Lists, Singles, SingleMaps
<1>8. Len(w) = Len(us)
  BY <1>2, <1>3, <1>4, Zenon
<1>9. MadeOf(o, us, w, k)
  BY <1>6, <1>7, <1>8, Zenon DEF MadeOf
<1> QED BY <1>1, <1>9, Zenon

LEMMA MadeOne ==
  ASSUME NEW o, Kind(o) \in OneValue, NEW ts, IsSequence(ts), NEW v, NEW k,
         MadeOf(o, ts, v, k), NEW t, NEW w,
         IF Leaves(o, t) THEN Reads(o, t, w) ELSE w = v
  PROVE  MadeOf(o, Append(ts, t), w, k)
<1>1. PICK us, n : us = Append(ts, t) /\ n = Len(ts) + 1
  BY Zenon
<1>2. /\ Len(us) = n /\ us[n] = t /\ IsSequence(us)
      /\ \A i \in DOMAIN ts : us[i] = ts[i]
  BY <1>1, AppendFacts, Zenon
<1>3. /\ DOMAIN us = DOMAIN ts \cup {n} /\ n \notin DOMAIN ts
      /\ \A i \in DOMAIN ts : ~(n <= i)
  <2>1. /\ DOMAIN ts = 1 .. Len(ts) /\ Len(ts) \in Nat /\ DOMAIN us = 1 .. Len(us)
    BY <1>2, SequenceFacts
  <2> QED BY <1>1, <1>2, <2>1, SMT
<1> DEFINE left == {i \in DOMAIN ts : Leaves(o, ts[i])}
           more == {i \in DOMAIN us : Leaves(o, us[i])}
<1>4. /\ \A i \in left : (\A j \in left : j <= i) => Reads(o, ts[i], v)
      /\ left = {} /\ k = 1 => v = Options[o].default
  BY Zenon DEF MadeOf
<1>5. Kind(o) \notin Lists
  BY Zenon DEF OneValue, Lists, Singles, SingleMaps
<1>6. CASE Leaves(o, t)
  <2>1. n \in more
    BY <1>2, <1>3, <1>6, Zenon
  <2>2. ASSUME NEW i \in more, \A j \in more : j <= i PROVE Reads(o, us[i], w)
    <3>1. i = n
      BY <1>3, <2>1, <2>2, Zenon
    <3> QED BY <1>2, <1>6, <3>1, Zenon
  <2>3. MadeOf(o, us, w, k)
    BY <1>5, <2>1, <2>2, Zenon DEF MadeOf
  <2> QED BY <1>1, <2>3, Zenon
<1>7. CASE ~Leaves(o, t)
  <2>1. more = left /\ w = v
    BY <1>2, <1>3, <1>7, Zenon
  <2>2. \A i \in left : us[i] = ts[i]
    BY <1>2, Zenon
  <2>3. /\ \A i \in more : (\A j \in more : j <= i) => Reads(o, us[i], w)
        /\ more = {} /\ k = 1 => w = Options[o].default
    BY <1>4, <2>1, <2>2, Zenon
  <2>4. MadeOf(o, us, w, k)
    BY <1>5, <2>3, Zenon DEF MadeOf
  <2> QED BY <1>1, <2>4, Zenon
<1> QED BY <1>6, <1>7

\* It is the parser that says how texts are read.
LEMMA MadeSame ==
  ASSUME parser' = parser, NEW o, NEW ts, NEW v, NEW k, MadeOf(o, ts, v, k)
  PROVE  MadeOf(o, ts, v, k)'
<1>1. Options' = Options /\ Kind(o)' = Kind(o)
  BY SameParser
<1>2. ASSUME NEW t PROVE Leaves(o, t)' <=> Leaves(o, t)
  BY <1>1, Zenon DEF Leaves
<1>3. ASSUME NEW t, NEW w PROVE Reads(o, t, w)' <=> Reads(o, t, w)
  <2>1. ValueReader(o, t, Uninitialised)' = ValueReader(o, t, Uninitialised)
    BY <1>1, Zenon DEF ValueReader
  <2>2. ASSUME NEW r PROVE Found(o, r)' <=> Found(o, r)
    BY <1>1, Zenon DEF Found
  <2> QED BY <1>1, <2>1, <2>2, Zenon DEF Reads
<1> QED BY <1>1, <1>2, <1>3, Zenon DEF MadeOf

\* What is to be shown of a step that does not end in an exception.
LEMMA TextsIf ==
  ASSUME parser' = parser, DOMAIN texts' = Opt, calls' \in Nat, calls' # 0,
         \A o \in Opt : IsSequence(texts'[o]),
         pc' # "idle" \/ result' = "done" =>
           \A o \in Opt : MadeOf(o, texts'[o], value'[o], calls') /\ HasText(o)'
  PROVE  TextsRead'
<1>1. Opt' = Opt
  BY SameParser
<1>2. ASSUME NEW o \in Opt, MadeOf(o, texts'[o], value'[o], calls')
      PROVE  MadeOf(o, texts[o], value[o], calls)'
  <2>1. PICK ts, v, k : ts = texts'[o] /\ v = value'[o] /\ k = calls'
    BY Zenon
  <2>2. MadeOf(o, ts, v, k)
    BY <1>2, <2>1, Zenon
  <2>3. MadeOf(o, ts, v, k)'
    BY <2>2, MadeSame
  <2> QED BY <2>1, <2>3, Zenon
<1> QED BY <1>1, <1>2, Zenon DEF TextsRead

\* A step that gives no text: the marks and the other values are as before.
LEMMA QuietTexts ==
  ASSUME TextsRead, UNCHANGED <<parser, texts, calls>>, pc # "idle",
         pc' # "idle" \/ result' = "done" =>
           \A o \in Opt : /\ Kind(o) \in Lists \cup OneValue => value'[o] = value[o]
                          /\ HasText(o)'
  PROVE  TextsRead'
<1>1. /\ DOMAIN texts' = Opt /\ calls' \in Nat /\ calls' # 0
      /\ \A o \in Opt : IsSequence(texts'[o])
      /\ \A o \in Opt : MadeOf(o, texts[o], value[o], calls)
  BY Zenon DEF TextsRead
<1>2. ASSUME NEW o \in Opt, Kind(o) \in Lists \cup OneValue => value'[o] = value[o]
      PROVE  MadeOf(o, texts'[o], value'[o], calls')
  <2>1. CASE Kind(o) \in Lists \cup OneValue
    BY <1>1, <1>2, <2>1, Zenon
  <2>2. CASE Kind(o) \notin Lists \cup OneValue
    BY <2>2, Zenon DEF MadeOf
  <2> QED BY <2>1, <2>2
<1> QED BY <1>1, <1>2, TextsIf, Zenon

\* The flag that is matched waits for its text.
LEMMA LookTexts ==
  ASSUME Control, TextsRead, LongArg \/ ShortArg
  PROVE  TextsRead'
<1>1. /\ pc = "chunk" /\ result = "none"
      /\ \A q \in Opt : HasText(q)
      /\ DOMAIN matched = Opt /\ DOMAIN value = Opt
  BY LookFacts, InvTypes, Zenon DEF AtChunk, Control, TextsRead
<1>2. /\ UNCHANGED <<parser, texts, calls>>
      /\ \/ pc' = "idle" /\ result' = "ParseError"
         \/ \E o \in Opt : MatchFlag(o) /\ flag' = o
  <2>1. texts' = texts
    BY Zenon DEF LongArg, ShortArg, Lookup
  <2> QED BY <2>1, LookFacts, Zenon
<1>3. CASE pc' = "idle" /\ result' = "ParseError"
  BY <1>1, <1>2, <1>3, QuietTexts, Zenon
<1>4. ASSUME NEW o \in Opt, MatchFlag(o), flag' = o PROVE TextsRead'
  <2>1. CASE pc' = "idle"
    <3>1. result' # "done"
      BY <1>4, <2>1, MatchFlagFacts, Zenon
    <3> QED BY <1>1, <1>2, <2>1, <3>1, QuietTexts, Zenon
  <2>2. CASE pc' # "idle"
    <3>1. /\ matched' = [matched EXCEPT ![o] = TRUE] /\ pc' = "value"
          /\ value' = IF Kind(o) = "CounterFlag"
                      THEN [value EXCEPT ![o] = @ + 1] ELSE value
      BY <1>4, <2>2, MatchFlagFacts, Zenon
    <3>2. ASSUME NEW q \in Opt, Kind(q) \in Lists \cup OneValue
          PROVE  value'[q] = value[q]
      <4>1. Kind(q) # "CounterFlag"
        BY <3>2, Zenon DEF Lists, OneValue, Singles, SingleMaps
      <4> QED BY <1>1, <3>1, <4>1, Zenon
    <3>3. ASSUME NEW q \in Opt PROVE HasText(q)'
      <4>1. CASE q = o
        BY <1>4, <3>1, <4>1, Zenon DEF HasText
      <4>2. CASE q # o
        <5>1. matched'[q] = matched[q]
          BY <1>1, <3>1, <4>2, Zenon
        <5>2. matched[q] /\ Kind(q) \in ValueFlags \cup Positionals => texts[q] # <<>>
          BY <1>1, Zenon DEF HasText
        <5> QED BY <1>2, <5>1, <5>2, SameParser, Zenon DEF HasText
      <4> QED BY <4>1, <4>2
    <3> QED BY <1>1, <1>2, <3>2, <3>3, QuietTexts, Zenon
  <2> QED BY <2>1, <2>2
<1> QED BY <1>2, <1>3, <1>4, Zenon

\* An option takes a text or throws.
LEMMA GiveTexts ==
  ASSUME Control, TextsRead, pc # "idle", UNCHANGED <<parser, calls>>,
         NEW o \in Opt, Kind(o) \in ValueFlags \cup Positionals,
         NEW t, NEW i, Give(o, t, i),
         \A q \in Opt : q # o => ~(pc = "value" /\ flag = q)
  PROVE  TextsRead'
<1>1. PICK p \in ParseValue(o, t) :
        /\ value' = [value EXCEPT ![o] = p.value]
        /\ matched' = [matched EXCEPT ![o] = p.matched]
        /\ texts' = [texts EXCEPT ![o] = Append(@, t)]
        /\ \/ p.error = "none"
           \/ p.error # "none" /\ Throw(p.error)
  BY Zenon DEF Give
<1>2. /\ DOMAIN texts = Opt /\ DOMAIN value = Opt /\ DOMAIN matched = Opt
      /\ matched[o] \in BOOLEAN /\ ready[o] \in BOOLEAN
      /\ Kind(o) \in Lists => IsSequence(value[o])
      /\ calls' \in Nat /\ calls' # 0
      /\ \A q \in Opt : IsSequence(texts[q])
      /\ \A q \in Opt : MadeOf(q, texts[q], value[q], calls) /\ HasText(q)
  BY InvTypes, Zenon DEF TextsRead
<1>3. /\ DOMAIN texts' = Opt /\ texts'[o] = Append(texts[o], t)
      /\ value'[o] = p.value
      /\ \A q \in Opt : q # o => /\ texts'[q] = texts[q] /\ value'[q] = value[q]
                                 /\ matched'[q] = matched[q]
  BY <1>1, <1>2, Zenon
<1>4. /\ IsSequence(texts'[o]) /\ texts'[o] # <<>>
  <2>1. IsSequence(Append(texts[o], t)) /\ Len(Append(texts[o], t)) = Len(texts[o]) + 1
    BY <1>2, AppendFacts
  <2>2. Len(texts[o]) \in Nat /\ Len(<<>>) = 0
    BY <1>2, SequenceFacts, EmptyFacts
  <2>3. Len(Append(texts[o], t)) # Len(<<>>)
    BY <2>1, <2>2, SMT
  <2> QED BY <1>3, <2>1, <2>3, Zenon
<1>5. \A q \in Opt : IsSequence(texts'[q])
  BY <1>2, <1>3, <1>4, Zenon
<1>6. \A q \in Opt : HasText(q)'
  <2>1. ASSUME NEW q \in Opt PROVE HasText(q)'
    <3>1. CASE q = o
      BY <1>4, <3>1, Zenon DEF HasText
    <3>2. CASE q # o
      <4>1. matched[q] /\ Kind(q) \in ValueFlags \cup Positionals => texts[q] # <<>>
        BY <1>2, <3>2, Zenon DEF HasText
      <4> QED BY <1>3, <3>2, <4>1, SameParser, Zenon DEF HasText
    <3> QED BY <3>1, <3>2
  <2> QED BY <2>1
<1>7. CASE p.error = "none"
  <2>1. MadeOf(o, texts'[o], value'[o], calls')
    <3>1. CASE Kind(o) \in Lists
      <4>1. PICK e : Reads(o, t, e) /\ p.value = Append(value[o], e)
        BY <1>2, <1>7, <3>1, MadeOfText
      <4>2. MadeOf(o, Append(texts[o], t), Append(value[o], e), calls)
        BY <1>2, <3>1, <4>1, MadeList
      <4> QED BY <1>3, <4>1, <4>2, Zenon
    <3>2. CASE Kind(o) \in OneValue
      <4>1. IF Leaves(o, t) THEN Reads(o, t, p.value) ELSE p.value = value[o]
        BY <1>2, <1>7, <3>2, MadeOfText
      <4>2. MadeOf(o, Append(texts[o], t), p.value, calls)
        BY <1>2, <3>2, <4>1, MadeOne
      <4> QED BY <1>3, <4>2, Zenon
    <3>3. CASE Kind(o) \notin Lists /\ Kind(o) \notin OneValue
      BY <3>3, Zenon DEF MadeOf
    <3> QED BY <3>1, <3>2, <3>3
  <2>2. \A q \in Opt : MadeOf(q, texts'[q], value'[q], calls')
    BY <1>2, <1>3, <2>1, Zenon
  <2> QED BY <1>2, <1>3, <1>5, <1>6, <2>2, TextsIf, Zenon
<1>8. CASE p.error # "none" /\ Throw(p.error)
  <2>1. p.error \in {"none", "ParseError", "MapError"}
    <3>1. Left(o, p)
      BY InvTypes, ParseValueFacts
    <3> QED BY <3>1, Zenon DEF Left
  <2>2. pc' = "idle" /\ result' # "done"
    BY <1>8, <2>1, Zenon DEF Throw
  <2> QED BY <1>2, <1>3, <1>5, <2>2, TextsIf, Zenon
<1> QED BY <1>1, <1>7, <1>8, Zenon

LEMMA PositionalTexts ==
  ASSUME Control, TextsRead, PositionalArg
  PROVE  TextsRead'
<1>1. /\ AtChunk /\ UNCHANGED <<parser, calls>>
      /\ \/ pc' = "idle" /\ result' = "ParseError"
         \/ \E k \in DOMAIN Flat : /\ Flat[k] \in Opt /\ Kind(Flat[k]) \in Positionals
                                   /\ Give(Flat[k], Chunk, it)
  BY PositionalFacts, Zenon
<1>2. pc = "chunk"
  BY <1>1, Zenon DEF AtChunk
<1>3. ASSUME NEW o \in Opt, Kind(o) \in Positionals, Give(o, Chunk, it) PROVE TextsRead'
  BY <1>1, <1>2, <1>3, GiveTexts
<1>4. CASE ReadyPositionals = {}
  <2>1. pc' = "idle" /\ result' = "ParseError" /\ texts' = texts
    BY <1>4, Zenon DEF PositionalArg, Throw
  <2> QED BY <1>1, <1>2, <2>1, QuietTexts, Zenon
<1>5. CASE ReadyPositionals # {}
  <2>1. PICK k \in ReadyPositionals :
          First(ReadyPositionals) = Flat[k] /\ Flat[k] \in Opt
    <3>1. ReadyPositionals \subseteq DOMAIN Flat
      BY Zenon DEF ReadyPositionals
    <3> QED BY <1>5, <3>1, InvTypes, FirstFacts, Zenon
  <2>2. Kind(Flat[k]) \in Positionals
    BY <2>1, Zenon DEF ReadyPositionals
  <2>3. Give(Flat[k], Chunk, it)
    BY <1>5, <2>1, Zenon DEF PositionalArg
  <2> QED BY <1>3, <2>1, <2>2, <2>3, Zenon
<1> QED BY <1>4, <1>5

LEMMA ValueTexts ==
  ASSUME Control, TextsRead, JoinedValue \/ SeparateValue \/ NoValue
  PROVE  TextsRead'
<1>1. pc = "value" /\ UNCHANGED <<parser, calls>>
  BY JoinedFacts, SeparateFacts, NoValueFacts, Zenon
<1>2. flag \in Opt /\ Kind(flag) \in Flags /\ \A q \in Opt : HasText(q)
  BY <1>1, FlagFacts, Zenon DEF TextsRead
<1>3. PICK o : o = flag
  BY Zenon
<1>4. CASE JoinedValue \/ SeparateValue
  <2>1. /\ Kind(o) \in ValueFlags \cup Positionals /\ o \in Opt
        /\ \A q \in Opt : q # o => ~(pc = "value" /\ flag = q)
    BY <1>2, <1>3, <1>4, JoinedFacts, SeparateFacts, Zenon
  <2>2. \/ \E t, i : Give(o, t, i)
        \/ pc' = "idle" /\ result' = "ParseError" /\ texts' = texts
    BY <1>3, <1>4, Zenon DEF JoinedValue, SeparateValue, Throw
  <2>3. ASSUME NEW t, NEW i, Give(o, t, i) PROVE TextsRead'
    BY <1>1, <2>1, <2>3, GiveTexts
  <2>4. CASE pc' = "idle" /\ result' = "ParseError" /\ texts' = texts
    BY <1>1, <2>4, QuietTexts, Zenon
  <2> QED BY <2>2, <2>3, <2>4, Zenon
<1>5. CASE NoValue
  <2>1. Kind(flag) \notin ValueFlags /\ UNCHANGED <<matched, value, texts>>
    BY <1>5, NoValueFacts, Zenon DEF NoValue
  <2>2. ASSUME NEW q \in Opt PROVE HasText(q)'
    <3>1. matched[q] /\ Kind(q) \in ValueFlags \cup Positionals => texts[q] # <<>>
      BY <1>2, <2>1, Classes, Zenon DEF HasText
    <3> QED BY <1>1, <2>1, <3>1, SameParser, Zenon DEF HasText
  <2> QED BY <1>1, <2>1, <2>2, QuietTexts, Zenon
<1> QED BY <1>4, <1>5

LEMMA PlainTexts ==
  ASSUME TextsRead, Terminator \/ EndOfArgs
  PROVE  TextsRead'
<1>1. pc = "chunk" /\ UNCHANGED <<parser, calls, matched, value, texts>>
  BY Zenon DEF Terminator, EndOfArgs, AtChunk
<1>2. ASSUME NEW q \in Opt PROVE HasText(q)'
  <2>1. matched[q] /\ Kind(q) \in ValueFlags \cup Positionals => texts[q] # <<>>
    BY <1>1, Zenon DEF TextsRead, HasText
  <2> QED BY <1>1, <2>1, SameParser, Zenon DEF HasText
<1> QED BY <1>1, <1>2, QuietTexts, Zenon

\* Reset leaves single values alone: they are the defaults in the first call only.
LEMMA ResetTexts ==
  ASSUME Control, TextsRead, NEW a, ParseCLI(a)
  PROVE  TextsRead'
<1>1. /\ parser' = parser /\ calls' = calls + 1 /\ pc' = "chunk"
      /\ matched' = [o \in Opt |-> FALSE] /\ texts' = [o \in Opt |-> <<>>]
      /\ value' = [o \in Opt |-> ResetValue(o)]
  BY Zenon DEF ParseCLI
<1>2. calls' \in Nat /\ calls' # 0 /\ (calls' = 1 => calls = 0)
  <2>1. calls \in Nat
    BY Zenon DEF TextsRead
  <2> QED BY <1>1, <2>1, SMT
<1>3. ASSUME NEW o \in Opt PROVE MadeOf(o, texts'[o], value'[o], calls') /\ HasText(o)'
  <2>1. texts'[o] = <<>> /\ value'[o] = ResetValue(o) /\ matched'[o] = FALSE
    BY <1>1, Zenon
  <2>2. PICK ts, v : ts = texts'[o] /\ v = value'[o]
    BY Zenon
  <2>3. Len(ts) = 0 /\ DOMAIN ts = {}
    BY <2>1, <2>2, EmptyFacts, Zenon
  <2>4. Kind(o) \in Lists => Len(v) = 0 /\ DOMAIN v = {}
    BY <2>1, <2>2, EmptyFacts, Zenon DEF ResetValue
  <2>5. Kind(o) \in OneValue /\ calls' = 1 => v = Options[o].default
    <3>1. Kind(o) \in OneValue => Kind(o) \notin Lists /\ Kind(o) # "CounterFlag"
      BY Zenon DEF OneValue, Lists, Singles, SingleMaps
    <3>2. Kind(o) \in OneValue => v = value[o]
      BY <2>1, <2>2, <3>1, Zenon DEF ResetValue
    <3> QED BY <1>2, <3>2, Zenon DEF TextsRead
  <2>6. MadeOf(o, ts, v, calls')
    BY <2>3, <2>4, <2>5, Zenon DEF MadeOf
  <2>7. HasText(o)'
    BY <2>1, Zenon DEF HasText
  <2> QED BY <2>2, <2>6, <2>7, Zenon
<1>4. DOMAIN texts' = Opt /\ \A o \in Opt : IsSequence(texts'[o])
  BY <1>1, EmptyFacts, Zenon
<1> QED BY <1>1, <1>2, <1>3, <1>4, TextsIf, Zenon

LEMMA StutterTexts ==
  ASSUME TextsRead, UNCHANGED vars
  PROVE  TextsRead'
<1>1. UNCHANGED <<parser, matched, value, texts, calls, pc, flag, result>>
  BY Zenon DEF vars
<1>2. Opt' = Opt /\ Options' = Options /\ \A o : Kind(o)' = Kind(o)
  BY <1>1, SameParser
<1>3. \A o \in Opt : HasText(o) => HasText(o)'
  BY <1>1, <1>2, Zenon DEF HasText
<1>4. CASE calls = 0
  <2>1. ASSUME NEW o \in Opt, MadeOf(o, texts[o], value[o], calls)
        PROVE  MadeOf(o, texts[o], value[o], calls)'
    <3>1. PICK ts, v, k : ts = texts[o] /\ v = value[o] /\ k = calls
      BY Zenon
    <3>2. MadeOf(o, ts, v, k)'
      BY <1>1, <2>1, <3>1, MadeSame
    <3> QED BY <1>1, <3>1, <3>2, Zenon
  <2> QED BY <1>1, <1>2, <1>3, <2>1, Zenon DEF TextsRead
<1>5. CASE calls # 0
  <2>1. /\ DOMAIN texts' = Opt /\ calls' \in Nat /\ calls' # 0
        /\ \A o \in Opt : IsSequence(texts'[o])
        /\ pc' # "idle" \/ result' = "done" =>
             \A o \in Opt : MadeOf(o, texts'[o], value'[o], calls') /\ HasText(o)'
    BY <1>1, <1>3, <1>5, Zenon DEF TextsRead
  <2> QED BY <1>1, <2>1, TextsIf
<1> QED BY <1>4, <1>5

LEMMA TextsNext ==
  ASSUME Control, TextsRead, [Next]_vars
  PROVE  TextsRead'
<1>1. ASSUME NEW a, ParseCLI(a) PROVE TextsRead'
  BY <1>1, ResetTexts
<1> QED
  BY <1>1, PlainTexts, LookTexts, PositionalTexts, ValueTexts, StutterTexts,
     Zenon DEF Next, ParseArgs

----------------------------------------------------------------------------
(* Filling and HelpThrown. *)

LEMMA FillingSame ==
  ASSUME Control, Filling, parser' = parser,
         \A o \in Opt : Kind(o) \in Positionals =>
                          (matched'[o] <=> matched[o]) /\ (ready'[o] <=> ready[o])
  PROVE  Filling'
<1>1. Opt' = Opt /\ Flat' = Flat /\ \A o : Kind(o)' = Kind(o)
  BY SameParser
<1>2. \A i \in DOMAIN Flat : Flat[i] \in Opt
  BY InvTypes, ParserFacts
<1>3. PositionalsInOrder'
  BY <1>1, <1>2, Zenon DEF Filling, PositionalsInOrder
<1> QED BY <1>1, <1>3, Zenon DEF Filling

\* A flag takes a value: no positional is concerned.
LEMMA FlagFilling ==
  ASSUME Control, Filling, parser' = parser, NEW o \in Opt, Kind(o) \in Flags,
         NEW m, NEW r,
         matched' = [matched EXCEPT ![o] = m] \/ matched' = matched,
         ready' = [ready EXCEPT ![o] = r] \/ ready' = ready
  PROVE  Filling'
<1>1. \A q \in Opt : Kind(q) \in Positionals => q # o
  BY Classes, Zenon
<1>2. DOMAIN matched = Opt /\ DOMAIN ready = Opt
  BY InvTypes, Zenon
<1>3. \A q \in Opt : q # o => matched'[q] = matched[q] /\ ready'[q] = ready[q]
  BY <1>2, Zenon
<1> QED BY <1>1, <1>3, FillingSame, Zenon

LEMMA PositionalFilling ==
  ASSUME Control, Filling, PositionalArg
  PROVE  Filling'
<1>1. /\ parser' = parser
      /\ \/ UNCHANGED <<matched, ready>>
         \/ \E k \in DOMAIN Flat :
              /\ Flat[k] \in Opt /\ Kind(Flat[k]) \in Positionals
              /\ ready[Flat[k]]
              /\ \A j \in DOMAIN Flat :
                   Kind(Flat[j]) \in Positionals /\ j < k => ~ready[Flat[j]]
              /\ Give(Flat[k], Chunk, it)
  BY PositionalFacts, Zenon
<1>2. CASE UNCHANGED <<matched, ready>>
  BY <1>1, <1>2, FillingSame, Zenon
<1>3. ASSUME NEW k \in DOMAIN Flat, Flat[k] \in Opt, Kind(Flat[k]) \in Positionals,
             ready[Flat[k]],
             \A j \in DOMAIN Flat :
               Kind(Flat[j]) \in Positionals /\ j < k => ~ready[Flat[j]],
             Give(Flat[k], Chunk, it)
      PROVE  Filling'
  <2>1. PICK o : o = Flat[k]
    BY Zenon
  <2>2. o \in Opt /\ Kind(o) \in ValueFlags \cup Positionals /\ Give(o, Chunk, it)
    BY <1>3, <2>1, Zenon
  <2>3. PICK p : /\ Left(o, p)
                 /\ matched' = [matched EXCEPT ![o] = p.matched]
                 /\ ready' = [ready EXCEPT ![o] = p.ready]
    BY <2>2, GiveFacts
  <2>4. DOMAIN matched = Opt /\ DOMAIN ready = Opt
    BY InvTypes, Zenon
  <2>5. /\ matched'[o] = p.matched /\ ready'[o] = p.ready
        /\ \A q \in Opt : q # o => matched'[q] = matched[q] /\ ready'[q] = ready[q]
    BY <2>2, <2>3, <2>4, Zenon
  <2>6. /\ p.matched <=> matched[o] \/ p.error = "none"
        /\ ~p.ready => p.error = "none" /\ Kind(o) \notin Lists
    BY <1>3, <2>1, <2>3, Zenon DEF Left
  <2>7. Opt' = Opt /\ Flat' = Flat /\ \A q : Kind(q)' = Kind(q)
    BY <1>1, SameParser
  <2>8. \A q \in Opt : Kind(q) \in Positionals /\ ~ready'[q] =>
                         matched'[q] /\ Kind(q) \notin Lists
    BY <2>5, <2>6, Zenon DEF Filling
  <2>9. ASSUME NEW i \in DOMAIN Flat, NEW j \in DOMAIN Flat, i < j,
               Kind(Flat[i]) \in Positionals, Kind(Flat[j]) \in Positionals,
               matched'[Flat[j]]
        PROVE  matched'[Flat[i]] /\ Kind(Flat[i]) \notin Lists
    <3>1. Flat[i] \in Opt /\ Flat[j] \in Opt
      BY InvTypes, ParserFacts
    <3>2. matched[Flat[i]] => matched'[Flat[i]]
      BY <2>5, <2>6, <3>1, Zenon
    <3>3. CASE j = k
      BY <1>3, <2>9, <3>1, <3>2, <3>3, Zenon DEF Filling
    <3>4. CASE j # k
      <4>1. Flat[j] # o
        BY <2>1, <3>4, InvTypes, ParserFacts
      <4>2. matched[Flat[j]]
        BY <2>5, <2>9, <3>1, <4>1, Zenon
      <4> QED BY <2>9, <3>2, <4>2, Zenon DEF Filling, PositionalsInOrder
    <3> QED BY <3>3, <3>4
  <2>10. PositionalsInOrder'
    BY <2>7, <2>9, Zenon DEF PositionalsInOrder
  <2> QED BY <2>7, <2>8, <2>10, Zenon DEF Filling
<1> QED BY <1>1, <1>2, <1>3, Zenon

LEMMA FillingNext ==
  ASSUME Control, Filling, [Next]_vars
  PROVE  Filling'
<1>1. CASE PositionalArg
  BY <1>1, PositionalFilling
<1>2. CASE LongArg \/ ShortArg
  <2>1. /\ UNCHANGED <<parser, ready>>
        /\ \/ matched' = matched
           \/ \E o \in Opt : Kind(o) \in Flags /\ MatchFlag(o)
    BY <1>2, LookFacts, Zenon
  <2>2. CASE matched' = matched
    BY <2>1, <2>2, FillingSame, Zenon
  <2>3. ASSUME NEW o \in Opt, Kind(o) \in Flags, MatchFlag(o) PROVE Filling'
    <3>1. matched' = [matched EXCEPT ![o] = TRUE] \/ matched' = matched
      BY <2>3, MatchFlagFacts, Zenon
    <3> QED BY <2>1, <2>3, <3>1, FlagFilling
  <2> QED BY <2>1, <2>2, <2>3, Zenon
<1>3. CASE JoinedValue \/ SeparateValue
  <2>1. /\ pc = "value" /\ Kind(flag) \in ValueFlags /\ parser' = parser
        /\ \/ UNCHANGED <<matched, ready>>
           \/ \E t, i : Give(flag, t, i)
    BY <1>3, JoinedFacts, SeparateFacts, Zenon
  <2>2. PICK o : o = flag /\ o \in Opt /\ Kind(o) \in ValueFlags \cup Positionals
                 /\ Kind(o) \in Flags
    BY <2>1, FlagFacts, Zenon
  <2>3. CASE UNCHANGED <<matched, ready>>
    BY <2>1, <2>3, FillingSame, Zenon
  <2>4. ASSUME NEW t, NEW i, Give(flag, t, i) PROVE Filling'
    <3>1. Give(o, t, i)
      BY <2>2, <2>4, Zenon
    <3>2. PICK p : /\ matched' = [matched EXCEPT ![o] = p.matched]
                   /\ ready' = [ready EXCEPT ![o] = p.ready]
      BY <2>2, <3>1, GiveFacts
    <3>3. PICK m, r : /\ matched' = [matched EXCEPT ![o] = m]
                      /\ ready' = [ready EXCEPT ![o] = r]
      BY <3>2, Zenon
    <3> QED BY <2>1, <2>2, <3>3, FlagFilling, Zenon
  <2> QED BY <2>1, <2>3, <2>4, Zenon
<1>4. CASE Terminator \/ NoValue \/ EndOfArgs \/ UNCHANGED vars
  <2>1. UNCHANGED <<parser, matched, ready>>
    BY <1>4, Zenon DEF Terminator, NoValue, EndOfArgs, vars
  <2> QED BY <2>1, FillingSame, Zenon
<1>5. ASSUME NEW a, ParseCLI(a) PROVE Filling'
  <2>1. /\ parser' = parser /\ matched' = [o \in Opt |-> FALSE]
        /\ ready' = [o \in Opt |-> TRUE]
    BY <1>5, Zenon DEF ParseCLI
  <2>2. Opt' = Opt /\ Flat' = Flat /\ \A o : Kind(o)' = Kind(o)
    BY <2>1, SameParser
  <2>3. \A i \in DOMAIN Flat : Flat[i] \in Opt
    BY InvTypes, ParserFacts
  <2>4. \A o \in Opt : ready'[o] = TRUE /\ matched'[o] = FALSE
    BY <2>1, Zenon
  <2>5. PositionalsInOrder'
    BY <2>2, <2>3, <2>4, Zenon DEF PositionalsInOrder
  <2> QED BY <2>2, <2>4, <2>5, Zenon DEF Filling
<1> QED BY <1>1, <1>2, <1>3, <1>4, <1>5, Zenon DEF Next, ParseArgs

\* Only the match of a help flag throws Help.
LEMMA HelpNext ==
  ASSUME Control, ChunksTaken, HelpThrown, [Next]_vars
  PROVE  HelpThrown'
<1>1. CASE LongArg \/ ShortArg
  <2>1. /\ parser' = parser /\ AtChunk
        /\ \/ result' = "ParseError"
           \/ \E o \in Opt :
                MatchFlag(o) /\ roles' = Append(roles, Role(it, "flag", o))
    BY <1>1, LookFacts, Zenon
  <2>2. result = "none" /\ IsSequence(roles)
    BY <2>1, Zenon DEF AtChunk, Control, ChunksTaken, Consistent
  <2>3. ASSUME NEW o \in Opt, MatchFlag(o), roles' = Append(roles, Role(it, "flag", o)),
               result' = "Help"
        PROVE  HelpThrown'
    <3>1. Kind(o) = "HelpFlag"
      BY <2>2, <2>3, MatchFlagFacts, Zenon
    <3>2. /\ Len(roles') = Len(roles) + 1 /\ roles'[Len(roles) + 1].opt = o
          /\ Len(roles) \in Nat
      BY <2>2, <2>3, RoleAdded
    <3>3. roles'[Len(roles')].opt = o
      BY <3>2, Zenon
    <3>4. Len(roles') # 0
      BY <3>2, SMT
    <3>5. roles' # <<>>
      BY <3>4, EmptyFacts, Zenon
    <3>6. Opt' = Opt /\ Kind(o)' = Kind(o)
      BY <2>1, SameParser
    <3>7. Options'[roles'[Len(roles')].opt].kind = Kind(o)
      BY <3>3, <3>6, Zenon DEF Kind
    <3> QED BY <3>1, <3>3, <3>5, <3>6, <3>7, Zenon DEF HelpThrown, Kind
  <2> QED BY <2>1, <2>3, Zenon DEF HelpThrown
<1>2. CASE JoinedValue \/ SeparateValue \/ PositionalArg
  <2>1. /\ pc # "idle"
        /\ \/ result' = "ParseError"
           \/ \E o \in Opt : /\ Kind(o) \in ValueFlags \cup Positionals
                             /\ \E t, i : Give(o, t, i)
    BY <1>2, JoinedFacts, SeparateFacts, PositionalFacts, FlagFacts, Zenon DEF AtChunk
  <2>2. result = "none"
    BY <2>1, Zenon DEF Control
  <2>3. ASSUME NEW o \in Opt, Kind(o) \in ValueFlags \cup Positionals,
               NEW t, NEW i, Give(o, t, i)
        PROVE  result' # "Help"
    <3>1. PICK p : /\ Left(o, p)
                   /\ \/ /\ p.error = "none" /\ it' = i + 1
                         /\ \/ pc' = "idle" /\ result' = "kickout"
                            \/ pc' = "chunk" /\ result' = result
                      \/ /\ p.error # "none" /\ it' = i
                         /\ pc' = "idle" /\ result' = p.error
      BY <2>3, GiveFacts
    <3>2. p.error # "Help"
      BY <3>1, Zenon DEF Left
    <3> QED BY <2>2, <3>1, <3>2, Zenon
  <2> QED BY <2>1, <2>3, Zenon DEF HelpThrown
<1>3. CASE Terminator \/ NoValue \/ EndOfArgs
  <2>1. /\ pc # "idle"
        /\ \/ result' \in {"ParseError", "kickout", "done", "ValidationError"}
           \/ result' = result
    BY <1>3, NoValueFacts, Zenon DEF Terminator, AtChunk, NextChunk, EndOfArgs, Throw
  <2> QED BY <2>1, Zenon DEF Control, HelpThrown
<1>4. ASSUME NEW a, ParseCLI(a) PROVE HelpThrown'
  BY <1>4, Zenon DEF ParseCLI, HelpThrown
<1>5. CASE UNCHANGED vars
  <2>1. UNCHANGED <<parser, roles, result>>
    BY <1>5, Zenon DEF vars
  <2> QED BY <2>1, Zenon DEF HelpThrown, Opt, Kind, Options
<1> QED BY <1>1, <1>2, <1>3, <1>4, <1>5, Zenon DEF Next, ParseArgs

LEMMA ParserInvInit == Init => ParserInv
<1> SUFFICES ASSUME Init PROVE ParserInv
  OBVIOUS
<1>1. /\ pc = "idle" /\ result = "none" /\ parser \in DOMAIN Parsers
      /\ matched = [o \in Opt |-> FALSE] /\ ready = [o \in Opt |-> TRUE]
  BY Zenon DEF Init
<1>2. \A o \in Opt : ready[o] = TRUE /\ matched[o] = FALSE
  BY <1>1, Zenon
<1>3. \A i \in DOMAIN Flat : Flat[i] \in Opt
  BY <1>1, ParserFacts
<1>4. Filling
  BY <1>2, <1>3, Zenon DEF Filling, PositionalsInOrder
<1>5. Reports /\ HelpThrown
  BY <1>1, Zenon DEF Reports, HelpThrown
<1>6. TextsRead
  <2>1. /\ texts = [o \in Opt |-> <<>>] /\ calls = 0
        /\ value = [o \in Opt |-> Options[o].default]
    BY Zenon DEF Init
  <2>2. DOMAIN texts = Opt /\ \A o \in Opt : IsSequence(texts[o])
    BY <2>1, EmptyFacts, Zenon
  <2>3. \A o \in Opt : value[o] = Options[o].default
    BY <2>1, Zenon
  <2>4. calls \in Nat
    BY <2>1, SMT
  <2> QED BY <1>1, <2>2, <2>3, <2>4, Zenon DEF TextsRead
<1> QED BY <1>4, <1>5, <1>6, ControlInit, TakenInit, Zenon DEF ParserInv

LEMMA ParserInvNext == ParserInv /\ [Next]_vars => ParserInv'
<1> SUFFICES ASSUME ParserInv, [Next]_vars PROVE ParserInv'
  OBVIOUS
<1>1. Control /\ ChunksTaken /\ Reports /\ TextsRead /\ Filling /\ HelpThrown
  BY Zenon DEF ParserInv
<1> QED
  BY <1>1, ControlNext, TakenNext, ReportsNext, TextsNext, FillingNext, HelpNext,
     Zenon DEF ParserInv

----------------------------------------------------------------------------
(* The theorems about the parser. *)

\* ParserInv holds in every state of ParseArgs, whatever the tree, the chunks
\* and the number of calls.
THEOREM ParserInvariant == Spec => []ParserInv
  BY ParserInvInit, ParserInvNext, PTL DEF Spec

\* The iterators of ParseArgs stay inside the command line, the flag that waits
\* for a value is an option of the tree, and every option holds a value of its
\* class: no ParseValue stores into a value that cannot take it.
THEOREM ParserTypes == Spec => []TypeOK
<1>1. ParserInv => TypeOK
  BY Zenon DEF ParserInv, Control
<1> QED BY <1>1, ParserInvariant, PTL

\* EveryChunkOnce, from what ParseArgs has taken when it returns.
LEMMA ChunksInv == ParserInv => EveryChunkOnce
<1> DEFINE kinds == {"flag", "value", "positional", "terminator"}
<1> SUFFICES ASSUME ParserInv, result = "done"
             PROVE  /\ UNION {RolesAs(k) : k \in kinds} = DOMAIN args
                    /\ \A k, l \in kinds : k # l => RolesAs(k) \cap RolesAs(l) = {}
  BY Zenon DEF EveryChunkOnce
<1>1. /\ TakenSoFar = DOMAIN args
      /\ \A i \in DOMAIN roles : roles[i].as \in kinds
      /\ \A i, j \in DOMAIN roles :
           roles[i].at = roles[j].at => roles[i].as = roles[j].as
  BY Zenon DEF ParserInv, ChunksTaken, Consistent
<1> HIDE DEF kinds
<1>2. \A x : x \in TakenSoFar <=> \E i \in DOMAIN roles : x = roles[i].at
  BY Zenon DEF TakenSoFar
<1>3. ASSUME NEW x PROVE x \in UNION {RolesAs(k) : k \in kinds} <=> x \in TakenSoFar
  <2>1. ASSUME x \in UNION {RolesAs(k) : k \in kinds} PROVE x \in TakenSoFar
    <3>1. PICK k \in kinds : x \in RolesAs(k)
      BY <2>1, Zenon
    <3> QED BY <3>1, Zenon DEF RolesAs, TakenSoFar
  <2>2. ASSUME x \in TakenSoFar PROVE x \in UNION {RolesAs(k) : k \in kinds}
    <3>1. PICK i \in DOMAIN roles : x = roles[i].at
      BY <1>2, <2>2, Zenon
    <3>2. PICK k \in kinds : x \in RolesAs(k)
      BY <1>1, <3>1, Zenon DEF RolesAs
    <3>3. RolesAs(k) \in {RolesAs(l) : l \in kinds}
      BY Zenon
    <3> QED BY <3>2, <3>3, Zenon
  <2> QED BY <2>1, <2>2
<1>4. ASSUME NEW k \in kinds, NEW l \in kinds, k # l, NEW x \in RolesAs(k) \cap RolesAs(l)
      PROVE  FALSE
  <2>1. PICK i \in DOMAIN roles : roles[i].as = k /\ x = roles[i].at
    BY Zenon DEF RolesAs
  <2>2. PICK j \in DOMAIN roles : roles[j].as = l /\ x = roles[j].at
    BY Zenon DEF RolesAs
  <2> QED BY <1>1, <1>4, <2>1, <2>2, Zenon
<1>5. UNION {RolesAs(k) : k \in kinds} = DOMAIN args
  BY <1>1, <1>3, Zenon
<1> QED BY <1>4, <1>5, Zenon

\* A command line that ParseArgs accepts has every chunk taken for exactly one
\* thing, although the iterator is advanced in three places: by the loop, by the
\* value in a chunk of its own and not at all inside a bundle of short flags.
THEOREM EveryChunkTaken == Spec => []EveryChunkOnce
  BY ChunksInv, ParserInvariant, PTL

\* What an accepted call reports of an option is made of what that call gave it:
\* the mark, the count, every element of a list and the single value, although
\* Reset leaves single values alone.  The exception is the one of AboutThisCall:
\* a value for which the call gave no text, or nothing but empty ones.
THEOREM ReportsThisCall == Spec => []AboutThisCall
<1>1. ParserInv => AboutThisCall
  <2> SUFFICES ASSUME ParserInv, result = "done" PROVE AboutThisCall
    BY Zenon DEF AboutThisCall
  <2>1. ASSUME NEW o \in Opt
        PROVE  /\ Report(o) /\ MadeOf(o, texts[o], value[o], calls) /\ HasText(o)
               /\ pc = "idle"
    BY Zenon DEF ParserInv, Reports, TextsRead, Control
  <2>2. ASSUME NEW o \in Opt
        PROVE  /\ matched[o] <=> Given(o) # {}
               /\ Kind(o) = "CounterFlag" =>
                    value[o] = Options[o].default + Cardinality(Given(o))
               /\ Kind(o) \in {"PositionalList", "MapPositionalList"} =>
                    Len(value[o]) = Cardinality(Given(o))
               /\ Kind(o) \in {"ValueFlagList", "MapFlagList"} =>
                    Len(value[o]) =
                      Cardinality({i \in Given(o) : roles[i].as = "flag"})
    BY <2>1, Classes, Zenon DEF Report, FlagRoles
  <2>3. ASSUME NEW o \in Opt
        PROVE  matched[o] /\ Kind(o) \in ValueFlags \cup Positionals =>
                 texts[o] # <<>>
    BY <2>1, Zenon DEF HasText
  <2> QED BY <2>1, <2>2, <2>3, Zenon DEF AboutThisCall, MadeOf, OneValue
<1> QED BY <1>1, ParserInvariant, PTL

\* GetNextPositional fills the positionals in the order of the tree, and a list
\* keeps everything behind it empty.
THEOREM PositionalsFilledInOrder == Spec => []PositionalsInOrder
<1>1. ParserInv => PositionalsInOrder
  BY Zenon DEF ParserInv, Filling
<1> QED BY <1>1, ParserInvariant, PTL
=============================================================================
