--------------------------- MODULE ArgumentParser ---------------------------
(***************************************************************************)
(* The command line parser of include/args.h: the tree of groups and       *)
(* options, the option classes with their values, and ParseArgs, which     *)
(* walks over the chunks of a command line.                                *)
(*                                                                         *)
(* A text is a sequence of symbols: the prefixes "--" and "-", the         *)
(* separator "=", numerals, letters and words.  A chunk is a text, and so  *)
(* is the value of a flag, whether it is joined or a chunk of its own.     *)
(* ParseArgs may be called again on the same parser, with other chunks.    *)
(* The header is a library: the parsers are those of this program and of   *)
(* others, which use the classes this one does not.                        *)
(***************************************************************************)
EXTENDS Integers, FiniteSets, Sequences

CONSTANTS
  Parsers,       \* name -> [options, children, validator, allow, lines, calls]
  Number,        \* numeral -> the integer it denotes
  IntMax,        \* bound of int, smaller than 2^31 - 1 to stay in TLC's integers
  Uninitialised  \* what a variable of type int may hold before it is assigned

VARIABLES
  parser,        \* the name of the parser at hand
  args, it,      \* the chunks of this call and the chunk ParseArgs is at
  argit,         \* the position inside a bundle of short flags
  terminated,    \* the terminator has been seen
  pc,            \* "idle", "chunk" or "value": where ParseArgs is
  form,          \* "long" or "short": how the flag at hand was written
  flag,          \* the flag at hand
  joined,        \* <<t>> when text t is joined to it, <<>> otherwise
  matched,       \* option -> it was matched
  ready,         \* positional -> it can take a value
  value,         \* option -> value, list of values or count
  result,        \* "done", "kickout" or the exception thrown
  calls,         \* number of calls so far
  roles,         \* what each chunk of this call was taken for
  texts          \* option -> the texts this call has given it

vars == <<parser, args, it, argit, terminated, pc, form, flag, joined, matched,
          ready, value, result, calls, roles, texts>>

\* What a parser is made of.  An option is a record [kind, type, short, long,
\* extraError, kickout, map, default]; a group has its children, options and
\* groups, in order and the name of its validator; the argument separations map
\* a form to [joined, separate].  The command lines given to ParseCLI and their
\* number are bounded.
Options == Parsers[parser].options
Children == Parsers[parser].children
Validator == Parsers[parser].validator
Allow == Parsers[parser].allow
CommandLines == Parsers[parser].lines
MaxCalls == Parsers[parser].calls
Root == "parser"

Groups == DOMAIN Children
ValueFlags == {"ValueFlag", "ValueFlagList", "MapFlag", "MapFlagList"}
Flags == {"Flag", "HelpFlag", "CounterFlag"} \cup ValueFlags
Positionals ==
  {"Positional", "PositionalList", "MapPositional", "MapPositionalList"}
Singles == {"ValueFlag", "Positional"}
SingleMaps == {"MapFlag", "MapPositional"}
Lists == {"ValueFlagList", "MapFlagList", "PositionalList", "MapPositionalList"}
ValueMaps == SingleMaps \cup {"MapFlagList", "MapPositionalList"}

Opt == DOMAIN Options
Kind(o) == Options[o].kind

\* s is a sequence, and the least of a set of places in one.
IsSequence(s) == s \in Seq({s[i] : i \in DOMAIN s})
Least(places) == CHOOSE i \in places : \A j \in places : i <= j

-----------------------------------------------------------------------------
(* Groups. *)

\* The options of a parser in the order of a depth-first walk from the root.
Walk(p) ==
  LET walk[todo \in Seq(DOMAIN p.children \cup DOMAIN p.options)] ==
        IF todo = <<>> THEN <<>>
        ELSE IF Head(todo) \in DOMAIN p.children
             THEN walk[p.children[Head(todo)] \o Tail(todo)]
             ELSE <<Head(todo)>> \o walk[Tail(todo)]
  IN walk[<<Root>>]
Walks == [name \in DOMAIN Parsers |-> Walk(Parsers[name])]
Flat == Walks[parser]

\* What the constructors of the options and Group::Add see to: the groups are a
\* tree in which each option is once, and an option holds a value of its class.
ASSUME ParsersAssumption ==
  /\ IntMax \in Nat
  /\ \A numeral \in DOMAIN Number : Number[numeral] \in Nat
  /\ \A name \in DOMAIN Parsers :
       LET p == Parsers[name]
       IN /\ Root \in DOMAIN p.children
          /\ Walks[name] \in Seq(DOMAIN p.options)
          /\ \A i, j \in DOMAIN Walks[name] :
               Walks[name][i] = Walks[name][j] => i = j
          /\ \A line \in p.lines : IsSequence(line)
          /\ \A o \in DOMAIN p.options :
               LET opt == p.options[o]
               IN /\ o \notin DOMAIN p.children
                  /\ opt.kind \in Flags \cup Positionals
                  /\ opt.type \in {"bool", "int", "string"}
                  /\ opt.kind \in Lists => IsSequence(opt.default)
                  /\ opt.kind = "CounterFlag" => opt.default \in Int
                  /\ opt.kind \in Singles /\ opt.type = "int" =>
                       opt.default \in Int

\* Group::Match: the places of the flags that have the name; it returns the
\* first of them.
Match(names, name) ==
  {i \in DOMAIN Flat :
     Kind(Flat[i]) \in Flags /\ name \in Options[Flat[i]][names]}
First(places) == Flat[Least(places)]

\* Group::GetNextPositional: the places of the positionals that are ready; it
\* returns the first of them.
ReadyPositionals ==
  {i \in DOMAIN Flat : Kind(Flat[i]) \in Positionals /\ ready[Flat[i]]}

\* Group::Matched and the validators.
Matched[c \in Groups \cup Opt] ==
  IF c \notin Groups THEN matched[c]
  ELSE LET all == DOMAIN Children[c]
           hit == {i \in all : Matched[Children[c][i]]}
       IN CASE Validator[c] = "Xor" -> Cardinality(hit) = 1
            [] Validator[c] = "AtLeastOne" -> hit # {}
            [] Validator[c] = "AtMostOne" -> Cardinality(hit) <= 1
            [] Validator[c] = "All" -> hit = all
            [] Validator[c] = "AllOrNone" -> hit \in {all, {}}
            [] Validator[c] = "AllChildGroups" ->
                 \A i \in all : Children[c][i] \in Groups => i \in hit
            [] Validator[c] = "DontCare" -> TRUE
            [] Validator[c] = "CareTooMuch" -> FALSE
            [] Validator[c] = "None" -> hit = {}

-----------------------------------------------------------------------------
(* Values. *)

\* operator>> into an int: an optional sign and a numeral, saturating at the
\* limits of int; 0 when there is no numeral.
Sign(t) == IF Head(t) = "-" THEN 1 ELSE 0
HasNumeral(t) == Len(t) > Sign(t) /\ t[Sign(t) + 1] \in DOMAIN Number
Extracted(t) ==
  IF ~HasNumeral(t) THEN 0
  ELSE LET n == Number[t[Sign(t) + 1]] IN
       IF Sign(t) = 1 THEN (IF n > IntMax THEN -IntMax - 1 ELSE -n)
       ELSE (IF n > IntMax THEN IntMax ELSE n)
Consumed(t) == Sign(t) + (IF HasNumeral(t) THEN 1 ELSE 0)

\* ValueReader: what it may leave in a destination that held one of the values
\* in before, and whether it is content.  A string is copied.  Extracting from
\* an empty text leaves the destination alone and no characters behind.
ValueReader(o, t, before) ==
  IF Options[o].type = "string" THEN {[ok |-> TRUE, v |-> t]}
  ELSE IF t = <<>> THEN {[ok |-> TRUE, v |-> b] : b \in before}
  ELSE {[ok |-> Consumed(t) = Len(t), v |-> Extracted(t)]}

\* What ParseValue leaves behind: the value, the two marks and the exception.
Parsed(o, ok, exception, v) ==
  [value |-> v, matched |-> matched[o] \/ ok, ready |-> ready[o],
   error |-> IF ok THEN "none" ELSE exception]

\* A positional that has taken its value is not ready for another.
Filled(p) == [p EXCEPT !.ready = p.error # "none"]

\* The ParseValue of each class.  ValueFlag and Positional read into the value
\* itself, the others into a local variable that is not initialised.
ValueFlag(o, t) ==
  {Parsed(o, r.ok, "ParseError", r.v) : r \in ValueReader(o, t, {value[o]})}
Positional(o, t) ==
  {Filled(Parsed(o, r.ok, "ParseError", r.v)) :
     r \in ValueReader(o, t, {value[o]})}
ValueFlagList(o, t) ==
  {Parsed(o, r.ok, "ParseError",
          IF r.ok THEN Append(value[o], r.v) ELSE value[o]) :
     r \in ValueReader(o, t, Uninitialised)}
\* PositionalList gone wrong: it takes one value only.
PositionalListFilled(o, t) ==
  {Filled(Parsed(o, r.ok, "ParseError",
                 IF r.ok THEN Append(value[o], r.v) ELSE value[o])) :
     r \in ValueReader(o, t, Uninitialised)}
PositionalList(o, t) ==
  {Parsed(o, r.ok, "ParseError",
          IF r.ok THEN Append(value[o], r.v) ELSE value[o]) :
     r \in ValueReader(o, t, Uninitialised)}

\* The lookup of a key that was read: it is found, or the exception is thrown.
Found(o, r) == r.ok /\ r.v \in DOMAIN Options[o].map
LookupError(r) == IF r.ok THEN "MapError" ELSE "ParseError"

MapFlag(o, t) ==
  {Parsed(o, Found(o, r), LookupError(r),
          IF Found(o, r) THEN Options[o].map[r.v] ELSE value[o]) :
     r \in ValueReader(o, t, Uninitialised)}
MapPositional(o, t) ==
  {Filled(Parsed(o, Found(o, r), LookupError(r),
                 IF Found(o, r) THEN Options[o].map[r.v] ELSE value[o])) :
     r \in ValueReader(o, t, Uninitialised)}
MapFlagList(o, t) ==
  {Parsed(o, Found(o, r), LookupError(r),
          IF Found(o, r) THEN Append(value[o], Options[o].map[r.v])
          ELSE value[o]) :
     r \in ValueReader(o, t, Uninitialised)}
MapPositionalList(o, t) ==
  {Parsed(o, Found(o, r), LookupError(r),
          IF Found(o, r) THEN Append(value[o], Options[o].map[r.v])
          ELSE value[o]) :
     r \in ValueReader(o, t, Uninitialised)}

ParseValue(o, t) ==
  CASE Kind(o) = "ValueFlag" -> ValueFlag(o, t)
    [] Kind(o) = "ValueFlagList" -> ValueFlagList(o, t)
    [] Kind(o) = "MapFlag" -> MapFlag(o, t)
    [] Kind(o) = "MapFlagList" -> MapFlagList(o, t)
    [] Kind(o) = "Positional" -> Positional(o, t)
    [] Kind(o) = "PositionalList" -> PositionalList(o, t)
    [] Kind(o) = "MapPositional" -> MapPositional(o, t)
    [] Kind(o) = "MapPositionalList" -> MapPositionalList(o, t)

-----------------------------------------------------------------------------
(* ParseArgs. *)

Chunk == args[it]
Throw(exception) == pc' = "idle" /\ result' = exception
Role(i, as, o) == [at |-> i, as |-> as, opt |-> o]

\* NextChunk gone wrong: the iterator moves twice.
NextChunkSkips(i) ==
  pc' = "chunk" /\ it' = i + 1 /\ UNCHANGED result

\* Go on with the next chunk, or leave because of a kick-out.
NextChunk(i) ==
  pc' = "chunk" /\ it' = i /\ UNCHANGED result
LeaveAt(i) ==
  pc' = "idle" /\ it' = i /\ result' = "kickout"

\* AfterValue gone wrong: a value in a chunk of its own is read again.
AfterValueRereads(o, i) ==
  NextChunk(IF Kind(o) \in ValueFlags /\ joined = <<>> THEN i - 1 ELSE i)

\* Where to go on once option o has its value: the kick-out is looked at after a
\* positional and a long flag, a short flag leaves its bundle first.
AfterValue(o, i) ==
  IF Options[o].kickout /\ (Kind(o) \in Positionals \/ form = "long")
  THEN LeaveAt(i) ELSE NextChunk(i)

\* Give text t, in chunk i, to option o, which takes it or throws.
Give(o, t, i) ==
  \E p \in ParseValue(o, t) :
    /\ value' = [value EXCEPT ![o] = p.value]
    /\ matched' = [matched EXCEPT ![o] = p.matched]
    /\ ready' = [ready EXCEPT ![o] = p.ready]
    /\ texts' = [texts EXCEPT ![o] = Append(@, t)]
    /\ \/ p.error = "none" /\ AfterValue(o, i + 1)
       \/ p.error # "none" /\ Throw(p.error) /\ it' = i

\* FlagBase::Match of an option that has the name, with what HelpFlag and
\* CounterFlag add to it.
MatchFlag(o) ==
  IF Options[o].extraError /\ matched[o]
  THEN Throw("ExtraError") /\ UNCHANGED <<matched, value>>
  ELSE /\ matched' = [matched EXCEPT ![o] = TRUE]
       /\ IF Kind(o) = "HelpFlag" THEN Throw("Help")
          ELSE pc' = "value" /\ UNCHANGED result
       /\ value' = IF Kind(o) = "CounterFlag"
                   THEN [value EXCEPT ![o] = @ + 1] ELSE value

\* A name has been read: no flag has it, or the first one that has is matched.
Lookup(hit, how, rest) ==
  /\ \/ /\ hit = {}
        /\ Throw("ParseError")
        /\ UNCHANGED <<matched, value, form, flag, joined, roles>>
     \/ /\ hit # {}
        /\ MatchFlag(First(hit))
        /\ form' = how
        /\ flag' = First(hit)
        /\ joined' = rest
        /\ roles' = Append(roles, Role(it, "flag", First(hit)))
  /\ UNCHANGED <<parser, args, it, argit, terminated, ready, calls, texts>>

AtChunk == pc = "chunk" /\ it <= Len(args)
IsTerminator == ~terminated /\ Chunk = <<"--">>
IsLong == ~terminated /\ Len(Chunk) > 1 /\ Chunk[1] = "--"
IsShort == ~terminated /\ Len(Chunk) > 1 /\ Chunk[1] = "-"

\* The chunk is the terminator.
Terminator ==
  /\ AtChunk /\ IsTerminator
  /\ terminated' = TRUE
  /\ NextChunk(it + 1)
  /\ roles' = Append(roles, Role(it, "terminator", "none"))
  /\ UNCHANGED <<parser, args, argit, form, flag, joined, matched, ready, value,
                 calls, texts>>

\* The chunk is a long flag, with or without the separator and a value.
LongArg ==
  /\ AtChunk /\ IsLong
  /\ LET argchunk == Tail(Chunk)
         separators == {i \in DOMAIN argchunk : argchunk[i] = "="}
         arg == IF separators = {} THEN argchunk
                ELSE SubSeq(argchunk, 1, Least(separators) - 1)
     IN Lookup(IF Len(arg) = 1 THEN Match("long", arg[1]) ELSE {}, "long",
               IF separators = {} THEN <<>>
               ELSE <<SubSeq(argchunk, Least(separators) + 1, Len(argchunk))>>)

\* The chunk is a bundle of short flags; the one at argit is looked at.
ShortArg ==
  /\ AtChunk /\ IsShort
  /\ LET argchunk == Tail(Chunk)
         rest == SubSeq(argchunk, argit + 1, Len(argchunk))
     IN Lookup(Match("short", argchunk[argit]), "short",
               IF rest = <<>> THEN <<>> ELSE <<rest>>)

\* A flag that takes a value, and text joined to it.
JoinedValue ==
  /\ pc = "value" /\ Kind(flag) \in ValueFlags /\ joined # <<>>
  /\ \/ Allow[form].joined /\ Give(flag, joined[1], it)
     \/ /\ ~Allow[form].joined
        /\ Throw("ParseError")
        /\ UNCHANGED <<it, matched, ready, value, texts>>
  /\ argit' = 1
  /\ UNCHANGED <<parser, args, terminated, form, flag, joined, calls, roles>>

\* A flag that takes a value, which is then the next chunk, whatever it is.
SeparateValue ==
  /\ pc = "value" /\ Kind(flag) \in ValueFlags /\ joined = <<>>
  /\ \/ /\ it < Len(args) /\ Allow[form].separate
        /\ Give(flag, args[it + 1], it + 1)
        /\ roles' = Append(roles, Role(it + 1, "value", flag))
     \/ /\ it = Len(args) \/ ~Allow[form].separate
        /\ Throw("ParseError")
        /\ it' = it + 1
        /\ UNCHANGED <<matched, ready, value, roles, texts>>
  /\ argit' = 1
  /\ UNCHANGED <<parser, args, terminated, form, flag, joined, calls>>

\* A flag that takes no value.
NoValue ==
  /\ pc = "value" /\ Kind(flag) \notin ValueFlags
  /\ LET bundled == form = "short" /\ joined # <<>>
     IN \/ form = "long" /\ joined # <<>> /\ Throw("ParseError")
           /\ UNCHANGED <<it, argit>>
        \/ /\ form = "short" \/ joined = <<>>
           /\ IF Options[flag].kickout THEN LeaveAt(it + 1)
              ELSE NextChunk(IF bundled THEN it ELSE it + 1)
           /\ argit' = IF bundled THEN argit + 1 ELSE 1
  /\ UNCHANGED <<parser, args, terminated, form, flag, joined, matched, ready,
                 value, calls, roles, texts>>

\* Anything else goes to the first positional that is ready.
PositionalArg ==
  /\ AtChunk /\ ~IsTerminator /\ ~IsLong /\ ~IsShort
  /\ IF ReadyPositionals = {}
     THEN /\ Throw("ParseError")
          /\ UNCHANGED <<it, matched, ready, value, roles, texts>>
     ELSE /\ Give(First(ReadyPositionals), Chunk, it)
          /\ roles' =
               Append(roles, Role(it, "positional", First(ReadyPositionals)))
  /\ UNCHANGED <<parser, args, argit, terminated, form, flag, joined, calls>>

\* No chunk is left: the groups are validated.
EndOfArgs ==
  /\ pc = "chunk" /\ it > Len(args)
  /\ Throw(IF Matched[Root] THEN "done" ELSE "ValidationError")
  /\ UNCHANGED <<parser, args, it, argit, terminated, form, flag, joined,
                 matched, ready, value, calls, roles, texts>>

\* ResetValue gone wrong: everything stays.
ResetValueKept(o) == value[o]

\* The value of an option after Reset: a list is emptied, a count starts anew,
\* a single value stays.
ResetValue(o) ==
  IF Kind(o) \in Lists THEN <<>>
  ELSE IF Kind(o) = "CounterFlag" THEN Options[o].default
  ELSE value[o]

\* ParseCLI: Reset, then the loop over the chunks.
ParseCLI(a) ==
  /\ calls' = calls + 1
  /\ args' = a
  /\ it' = 1
  /\ argit' = 1
  /\ terminated' = FALSE
  /\ pc' = "chunk"
  /\ result' = "none"
  /\ matched' = [o \in Opt |-> FALSE]
  /\ ready' = [o \in Opt |-> TRUE]
  /\ value' = [o \in Opt |-> ResetValue(o)]
  /\ roles' = <<>>
  /\ texts' = [o \in Opt |-> <<>>]
  /\ UNCHANGED <<parser, form, flag, joined>>

Init ==
  /\ parser \in DOMAIN Parsers
  /\ args = <<>> /\ it = 1 /\ argit = 1
  /\ terminated = FALSE
  /\ pc = "idle" /\ result = "none" /\ calls = 0
  /\ form = "long" /\ flag = "none" /\ joined = <<>>
  /\ matched = [o \in Opt |-> FALSE]
  /\ ready = [o \in Opt |-> TRUE]
  /\ value = [o \in Opt |-> Options[o].default]
  /\ roles = <<>>
  /\ texts = [o \in Opt |-> <<>>]

ParseArgs ==
  \/ Terminator \/ LongArg \/ ShortArg \/ PositionalArg
  \/ JoinedValue \/ SeparateValue \/ NoValue
  \/ EndOfArgs

Next ==
  \/ ParseArgs
  \/ pc = "idle" /\ calls < MaxCalls /\ \E a \in CommandLines : ParseCLI(a)
Spec == Init /\ [][Next]_vars

-----------------------------------------------------------------------------
(* Properties. *)

Exceptions == {"ParseError", "MapError", "ExtraError", "Help", "ValidationError"}
RolesAs(as) == {roles[i].at : i \in {j \in DOMAIN roles : roles[j].as = as}}
Given(o) ==
  {i \in DOMAIN roles : roles[i].opt = o /\ roles[i].as # "terminator"}

\* The control state of ParseArgs and the marks of the options.
TypeOK ==
  /\ it \in 1..Len(args) + 1
  /\ argit \in Nat \ {0}
  /\ pc \in {"idle", "chunk", "value"}
  /\ form \in {"long", "short"} /\ (pc = "value" => flag \in Opt)
  /\ matched \in [Opt -> BOOLEAN] /\ ready \in [Opt -> BOOLEAN]
  /\ result \in {"none", "done", "kickout"} \cup Exceptions
  /\ \A o \in Opt :
       /\ Kind(o) \in Lists => IsSequence(value[o])
       /\ Kind(o) \in Singles /\ Options[o].type = "int" => value[o] \in Int

\* A command line that parses has every chunk taken for exactly one thing: a
\* chunk consumed as the value of a flag is not looked at again as a flag or a
\* positional, and none is passed over, although ParseArgs advances its
\* iterator in three places.
EveryChunkOnce ==
  result = "done" =>
    LET kinds == {"flag", "value", "positional", "terminator"}
    IN /\ UNION {RolesAs(k) : k \in kinds} = DOMAIN args
       /\ \A k, l \in kinds : k # l => RolesAs(k) \cap RolesAs(l) = {}

\* v is what option o makes of text t, and t is one that leaves something in o:
\* the extraction from an empty text assigns nothing, and Reset does not clear
\* the value that ValueFlag and Positional read into.
Reads(o, t, v) ==
  \E r \in ValueReader(o, t, Uninitialised) :
    IF Kind(o) \in ValueMaps THEN Found(o, r) /\ v = Options[o].map[r.v]
    ELSE r.ok /\ v = r.v
Leaves(o, t) ==
  Kind(o) \in SingleMaps \/ Options[o].type = "string" \/ t # <<>>

\* What an option reports after a successful call is about this call's command
\* line, whatever an earlier call, successful or not, left behind: it is matched
\* iff the line gave it, with a text if it takes one; its count starts anew; its
\* list has one element per time it was given, each one made of the text given
\* then; its single value is made of the last text.  There is one exception,
\* since Reset clears no single value: one that this call gives no text, or, in
\* a ValueFlag or Positional of a type other than std::string, only empty ones,
\* is the default in the first call and in a later call that of an earlier one.
\* With empty texts the option is matched all the same.
AboutThisCall ==
  result = "done" =>
    \A o \in Opt :
      LET left == {i \in DOMAIN texts[o] : Leaves(o, texts[o][i])}
      IN /\ matched[o] <=> Given(o) # {}
         /\ matched[o] /\ Kind(o) \in ValueFlags \cup Positionals =>
              texts[o] # <<>>
         /\ Kind(o) = "CounterFlag" =>
              value[o] = Options[o].default + Cardinality(Given(o))
         /\ Kind(o) \in {"PositionalList", "MapPositionalList"} =>
              Len(value[o]) = Cardinality(Given(o))
         /\ Kind(o) \in {"ValueFlagList", "MapFlagList"} =>
              Len(value[o]) =
                Cardinality({i \in Given(o) : roles[i].as = "flag"})
         /\ Kind(o) \in Lists =>
              /\ Len(value[o]) = Len(texts[o])
              /\ \A i \in DOMAIN value[o] : Reads(o, texts[o][i], value[o][i])
         /\ Kind(o) \in Singles \cup SingleMaps =>
              /\ \A i \in left :
                   (\A j \in left : j <= i) => Reads(o, texts[o][i], value[o])
              /\ left = {} /\ calls = 1 => value[o] = Options[o].default

\* Positionals are filled in the order of the tree: one that has a value has
\* every earlier one filled, and none is filled behind a list, which takes all
\* that is left.
PositionalsInOrder ==
  LET pos == {i \in DOMAIN Flat : Kind(Flat[i]) \in Positionals}
  IN \A i, j \in pos :
       i < j /\ matched[Flat[j]] =>
         matched[Flat[i]] /\ Kind(Flat[i]) \notin Lists
=============================================================================
