-------------------------- MODULE MCArgumentParser --------------------------
(***************************************************************************)
(* Small parsers for TLC: one with every class of flag, two of them in a   *)
(* group of their own, and two with positionals, which differ in the list  *)
(* class that ends the line and in the separations they allow.             *)
(***************************************************************************)
EXTENDS ArgumentParser, SequencesExt

Option(kind, type, short, long, default) ==
  [kind |-> kind, type |-> type, short |-> short, long |-> long,
   extraError |-> FALSE, kickout |-> FALSE, map |-> <<>>, default |-> default]

MCAllow == [f \in {"long", "short"} |-> [joined |-> TRUE, separate |-> TRUE]]
MCRestricted ==
  [long |-> [joined |-> FALSE, separate |-> TRUE],
   short |-> [joined |-> TRUE, separate |-> FALSE]]

FlagOptions ==
  [help    |-> Option("HelpFlag", "bool", {}, {"help"}, FALSE),
   verbose |-> Option("Flag", "bool", {"v"}, {"verbose"}, FALSE),
   count   |-> Option("CounterFlag", "int", {"c"}, {}, 0),
   num     |-> [Option("ValueFlag", "int", {"n"}, {"num"}, 0)
                  EXCEPT !.extraError = TRUE],
   list    |-> Option("ValueFlagList", "int", {"l"}, {}, <<0>>),
   map     |-> [Option("MapFlag", "string", {}, {"map"}, 0)
                  EXCEPT !.map = <<"1">> :> 5 @@ <<"--">> :> 4],
   maps    |-> [Option("MapFlagList", "int", {"m"}, {}, <<>>)
                  EXCEPT !.map = 1 :> 5 @@ 3 :> 6]]
FlagChildren ==
  [parser |-> <<"help", "num", "pair", "list", "map", "maps">>,
   pair   |-> <<"verbose", "count">>]
FlagValidator == [parser |-> "AllChildGroups", pair |-> "AtMostOne"]
FlagChunks ==
  {<<"--", "help">>, <<"--", "verbose">>, <<"--", "verbose", "=", "1">>,
   <<"-", "c", "c">>, <<"-", "v", "n">>, <<"-", "c", "n", "999999">>,
   <<"--", "num", "=">>, <<"--", "num">>, <<"-", "l">>, <<"-", "l", "-">>,
   <<"--", "map">>, <<"--", "map", "=", "999999">>, <<"-", "m", "1">>, <<"-", "m">>,
   <<"--">>, <<"1">>, <<>>}

PositionalOptions ==
  [first  |-> Option("Positional", "int", {}, {}, 0),
   second |-> [Option("MapPositional", "string", {}, {}, 0)
                 EXCEPT !.map = <<"1">> :> 5 @@ <<"-", "v">> :> 6],
   rest   |-> Option("PositionalList", "int", {}, {}, <<0>>),
   maps   |-> [Option("MapPositionalList", "int", {}, {}, <<>>)
                 EXCEPT !.map = 1 :> 5],
   sub    |-> [Option("ValueFlag", "int", {"s"}, {"sub"}, 0)
                 EXCEPT !.kickout = TRUE],
   quit   |-> [Option("Flag", "bool", {"q"}, {}, FALSE)
                 EXCEPT !.kickout = TRUE],
   verbose |-> Option("Flag", "bool", {"v"}, {}, FALSE)]
ListLast ==
  [parser |-> <<"verbose", "sub", "quit", "first", "inner", "maps">>,
   inner  |-> <<"second", "rest">>]
MapsLast ==
  [parser |-> <<"verbose", "sub", "quit", "inner", "maps", "rest">>,
   inner  |-> <<"first", "second">>]
PositionalValidator == [parser |-> "AllChildGroups", inner |-> "AllOrNone"]
PositionalChunks ==
  {<<"1">>, <<"999999">>, <<"-", "v">>, <<"--">>, <<"-">>, <<>>,
   <<"--", "sub">>, <<"-", "s", "1">>, <<"-", "q", "v">>}

\* A bound on the chunks of a line, and one on the calls of ParseCLI, each.
Parser(options, children, validator, allow, chunks, maxChunks, maxCalls) ==
  [options |-> options, children |-> children, validator |-> validator,
   allow |-> allow, lines |-> BoundedSeq(chunks, maxChunks), calls |-> maxCalls]
FlagParser ==
  Parser(FlagOptions, FlagChildren, FlagValidator, MCAllow, FlagChunks, 2, 2)
ListLastParser ==
  Parser(PositionalOptions, ListLast, PositionalValidator, MCAllow,
         PositionalChunks, 4, 1)
MapsLastParser ==
  Parser(PositionalOptions, MapsLast, PositionalValidator, MCRestricted,
         PositionalChunks, 3, 2)
=============================================================================
