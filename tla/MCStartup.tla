----------------------------- MODULE MCStartup ------------------------------
(***************************************************************************)
(* The program's command lines and host files for TLC, beside the parsers  *)
(* of MCArgumentParser.  The host file "hosts" relies on the default port, *)
(* "mixed" names two processes on this host, "odd" and "far" have ports    *)
(* that stoi refuses.                                                      *)
(***************************************************************************)
EXTENDS Startup, MCArgumentParser

CONSTANT MaxChunks  \* bound on the chunks of a command line of the program

MCNumber ==
  "0" :> 0 @@ "1" :> 1 @@ "80" :> 80 @@ "5000" :> 5000 @@ "70536" :> 70536
    @@ "999999" :> 999999
MCUninitialised == {0, 3}

Word(host, port) == [host |-> host, port |-> port]
MCFiles ==
  <<"hosts">> :> <<Word("there", <<>>), Word("here", <<>>)>>
  @@ <<"mixed">> :> <<Word("here", <<<<"5000">>>>), Word("there", <<>>),
                      Word("here", <<<<"70536", "x">>>>)>>
  @@ <<"odd">> :> <<Word("here", <<<<"5000">>>>), Word("there", <<<<"x">>>>)>>
  @@ <<"far">> :> <<Word("here", <<<<"999999">>>>)>>
  @@ <<"-", "c">> :> <<Word("here", <<<<"5000">>>>)>>
  @@ <<"one">> :> <<Word("here", <<<<"5000">>>>)>>
  @@ <<"empty">> :> <<>>

Chunks ==
  {<<"-", "h", "hosts">>, <<"-", "h", "mixed">>, <<"--", "hostfile", "=", "odd">>,
   <<"-", "h", "one">>, <<"-", "h">>, <<"-", "h", "far">>,
   <<"-", "h", "lost">>, <<"-", "h", "empty">>,
   <<"-", "c">>, <<"-", "c", "1">>, <<"--", "count", "=">>, <<"1">>, <<"-", "1">>,
   <<"-", "d", "v", "p", "80">>, <<"--", "port", "=", "999999">>,
   <<"--", "id", "=", "1">>, <<"-", "i", "0">>, <<"-", "i", "-", "1">>,
   <<"--", "help">>}
\* No chunk comes twice on a line; an option may.
ProgramParser ==
  [Parser(ProgramOptions, ProgramChildren, ProgramValidator, ProgramAllow,
          Chunks, MaxChunks, 1) EXCEPT !.lines = {line \in @ : IsInjective(line)}]
MCParsers ==
  [program |-> ProgramParser, flags |-> FlagParser, lists |-> ListLastParser,
   maps |-> MapsLastParser]
MCProgramOnly == [program |-> ProgramParser]
=============================================================================
