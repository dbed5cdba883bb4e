------------------------------ MODULE Startup -------------------------------
(***************************************************************************)
(* main: the flags of the program, the host file, the process id, and the  *)
(* process that is started or the exit code.                               *)
(*                                                                         *)
(* A host file is the sequence of its words.  A word is a record of the    *)
(* part before the first colon and, when there is a colon, the text after  *)
(* it.  Process::Process and TotalOrder are in ProcessLifecycle.           *)
(***************************************************************************)
EXTENDS ArgumentParser

CONSTANTS
  Files,     \* text -> words, for the files that can be opened
  Hostname   \* what gethostname returns

VARIABLES
  stage,        \* "parsing", "hosts", "id", "running" or "exited"
  default_port, \* <<port>> when --port was given, <<>> otherwise
  hosts,        \* the words of the host file not yet read
  processes,    \* the process list so far
  id_val,
  send_count,   \* what TotalOrder is called with
  exit_code,
  menu          \* the help menu was printed

startup == <<stage, default_port, hosts, processes, id_val, send_count,
             exit_code, menu>>
allvars == <<vars, startup>>

\* The flags main registers with the parser, in order.
ProgramFlag(kind, type, short, long, default) ==
  [kind |-> kind, type |-> type, short |-> short, long |-> long,
   extraError |-> FALSE, kickout |-> FALSE, map |-> <<>>, default |-> default]
ProgramOptions ==
  [help     |-> ProgramFlag("HelpFlag", "bool", {}, {"help"}, FALSE),
   port     |-> ProgramFlag("ValueFlag", "int", {"p"}, {"port"}, 0),
   hostfile |-> ProgramFlag("ValueFlag", "string", {"h"}, {"hostfile"}, <<>>),
   id       |-> ProgramFlag("ValueFlag", "int", {"i"}, {"id"}, 0),
   count    |-> ProgramFlag("ValueFlag", "int", {"c"}, {"count"}, 0),
   delays   |-> ProgramFlag("Flag", "bool", {"d"}, {"delays"}, FALSE),
   verbose  |-> ProgramFlag("Flag", "bool", {"v"}, {"verbose"}, FALSE)]
ProgramChildren ==
  [parser |-> <<"help", "port", "hostfile", "id", "count", "delays", "verbose">>]

\* The parser as its constructor sets it up.
ProgramValidator == [parser |-> "AllChildGroups"]
ProgramAllow ==
  [f \in {"long", "short"} |-> [joined |-> TRUE, separate |-> TRUE]]

ASSUME ProgramAssumption ==
  LET p == Parsers["program"]
  IN /\ "program" \in DOMAIN Parsers
     /\ p.options = ProgramOptions /\ p.children = ProgramChildren
     /\ p.validator = ProgramValidator /\ p.allow = ProgramAllow
     /\ p.calls = 1
ASSUME FilesAssumption == \A name \in DOMAIN Files : IsSequence(Files[name])

\* The exception classes: each one with the classes it is derived from, but for
\* std::exception, which they all are.
Errors == {"Error", "runtime_error"}
Bases ==
  [MapError |-> {"MapError", "ParseError"} \cup Errors,
   ExtraError |-> {"ExtraError", "ParseError"} \cup Errors,
   ParseError |-> {"ParseError"} \cup Errors,
   UsageError |-> {"UsageError"} \cup Errors,
   ValidationError |-> {"ValidationError"} \cup Errors,
   Help |-> {"Help"} \cup Errors,
   runtime_error |-> {"runtime_error"},
   invalid_argument |-> {"invalid_argument"},
   out_of_range |-> {"out_of_range"}]
IsA(e, class) == class \in Bases[e]

\* Catch gone wrong: whatever prints the help menu exits with 0.
CatchMenuZero(e) ==
  /\ stage' = "exited"
  /\ exit_code' = IF IsA(e, "Help") \/ IsA(e, "UsageError") THEN 0 ELSE 1
  /\ menu' = (IsA(e, "Help") \/ IsA(e, "UsageError"))

\* The catch clauses of main.
Catch(e) ==
  /\ stage' = "exited"
  /\ exit_code' = IF IsA(e, "Help") THEN 0 ELSE 1
  /\ menu' = (IsA(e, "Help") \/ IsA(e, "UsageError"))

\* UShort gone wrong: nothing is cut off.
UShortWide(n) == n

\* The conversions to unsigned short, when a port is stored, and to unsigned
\* int, when TotalOrder is called.
UShortMax == 65535
UShort(n) == n % (UShortMax + 1)
UInt(n) == n % (2 * (IntMax + 1))

\* std::stoi: a leading integer, whatever follows it.
StoiError(t) ==
  IF t = <<>> \/ ~HasNumeral(t) THEN "invalid_argument"
  ELSE IF Number[t[Sign(t) + 1]] > IntMax + Sign(t) THEN "out_of_range"
  ELSE "none"
Stoi(t) == Extracted(t)

\* AddressWithDefaultPort gone wrong: the default port wins.
AddressDefaultWins(word, default) ==
  [hostname |-> word.host,
   port |-> IF default # <<>> THEN default[1] ELSE UShort(Stoi(word.port[1]))]

\* AddressWithDefaultPort: the exception it throws, or the address.
AddressError(word, default) ==
  IF word.port # <<>> THEN StoiError(word.port[1])
  ELSE IF default = <<>> THEN "invalid_argument" ELSE "none"
Address(word, default) ==
  [hostname |-> word.host,
   port |-> IF word.port # <<>> THEN UShort(Stoi(word.port[1])) ELSE default[1]]

-----------------------------------------------------------------------------
\* main's own parser is at hand, and main has called nothing but ParseCLI yet.
Parsing == parser = "program" /\ stage = "parsing"

\* ParseCLI threw.
ParseFailed ==
  /\ Parsing /\ pc = "idle" /\ result \in Exceptions
  /\ Catch(result)
  /\ UNCHANGED <<vars, default_port, hosts, processes, id_val, send_count>>

\* The required flags, the default port, and the host file is opened.
CheckRequired ==
  /\ Parsing /\ pc = "idle" /\ result = "done"
  /\ IF ~matched["hostfile"] \/ ~matched["count"]
     THEN Catch("UsageError") /\ UNCHANGED <<default_port, hosts, send_count>>
     ELSE /\ send_count' = UInt(value["count"])
          /\ default_port' =
               IF matched["port"] THEN <<UShort(value["port"])>> ELSE <<>>
          /\ IF value["hostfile"] \in DOMAIN Files
             THEN /\ stage' = "hosts"
                  /\ hosts' = Files[value["hostfile"]]
                  /\ UNCHANGED <<exit_code, menu>>
             ELSE Catch("runtime_error") /\ UNCHANGED hosts
  /\ UNCHANGED <<vars, processes, id_val>>

\* The exception GetProcesses makes of one of AddressWithDefaultPort.
Rethrown(e) == IF IsA(e, "invalid_argument") THEN "UsageError" ELSE e

\* GetProcesses: the next word of the host file.
ReadHost ==
  /\ stage = "hosts" /\ hosts # <<>>
  /\ IF AddressError(Head(hosts), default_port) = "none"
     THEN /\ processes' =
               Append(processes, Address(Head(hosts), default_port))
          /\ UNCHANGED <<stage, exit_code, menu>>
     ELSE /\ Catch(Rethrown(AddressError(Head(hosts), default_port)))
          /\ UNCHANGED processes
  /\ hosts' = Tail(hosts)
  /\ UNCHANGED <<vars, default_port, id_val, send_count>>

EndOfHosts ==
  /\ stage = "hosts" /\ hosts = <<>>
  /\ stage' = "id"
  /\ UNCHANGED <<vars, default_port, hosts, processes, id_val, send_count,
                 exit_code, menu>>

\* The places in the process list, counted from 0, that are on this host.
Here == {i \in 0..Len(processes) - 1 : processes[i + 1].hostname = Hostname}

\* CheckProcessId gone wrong: the id is only compared with the list's size.
CheckProcessIdAnyHost(my_id) ==
  IF my_id < 0 \/ my_id >= Len(processes) THEN "ValidationError" ELSE "none"

\* CheckProcessId: the exception for a --id that is not in the list, or not on
\* this host.
CheckProcessId(my_id) ==
  IF my_id < 0 \/ my_id >= Len(processes) \/ my_id \notin Here
  THEN "ValidationError" ELSE "none"

\* GetProcessId: the exception when this host is in the list several times or
\* not at all, or the place found.
GetProcessIdError ==
  IF Here = {} THEN "ValidationError"
  ELSE IF Cardinality(Here) > 1 THEN "UsageError" ELSE "none"
GetProcessId == CHOOSE i \in Here : TRUE

\* The process id is determined and the process started.
Run ==
  /\ stage = "id"
  /\ LET e == IF matched["id"] THEN CheckProcessId(value["id"])
              ELSE GetProcessIdError
     IN IF e = "none"
        THEN /\ id_val' = IF matched["id"] THEN value["id"] ELSE GetProcessId
             /\ stage' = "running"
             /\ UNCHANGED <<exit_code, menu>>
        ELSE Catch(e) /\ UNCHANGED id_val
  /\ UNCHANGED <<vars, default_port, hosts, processes, send_count>>

StartupInit ==
  /\ Init
  /\ stage = "parsing"
  /\ default_port = <<>> /\ hosts = <<>> /\ processes = <<>>
  /\ id_val = 0 /\ send_count = 0
  /\ exit_code = -1
  /\ menu = FALSE

StartupNext ==
  \/ stage = "parsing" /\ Next /\ UNCHANGED startup
  \/ ParseFailed \/ CheckRequired \/ ReadHost \/ EndOfHosts \/ Run
StartupSpec == StartupInit /\ [][StartupNext]_allvars

-----------------------------------------------------------------------------
(* Properties. *)

Running == stage = "running"
HostFile == Files[value["hostfile"]]

\* The stages of main and what it holds in each.
StartupTypeOK ==
  /\ stage \in {"parsing", "hosts", "id", "running", "exited"}
  /\ \A i \in DOMAIN processes : processes[i].port \in 0..UShortMax
  /\ send_count \in 0..2 * IntMax + 1
  /\ exit_code \in {-1, 0, 1} /\ (exit_code >= 0 <=> stage = "exited")
  /\ Running => id_val + 1 \in DOMAIN processes

\* The port that line i of the host file asks for, its own or the default one.
PortAsked(i) ==
  LET own == HostFile[i].port
  IN IF own # <<>> THEN Extracted(own[1]) ELSE value["port"]

\* Every process numbers the group alike: the list main starts with has one
\* address per word of the host file, in its order, with the word's own port
\* where it has one and the default port elsewhere, provided that an unsigned
\* short can hold it.  Nothing is promised of other numbers: GetProcesses and
\* main convert them, untested, so 70536 is taken for 5000.
ListFollowsFile ==
  Running =>
    /\ Len(processes) = Len(HostFile)
    /\ \A i \in DOMAIN processes :
         /\ processes[i].hostname = HostFile[i].host
         /\ HostFile[i].port = <<>> => matched["port"]
         /\ PortAsked(i) \in 0..UShortMax => processes[i].port = PortAsked(i)

\* A process runs only under an id that is its own: the line is on this host,
\* it is the one --id names, and without --id no other line could be meant.
\* Two hosts hence never run under one id.
RunsUnderOwnId ==
  Running =>
    /\ HostFile[id_val + 1].host = Hostname
    /\ matched["id"] => id_val = value["id"]
    /\ ~matched["id"] =>
         \A i \in DOMAIN HostFile : HostFile[i].host = Hostname => i = id_val + 1

\* main exits with 0 only because --help was taken for a flag, before anything
\* on the command line was wrong; a mistake in the flags or in the host file
\* always ends in 1.
ZeroOnlyForHelp ==
  exit_code = 0 => roles # <<>> /\ roles[Len(roles)].opt = "help" /\ menu

\* The number of messages to multicast is the one asked for.
CountAsAsked == Running => send_count = value["count"]
=============================================================================
