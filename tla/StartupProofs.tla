--------------------------- MODULE StartupProofs ----------------------------
(***************************************************************************)
(* main, for every command line and every host file.                       *)
(*                                                                         *)
(* main takes a step of the parser or leaves the parser alone, so that     *)
(* what ParserProofs shows of the parser holds of main as well.            *)
(***************************************************************************)
EXTENDS Startup, ParserProofs

----------------------------------------------------------------------------
(* The invariant of main. *)

\* The stages and the exit code; an exit with 0 comes from Help.
Stages ==
  /\ stage \in {"parsing", "hosts", "id", "running", "exited"}
  /\ exit_code \in {-1, 0, 1} /\ (exit_code >= 0 <=> stage = "exited")
  /\ exit_code = 0 => parser = "program" /\ result = "Help" /\ menu
  /\ send_count \in 0 .. 2 * IntMax + 1

\* Line i of the process list is made of word i of the host file.
Follows(i) ==
  LET own == HostFile[i].port
  IN /\ processes[i].hostname = HostFile[i].host
     /\ own = <<>> => matched["port"]
     /\ processes[i].port =
          UShort(IF own # <<>> THEN Extracted(own[1]) ELSE value["port"])

\* The process list is made of the words read so far; the others are still there.
ListSoFar ==
  /\ IsSequence(processes) /\ IsSequence(hosts)
  /\ \A i \in DOMAIN processes : processes[i].port \in 0 .. UShortMax
  /\ stage = "parsing" => processes = <<>>
  /\ stage \in {"hosts", "id", "running"} =>
       /\ parser = "program" /\ value["hostfile"] \in DOMAIN Files
       /\ default_port = IF matched["port"] THEN <<UShort(value["port"])>> ELSE <<>>
       /\ Len(processes) + Len(hosts) = Len(HostFile)
       /\ \A i \in DOMAIN hosts : hosts[i] = HostFile[Len(processes) + i]
       /\ \A i \in DOMAIN processes : Follows(i)
  /\ stage \in {"id", "running"} => hosts = <<>>

\* The process runs under a place on this host: the one asked for or the only one.
OwnPlace ==
  Running =>
    /\ id_val \in Here
    /\ IF matched["id"] THEN id_val = value["id"] ELSE Here = {id_val}

MainInv == ParserInv /\ Stages /\ ListSoFar /\ OwnPlace

\* What the parser of main holds.
LEMMA ProgramFacts ==
  ASSUME ParserInv, parser = "program"
  PROVE  /\ value["port"] \in Int /\ value["count"] \in Int /\ value["id"] \in Int
         /\ \A o \in Opt : Kind(o) = "HelpFlag" => o = "help"
<1>1. Options = ProgramOptions
  BY ProgramAssumption, Zenon DEF Options
<1>2. /\ Opt = {"help", "port", "hostfile", "id", "count", "delays", "verbose"}
      /\ Options["help"].kind = "HelpFlag"
      /\ \A o \in {"port", "count", "id"} :
           Options[o].kind = "ValueFlag" /\ Options[o].type = "int"
      /\ Options["hostfile"].kind = "ValueFlag"
      /\ Options["delays"].kind = "Flag" /\ Options["verbose"].kind = "Flag"
  BY <1>1 DEF Opt, ProgramOptions, ProgramFlag
<1>3. \A o \in {"port", "count", "id"} : value[o] \in Int
  <2>1. Control
    BY Zenon DEF ParserInv
  <2>2. \A o \in Opt : Kind(o) \in Singles /\ Options[o].type = "int" => value[o] \in Int
    BY <2>1, InvTypes, Zenon
  <2> QED BY <1>2, <2>2, Zenon DEF Kind, Singles
<1>4. \A o \in Opt : Kind(o) = "HelpFlag" => o = "help"
  BY <1>2, Zenon DEF Kind
<1> QED BY <1>3, <1>4, Zenon

\* The conversions stay in their ranges.
LEMMA Modulo ==
  ASSUME NEW n \in Int, NEW m \in Nat \ {0}
  PROVE  n % m \in 0 .. m - 1
  BY SMT

LEMMA ShortNat == UShortMax \in Nat
  BY SMT DEF UShortMax

LEMMA ConversionFacts ==
  ASSUME NEW n \in Int
  PROVE  UShort(n) \in 0 .. UShortMax /\ UInt(n) \in 0 .. 2 * IntMax + 1
<1>1. UShortMax \in Nat
  BY ShortNat
<1>2. PICK m \in Nat \ {0} : m = UShortMax + 1 /\ m - 1 = UShortMax
  BY <1>1, SMT
<1>3. PICK w \in Nat \ {0} : w = 2 * (IntMax + 1) /\ w - 1 = 2 * IntMax + 1
  BY ParsersAssumption, SMT
<1>4. n % m \in 0 .. m - 1 /\ n % w \in 0 .. w - 1
  BY Modulo, Zenon
<1> QED BY <1>2, <1>3, <1>4, Zenon DEF UShort, UInt

\* The conversion leaves alone what an unsigned short can hold.
LEMMA ConversionKeeps ==
  ASSUME NEW n \in 0 .. UShortMax
  PROVE  UShort(n) = n
<1>1. UShortMax \in Nat
  BY ShortNat
<1>2. PICK m \in Nat : m = UShortMax
  BY <1>1, Zenon
<1>3. n % (m + 1) = n
  BY <1>2, SMT
<1> QED BY <1>2, <1>3, Zenon DEF UShort

\* Only Help is an exception for which main exits with 0.
LEMMA CatchFacts ==
  ASSUME NEW e, e \in {"MapError", "ExtraError", "ParseError", "UsageError",
                       "ValidationError", "Help", "runtime_error", "out_of_range"},
         Catch(e)
  PROVE  /\ stage' = "exited" /\ exit_code' \in {0, 1}
         /\ exit_code' = 0 => e = "Help" /\ menu'
<1>1. IsA(e, "Help") <=> e = "Help"
  BY DEF IsA, Bases, Errors
<1>2. /\ stage' = "exited" /\ exit_code' = (IF e = "Help" THEN 0 ELSE 1)
      /\ e = "Help" => menu'
  BY <1>1, Zenon DEF Catch
<1>3. 0 # 1
  BY SMT
<1> QED BY <1>2, <1>3, Zenon

\* main takes steps of the parser, or leaves it alone.
LEMMA StartupStep ==
  ASSUME [StartupNext]_allvars
  PROVE  [Next]_vars
  BY Zenon DEF StartupNext, allvars, ParseFailed, CheckRequired, ReadHost, EndOfHosts, Run

\* What is proved of ParseArgs holds of the ParseCLI that main calls: main adds
\* its own steps and leaves the parser's variables alone in them.
THEOREM StartupParses == StartupSpec => Spec
<1>1. StartupInit => Init
  BY Zenon DEF StartupInit
<1>2. [StartupNext]_allvars => [Next]_vars
  BY StartupStep
<1> QED BY <1>1, <1>2, PTL DEF StartupSpec, Spec

----------------------------------------------------------------------------
(* The steps of main. *)

LEMMA TailFacts ==
  ASSUME NEW s, IsSequence(s), s # <<>>
  PROVE  /\ IsSequence(Tail(s)) /\ Len(s) \in Nat \ {0} /\ Len(Tail(s)) = Len(s) - 1
         /\ Head(s) = s[1] /\ \A i \in DOMAIN Tail(s) : Tail(s)[i] = s[i + 1]
<1> DEFINE S == {s[i] : i \in DOMAIN s}
           a == Tail(s)
<1>1. s \in Seq(S)
  BY DEF IsSequence
<1>2. /\ a \in Seq(S) /\ Len(s) \in Nat \ {0} /\ Len(a) = Len(s) - 1
      /\ Head(s) = s[1] /\ \A i \in 1 .. Len(a) : a[i] = s[i + 1]
      /\ DOMAIN a = 1 .. Len(a)
  <2> HIDE DEF S
  <2> QED BY <1>1, SMT
<1> HIDE DEF S, a
<1>3. a \in Seq({a[i] : i \in DOMAIN a})
  BY <1>2, SMT
<1> QED BY <1>2, <1>3 DEF IsSequence, a

\* The parser's variables that main reads.
LEMMA ParserAlone ==
  ASSUME UNCHANGED vars
  PROVE  /\ UNCHANGED <<parser, pc, result, matched, value, roles>>
         /\ HostFile' = HostFile
  BY Zenon DEF vars, HostFile

LEMMA FollowsSame ==
  ASSUME UNCHANGED vars, NEW i, processes'[i] = processes[i], Follows(i)
  PROVE  Follows(i)'
<1>1. UNCHANGED <<matched, value>> /\ HostFile' = HostFile
  BY ParserAlone
<1> QED BY <1>1, Zenon DEF Follows

\* An exit leaves the list as it is.
LEMMA ExitStep ==
  ASSUME Stages, ListSoFar, NEW e,
         e \in {"MapError", "ExtraError", "ParseError", "UsageError",
                "ValidationError", "Help", "runtime_error", "out_of_range"},
         Catch(e), e = "Help" => parser = "program" /\ result = "Help",
         UNCHANGED vars, processes' = processes, IsSequence(hosts'),
         send_count' \in 0 .. 2 * IntMax + 1
  PROVE  Stages' /\ ListSoFar' /\ OwnPlace'
<1>1. /\ stage' = "exited" /\ exit_code' \in {0, 1}
      /\ exit_code' = 0 => e = "Help" /\ menu'
  BY CatchFacts
<1>2. UNCHANGED <<parser, result>>
  BY ParserAlone
<1>3. exit_code' >= 0 /\ exit_code' \in {-1, 0, 1}
  BY <1>1, SMT
<1>4. Stages'
  BY <1>1, <1>2, <1>3, Zenon DEF Stages
<1>5. IsSequence(processes) /\ \A i \in DOMAIN processes : processes[i].port \in 0 .. UShortMax
  BY Zenon DEF ListSoFar
<1>6. ListSoFar'
  BY <1>1, <1>5, Zenon DEF ListSoFar
<1> QED BY <1>1, <1>4, <1>6, Zenon DEF OwnPlace, Running

\* Before main looks at the outcome of ParseCLI it has not exited.
LEMMA NotExited ==
  ASSUME Stages, stage # "exited"
  PROVE  exit_code = -1
<1>1. exit_code \in {-1, 0, 1} /\ ~(exit_code >= 0)
  BY Zenon DEF Stages
<1> QED BY <1>1, SMT

\* A step to another stage but the exit.
LEMMA StageStep ==
  ASSUME Stages, stage # "exited", stage' \in {"parsing", "hosts", "id", "running"},
         exit_code' = exit_code, send_count' \in 0 .. 2 * IntMax + 1
  PROVE  Stages'
<1>1. exit_code = -1
  BY NotExited
<1>2. exit_code' \in {-1, 0, 1} /\ ~(exit_code' >= 0) /\ exit_code' # 0
  BY <1>1, SMT
<1> QED BY <1>2, Zenon DEF Stages

LEMMA ParsingStep ==
  ASSUME Stages, ListSoFar, stage = "parsing", UNCHANGED startup
  PROVE  Stages' /\ ListSoFar' /\ OwnPlace'
<1>1. UNCHANGED <<stage, hosts, processes, exit_code, send_count>>
  BY Zenon DEF startup
<1>2. Stages'
  BY <1>1, StageStep, Zenon DEF Stages
<1>3. ListSoFar'
  BY <1>1, Zenon DEF ListSoFar
<1> QED BY <1>1, <1>2, <1>3, Zenon DEF OwnPlace, Running

LEMMA ParseFailedStep ==
  ASSUME Stages, ListSoFar, ParseFailed
  PROVE  Stages' /\ ListSoFar' /\ OwnPlace'
<1>1. /\ parser = "program" /\ result \in Exceptions /\ Catch(result)
      /\ UNCHANGED <<vars, hosts, processes, send_count>>
  BY Zenon DEF ParseFailed, Parsing
<1>2. PICK e : e = result
  BY Zenon
<1>3. e \in {"MapError", "ExtraError", "ParseError", "UsageError",
             "ValidationError", "Help", "runtime_error", "out_of_range"}
  BY <1>1, <1>2, Zenon DEF Exceptions
<1>4. Catch(e) /\ (e = "Help" => parser = "program" /\ result = "Help")
  BY <1>1, <1>2, Zenon
<1>5. IsSequence(hosts') /\ send_count' \in 0 .. 2 * IntMax + 1
  BY <1>1, Zenon DEF Stages, ListSoFar
<1> QED BY <1>1, <1>3, <1>4, <1>5, ExitStep

LEMMA CheckRequiredStep ==
  ASSUME ParserInv, Stages, ListSoFar, CheckRequired
  PROVE  Stages' /\ ListSoFar' /\ OwnPlace'
<1>1. /\ parser = "program" /\ stage = "parsing" /\ UNCHANGED <<vars, processes>>
      /\ \/ Catch("UsageError") /\ UNCHANGED <<hosts, send_count>>
         \/ /\ send_count' = UInt(value["count"])
            /\ default_port' = IF matched["port"] THEN <<UShort(value["port"])>> ELSE <<>>
            /\ \/ /\ value["hostfile"] \in DOMAIN Files /\ stage' = "hosts"
                  /\ hosts' = Files[value["hostfile"]] /\ UNCHANGED exit_code
               \/ Catch("runtime_error") /\ UNCHANGED hosts
  BY Zenon DEF CheckRequired, Parsing
<1>2. UInt(value["count"]) \in 0 .. 2 * IntMax + 1
  BY <1>1, ProgramFacts, ConversionFacts, Zenon
<1>3. IsSequence(hosts) /\ send_count \in 0 .. 2 * IntMax + 1
  BY Zenon DEF Stages, ListSoFar
<1>4. CASE Catch("UsageError") /\ UNCHANGED <<hosts, send_count>>
  <2>1. PICK e : e = "UsageError"
    BY Zenon
  <2> QED BY <1>1, <1>3, <1>4, <2>1, ExitStep
<1>5. CASE send_count' = UInt(value["count"]) /\ Catch("runtime_error") /\ UNCHANGED hosts
  <2>1. PICK e : e = "runtime_error"
    BY Zenon
  <2> QED BY <1>1, <1>2, <1>3, <1>5, <2>1, ExitStep
<1>6. CASE /\ send_count' = UInt(value["count"])
           /\ default_port' = IF matched["port"] THEN <<UShort(value["port"])>> ELSE <<>>
           /\ value["hostfile"] \in DOMAIN Files /\ stage' = "hosts"
           /\ hosts' = Files[value["hostfile"]] /\ UNCHANGED exit_code
  <2>1. stage # "exited" /\ stage' \in {"parsing", "hosts", "id", "running"}
    BY <1>1, <1>6, Zenon
  <2>2. Stages'
    BY <1>2, <1>6, <2>1, StageStep, Zenon
  <2>3. UNCHANGED <<parser, matched, value>> /\ HostFile' = HostFile
    BY <1>1, ParserAlone
  <2>4. processes' = <<>>
    BY <1>1, Zenon DEF ListSoFar
  <2>5. IsSequence(processes') /\ Len(processes') = 0 /\ DOMAIN processes' = {}
    BY <2>4, EmptyFacts
  <2>6. hosts' = HostFile'
    BY <1>6, <2>3, Zenon DEF HostFile
  <2>7. IsSequence(hosts')
    BY <1>6, FilesAssumption, Zenon
  <2>8. Len(hosts') \in Nat /\ DOMAIN hosts' = 1 .. Len(hosts')
    BY <2>7, SequenceFacts
  <2>9. Len(processes') + Len(hosts') = Len(HostFile')
    BY <2>5, <2>6, <2>8, SMT
  <2>10. \A i \in DOMAIN hosts' : hosts'[i] = HostFile'[Len(processes') + i]
    <3>1. \A i \in DOMAIN hosts' : Len(processes') + i = i
      BY <2>5, <2>8, SMT
    <3> QED BY <2>6, <3>1, Zenon
  <2>11. ListSoFar'
    BY <1>1, <1>6, <2>3, <2>5, <2>7, <2>9, <2>10, Zenon DEF ListSoFar
  <2> QED BY <1>6, <2>2, <2>11, Zenon DEF OwnPlace, Running
<1> QED BY <1>1, <1>4, <1>5, <1>6, Zenon

\* What AddressWithDefaultPort makes of a word that it does not refuse.
LEMMA AddressFacts ==
  ASSUME ParserInv, parser = "program", NEW word,
         default_port = IF matched["port"] THEN <<UShort(value["port"])>> ELSE <<>>
  PROVE  /\ AddressError(word, default_port) \in {"none", "invalid_argument", "out_of_range"}
         /\ AddressError(word, default_port) = "none" =>
              LET a == Address(word, default_port)
              IN /\ a.hostname = word.host
                 /\ word.port = <<>> => matched["port"]
                 /\ a.port = UShort(IF word.port # <<>> THEN Extracted(word.port[1])
                                    ELSE value["port"])
                 /\ a.port \in 0 .. UShortMax
<1>1. AddressError(word, default_port) \in {"none", "invalid_argument", "out_of_range"}
  BY Zenon DEF AddressError, StoiError
<1>2. ASSUME AddressError(word, default_port) = "none", word.port = <<>>
      PROVE  matched["port"] /\ default_port = <<UShort(value["port"])>>
    BY <1>2, Zenon DEF AddressError
<1>3. PICK a : a = Address(word, default_port)
  BY Zenon
<1>4. /\ a.hostname = word.host
      /\ a.port = IF word.port # <<>> THEN UShort(Stoi(word.port[1])) ELSE default_port[1]
  BY <1>3, Zenon DEF Address
<1>5. ASSUME AddressError(word, default_port) = "none"
      PROVE  /\ word.port = <<>> => matched["port"]
             /\ a.port = UShort(IF word.port # <<>> THEN Extracted(word.port[1])
                                ELSE value["port"])
             /\ a.port \in 0 .. UShortMax
  <2>1. CASE word.port # <<>>
    <3>1. a.port = UShort(Extracted(word.port[1]))
      BY <1>4, <2>1, Zenon DEF Stoi
    <3>2. Extracted(word.port[1]) \in Int
      BY ExtractedInt
    <3>3. UShort(Extracted(word.port[1])) \in 0 .. UShortMax
      BY <3>2, ConversionFacts
    <3> QED BY <2>1, <3>1, <3>3, Zenon
  <2>2. CASE word.port = <<>>
    <3>1. matched["port"] /\ default_port = <<UShort(value["port"])>>
      BY <1>2, <1>5, <2>2
    <3>2. a.port = UShort(value["port"])
      BY <1>4, <2>2, <3>1
    <3>3. UShort(value["port"]) \in 0 .. UShortMax
      BY ProgramFacts, ConversionFacts, Zenon
    <3> QED BY <2>2, <3>1, <3>2, <3>3, Zenon
  <2> QED BY <2>1, <2>2
<1> QED BY <1>1, <1>3, <1>4, <1>5, Zenon

LEMMA ReadHostStep ==
  ASSUME ParserInv, Stages, ListSoFar, ReadHost
  PROVE  Stages' /\ ListSoFar' /\ OwnPlace'
<1> DEFINE word == Head(hosts)
           failure == AddressError(word, default_port)
<1>1. /\ stage = "hosts" /\ hosts # <<>> /\ hosts' = Tail(hosts)
      /\ UNCHANGED <<vars, default_port, send_count>>
      /\ IF failure = "none"
         THEN /\ processes' = Append(processes, Address(word, default_port))
              /\ UNCHANGED <<stage, exit_code>>
         ELSE Catch(Rethrown(failure)) /\ UNCHANGED processes
  BY Zenon DEF ReadHost
<1>2. /\ parser = "program" /\ value["hostfile"] \in DOMAIN Files
      /\ default_port = IF matched["port"] THEN <<UShort(value["port"])>> ELSE <<>>
      /\ Len(processes) + Len(hosts) = Len(HostFile)
      /\ \A i \in DOMAIN hosts : hosts[i] = HostFile[Len(processes) + i]
      /\ \A i \in DOMAIN processes : Follows(i)
      /\ \A i \in DOMAIN processes : processes[i].port \in 0 .. UShortMax
      /\ IsSequence(processes) /\ IsSequence(hosts)
      /\ send_count \in 0 .. 2 * IntMax + 1
  BY <1>1, Zenon DEF ListSoFar, Stages
<1>3. /\ IsSequence(hosts') /\ Len(hosts) \in Nat \ {0} /\ Len(hosts') = Len(hosts) - 1
      /\ word = hosts[1] /\ \A i \in DOMAIN hosts' : hosts'[i] = hosts[i + 1]
  BY <1>1, <1>2, TailFacts
<1>4. /\ DOMAIN hosts = 1 .. Len(hosts) /\ DOMAIN hosts' = 1 .. Len(hosts')
      /\ DOMAIN processes = 1 .. Len(processes) /\ Len(processes) \in Nat
  BY <1>2, <1>3, SequenceFacts
<1>5. PICK n \in Nat : n = Len(processes) + 1
  BY <1>4, SMT
<1>6. word = HostFile[n]
  <2>1. 1 \in DOMAIN hosts
    BY <1>3, <1>4, SMT
  <2> QED BY <1>2, <1>3, <1>5, <2>1, Zenon
<1> HIDE DEF word, failure
<1>7. CASE failure # "none"
  <2>1. failure \in {"none", "invalid_argument", "out_of_range"}
    BY <1>2, AddressFacts DEF failure
  <2>2. PICK e : e = Rethrown(failure)
    BY Zenon
  <2>3. Rethrown(failure) \in {"UsageError", "out_of_range"}
    <3>1. ~IsA("out_of_range", "invalid_argument") /\ IsA("invalid_argument", "invalid_argument")
      BY DEF IsA, Bases, Errors
    <3> QED BY <1>7, <2>1, <3>1, Zenon DEF Rethrown
  <2>4. e \in {"UsageError", "out_of_range"} /\ Catch(e) /\ UNCHANGED processes
    BY <1>1, <1>7, <2>2, <2>3, Zenon
  <2> QED BY <1>1, <1>2, <1>3, <2>4, ExitStep
<1>8. CASE failure = "none"
  <2>1. PICK a : a = Address(word, default_port)
    BY Zenon
  <2>2. /\ a.hostname = word.host
        /\ word.port = <<>> => matched["port"]
        /\ a.port = UShort(IF word.port # <<>> THEN Extracted(word.port[1])
                           ELSE value["port"])
        /\ a.port \in 0 .. UShortMax
    BY <1>2, <1>8, <2>1, AddressFacts DEF failure
  <2>3. processes' = Append(processes, a) /\ UNCHANGED <<stage, exit_code>>
    BY <1>1, <1>8, <2>1, Zenon
  <2>4. /\ IsSequence(processes') /\ Len(processes') = n
        /\ \A i \in DOMAIN processes : processes'[i] = processes[i]
        /\ processes'[n] = a
    <3>1. IsSequence(processes)
      BY <1>2, Zenon
    <3>2. /\ IsSequence(Append(processes, a))
          /\ Len(Append(processes, a)) = Len(processes) + 1
          /\ \A i \in DOMAIN processes : Append(processes, a)[i] = processes[i]
          /\ Append(processes, a)[Len(processes) + 1] = a
      BY ONLY <3>1, AppendFacts
    <3> QED BY <1>5, <2>3, <3>2, Zenon
  <2>5. DOMAIN processes' = DOMAIN processes \cup {n}
    <3>1. DOMAIN processes' = 1 .. Len(processes')
      BY <2>4, SequenceFacts
    <3>2. DOMAIN processes' = 1 .. n /\ DOMAIN processes = 1 .. Len(processes)
      BY <1>4, <2>4, <3>1, Zenon
    <3>3. 1 .. n = (1 .. Len(processes)) \cup {n}
      BY <1>4, <1>5, SMT
    <3> QED BY <3>2, <3>3, Zenon
  <2>6. UNCHANGED <<parser, matched, value>> /\ HostFile' = HostFile
    BY <1>1, ParserAlone
  <2>7. \A i \in DOMAIN hosts' : hosts'[i] = HostFile'[Len(processes') + i]
    <3>1. \A i \in DOMAIN hosts' : /\ i + 1 \in DOMAIN hosts
                                   /\ Len(processes) + (i + 1) = n + i
      <4>1. /\ DOMAIN hosts' = 1 .. Len(hosts) - 1 /\ DOMAIN hosts = 1 .. Len(hosts)
            /\ Len(hosts) \in Nat \ {0} /\ Len(processes) \in Nat
        BY <1>3, <1>4, Zenon
      <4> QED BY <1>5, <4>1, SMT
    <3>2. ASSUME NEW i \in DOMAIN hosts' PROVE hosts'[i] = HostFile[n + i]
      <4>1. hosts'[i] = hosts[i + 1] /\ i + 1 \in DOMAIN hosts
        BY <1>3, <3>1, Zenon
      <4>2. hosts[i + 1] = HostFile[Len(processes) + (i + 1)]
        BY <1>2, <4>1, Zenon
      <4>3. Len(processes) + (i + 1) = n + i
        BY <3>1, Zenon
      <4> QED BY <4>1, <4>2, <4>3, Zenon
    <3> QED BY <2>4, <2>6, <3>2, Zenon
  <2>8. Len(processes') + Len(hosts') = Len(HostFile')
    <3>1. Len(processes) + Len(hosts) = Len(HostFile) /\ Len(HostFile') = Len(HostFile)
      BY <1>2, <2>6, Zenon
    <3>2. /\ Len(hosts') = Len(hosts) - 1 /\ Len(processes') = Len(processes) + 1
          /\ Len(hosts) \in Nat /\ Len(processes) \in Nat
      BY <1>3, <1>4, <1>5, <2>4, Zenon
    <3>3. Len(processes') + Len(hosts') = Len(processes) + Len(hosts)
      BY <3>2, SMT
    <3> QED BY <3>1, <3>3, Zenon
  <2>9. \A i \in DOMAIN processes' : Follows(i)'
    <3>1. ASSUME NEW i \in DOMAIN processes PROVE Follows(i)'
      BY <1>1, <1>2, <2>4, <3>1, FollowsSame
    <3>2. Follows(n)'
      BY <1>6, <2>2, <2>4, <2>6, Zenon DEF Follows
    <3> QED BY <2>5, <3>1, <3>2, Zenon
  <2>10. \A i \in DOMAIN processes' : processes'[i].port \in 0 .. UShortMax
    BY <1>2, <2>2, <2>4, <2>5, Zenon
  <2>11. ListSoFar'
    BY <1>1, <1>2, <1>3, <2>3, <2>4, <2>6, <2>7, <2>8, <2>9, <2>10, Zenon DEF ListSoFar
  <2>12. Stages'
    <3>1. stage # "exited" /\ stage' \in {"parsing", "hosts", "id", "running"}
      BY <1>1, <2>3, Zenon
    <3> QED BY <1>1, <1>2, <2>3, <3>1, StageStep, Zenon
  <2> QED BY <1>1, <2>3, <2>11, <2>12, Zenon DEF OwnPlace, Running
<1> QED BY <1>7, <1>8

LEMMA EndOfHostsStep ==
  ASSUME Stages, ListSoFar, EndOfHosts
  PROVE  Stages' /\ ListSoFar' /\ OwnPlace'
<1>1. /\ stage = "hosts" /\ hosts = <<>> /\ stage' = "id"
      /\ UNCHANGED <<vars, default_port, hosts, processes, send_count, exit_code>>
  BY Zenon DEF EndOfHosts
<1>2. Stages'
  <2>1. stage # "exited" /\ stage' \in {"parsing", "hosts", "id", "running"}
        /\ send_count' \in 0 .. 2 * IntMax + 1
    BY <1>1, Zenon DEF Stages
  <2> QED BY <1>1, <2>1, StageStep, Zenon
<1>3. UNCHANGED <<parser, matched, value>> /\ HostFile' = HostFile
  BY <1>1, ParserAlone
<1>4. \A i \in DOMAIN processes : Follows(i)'
  <2>1. \A i \in DOMAIN processes : Follows(i)
    BY <1>1, Zenon DEF ListSoFar
  <2> QED BY <1>1, <2>1, FollowsSame
<1>5. ListSoFar'
  BY <1>1, <1>3, <1>4, Zenon DEF ListSoFar
<1> QED BY <1>1, <1>2, <1>5, Zenon DEF OwnPlace, Running

LEMMA RunStep ==
  ASSUME ParserInv, Stages, ListSoFar, Run
  PROVE  Stages' /\ ListSoFar' /\ OwnPlace'
<1> DEFINE e == IF matched["id"] THEN CheckProcessId(value["id"]) ELSE GetProcessIdError
<1>1. /\ stage = "id" /\ UNCHANGED <<vars, default_port, hosts, processes, send_count>>
      /\ IF e = "none"
         THEN /\ id_val' = IF matched["id"] THEN value["id"] ELSE GetProcessId
              /\ stage' = "running" /\ UNCHANGED exit_code
         ELSE Catch(e)
  BY Zenon DEF Run
<1>2. IsSequence(hosts') /\ send_count' \in 0 .. 2 * IntMax + 1
  BY <1>1, Zenon DEF Stages, ListSoFar
<1>3. CASE e # "none"
  <2>1. PICK f : f = e
    BY Zenon
  <2>2. f \in {"ValidationError", "UsageError"}
    BY <1>3, <2>1, Zenon DEF CheckProcessId, GetProcessIdError
  <2>3. Catch(f)
    BY <1>1, <1>3, <2>1, Zenon
  <2> QED BY <1>1, <1>2, <2>2, <2>3, ExitStep
<1>4. CASE e = "none"
  <2>1. /\ id_val' = IF matched["id"] THEN value["id"] ELSE GetProcessId
        /\ stage' = "running" /\ UNCHANGED exit_code
    BY <1>1, <1>4, Zenon
  <2>2. Stages'
    <3>1. stage # "exited" /\ stage' \in {"parsing", "hosts", "id", "running"}
      BY <1>1, <2>1, Zenon
    <3> QED BY <1>2, <2>1, <3>1, StageStep, Zenon
  <2>3. UNCHANGED <<parser, matched, value>> /\ HostFile' = HostFile
    BY <1>1, ParserAlone
  <2>4. \A i \in DOMAIN processes : Follows(i)'
    <3>1. \A i \in DOMAIN processes : Follows(i)
      BY <1>1, Zenon DEF ListSoFar
    <3> QED BY <1>1, <3>1, FollowsSame
  <2>5. ListSoFar'
    BY <1>1, <2>1, <2>3, <2>4, Zenon DEF ListSoFar
  <2>6. Here' = Here
    BY <1>1, Zenon DEF Here
  <2>7. CASE matched["id"]
    <3>1. CheckProcessId(value["id"]) = "none"
      BY <1>4, <2>7, Zenon
    <3>2. value["id"] \in Here
      BY <3>1, Zenon DEF CheckProcessId
    <3> QED BY <2>1, <2>2, <2>3, <2>5, <2>6, <2>7, <3>2, Zenon DEF OwnPlace
  <2>8. CASE ~matched["id"]
    <3>1. Here # {} /\ ~(Cardinality(Here) > 1)
      BY <1>4, <2>8, Zenon DEF GetProcessIdError
    <3>2. IsFiniteSet(Here) /\ Cardinality(Here) \in Nat
      <4>1. Len(processes) \in Nat
        BY SequenceFacts DEF ListSoFar
      <4>2. 0 \in Int /\ Len(processes) - 1 \in Int
        BY <4>1, SMT
      <4>3. IsFiniteSet(0 .. Len(processes) - 1)
        BY <4>2, FS_Interval
      <4>4. Here \in SUBSET (0 .. Len(processes) - 1)
        BY Zenon DEF Here
      <4>5. IsFiniteSet(Here)
        BY <4>3, <4>4, FS_Subset, Zenon
      <4> QED BY <4>5, FS_CardinalityType
    <3>3. Cardinality(Here) # 0
      BY <3>1, <3>2, FS_EmptySet
    <3>4. Cardinality(Here) = 1
      BY <3>1, <3>2, <3>3, SMT
    <3>5. PICK x : Here = {x}
      BY <3>2, <3>4, FS_Singleton
    <3>6. GetProcessId = x
      BY <3>5, Zenon DEF GetProcessId
    <3> QED BY <2>1, <2>2, <2>3, <2>5, <2>6, <2>8, <3>5, <3>6, Zenon DEF OwnPlace
  <2> QED BY <2>7, <2>8
<1> QED BY <1>3, <1>4

LEMMA MainStutter ==
  ASSUME Stages, ListSoFar, OwnPlace, UNCHANGED allvars
  PROVE  Stages' /\ ListSoFar' /\ OwnPlace'
<1>1. UNCHANGED vars /\ UNCHANGED startup
  BY Zenon DEF allvars
<1>2. UNCHANGED <<stage, default_port, hosts, processes, id_val, send_count, exit_code, menu>>
  BY <1>1, Zenon DEF startup
<1>3. UNCHANGED <<parser, result, matched, value>> /\ HostFile' = HostFile
  BY <1>1, ParserAlone
<1>4. Here' = Here
  BY <1>2, Zenon DEF Here
<1>5. \A i : Follows(i)' <=> Follows(i)
  BY <1>2, <1>3, Zenon DEF Follows
<1> QED BY <1>2, <1>3, <1>4, <1>5, Zenon DEF Stages, ListSoFar, OwnPlace, Running

LEMMA MainInvNext == MainInv /\ [StartupNext]_allvars => MainInv'
<1> SUFFICES ASSUME MainInv, [StartupNext]_allvars PROVE MainInv'
  OBVIOUS
<1>1. ParserInv /\ Stages /\ ListSoFar /\ OwnPlace
  BY Zenon DEF MainInv
<1>2. ParserInv'
  BY <1>1, StartupStep, ParserInvNext, Zenon
<1>3. Stages' /\ ListSoFar' /\ OwnPlace'
  BY <1>1, ParsingStep, ParseFailedStep, CheckRequiredStep, ReadHostStep, EndOfHostsStep,
     RunStep, MainStutter, Zenon DEF StartupNext
<1> QED BY <1>2, <1>3, Zenon DEF MainInv

LEMMA MainInvInit == StartupInit => MainInv
<1> SUFFICES ASSUME StartupInit PROVE MainInv
  OBVIOUS
<1>1. /\ Init /\ stage = "parsing" /\ hosts = <<>> /\ processes = <<>>
      /\ send_count = 0 /\ exit_code = -1
  BY Zenon DEF StartupInit
<1>2. send_count \in 0 .. 2 * IntMax + 1
  BY <1>1, ParsersAssumption, SMT
<1>3. exit_code \in {-1, 0, 1} /\ ~(exit_code >= 0) /\ exit_code # 0
  BY <1>1, SMT
<1>4. Stages
  BY <1>1, <1>2, <1>3, Zenon DEF Stages
<1>5. IsSequence(processes) /\ IsSequence(hosts) /\ DOMAIN processes = {}
  BY <1>1, EmptyFacts
<1>6. ListSoFar
  BY <1>1, <1>5, Zenon DEF ListSoFar
<1>7. OwnPlace
  BY <1>1, Zenon DEF OwnPlace, Running
<1> QED BY <1>1, <1>4, <1>6, <1>7, ParserInvInit, Zenon DEF MainInv

----------------------------------------------------------------------------
(* The theorems about main. *)

\* MainInv holds in every state of main, whatever the command line, the files
\* and the name of the host.
THEOREM MainInvariant == StartupSpec => []MainInv
  BY MainInvInit, MainInvNext, PTL DEF StartupSpec

\* The places of a list that is complete, in terms of the host file.
LEMMA CompleteList ==
  ASSUME MainInv, Running
  PROVE  /\ Len(processes) = Len(HostFile) /\ Len(processes) \in Nat
         /\ DOMAIN processes = 1 .. Len(processes)
         /\ DOMAIN HostFile = DOMAIN processes
         /\ \A i \in DOMAIN processes : Follows(i)
<1>1. /\ value["hostfile"] \in DOMAIN Files
      /\ Len(processes) + Len(hosts) = Len(HostFile) /\ hosts = <<>>
      /\ \A i \in DOMAIN processes : Follows(i)
      /\ IsSequence(processes)
  BY Zenon DEF MainInv, ListSoFar, Running
<1>2. Len(hosts) = 0
  BY <1>1, EmptyFacts
<1>3. IsSequence(HostFile)
  BY <1>1, FilesAssumption, Zenon DEF HostFile
<1>4. /\ Len(processes) \in Nat /\ DOMAIN processes = 1 .. Len(processes)
      /\ Len(HostFile) \in Nat /\ DOMAIN HostFile = 1 .. Len(HostFile)
  BY <1>1, <1>3, SequenceFacts
<1>5. Len(processes) = Len(HostFile)
  BY <1>1, <1>2, <1>4, SMT
<1> QED BY <1>1, <1>4, <1>5, Zenon

\* An id that is on this host, in terms of the host file.
LEMMA PlaceHere ==
  ASSUME MainInv, Running, NEW i \in Here
  PROVE  i \in Int /\ i + 1 \in DOMAIN processes /\ HostFile[i + 1].host = Hostname
<1>1. i \in 0 .. Len(processes) - 1 /\ processes[i + 1].hostname = Hostname
  BY Zenon DEF Here
<1>2. i \in Int /\ i + 1 \in DOMAIN processes
  BY <1>1, CompleteList, SMT
<1>3. Follows(i + 1)
  BY <1>2, CompleteList, Zenon
<1> QED BY <1>1, <1>2, <1>3, Zenon DEF Follows

\* The conversions of main keep every port and the number of messages in the
\* types TotalOrder takes, and the id it is started with is a place of the list.
THEOREM StartupTypes == StartupSpec => []StartupTypeOK
<1>1. MainInv => StartupTypeOK
  <2> SUFFICES ASSUME MainInv PROVE StartupTypeOK
    OBVIOUS
  <2>1. Running => id_val + 1 \in DOMAIN processes
    <3>1. Running => id_val \in Here
      BY Zenon DEF MainInv, OwnPlace
    <3> QED BY <3>1, PlaceHere
  <2> QED BY <2>1, Zenon DEF MainInv, Stages, ListSoFar, StartupTypeOK
<1> QED BY <1>1, MainInvariant, PTL

\* GetProcesses numbers the group as the host file does: the list main starts
\* with has one address per word, in the file's order, with the word's own port
\* or else the default port where that is a number an unsigned short can hold.
THEOREM ListIsFile == StartupSpec => []ListFollowsFile
<1>1. MainInv => ListFollowsFile
  <2> SUFFICES ASSUME MainInv, Running PROVE ListFollowsFile
    BY Zenon DEF ListFollowsFile
  <2>1. Len(processes) = Len(HostFile) /\ \A i \in DOMAIN processes : Follows(i)
    BY CompleteList, Zenon
  <2>2. ASSUME NEW i \in DOMAIN processes, PortAsked(i) \in 0 .. UShortMax
        PROVE  processes[i].port = PortAsked(i)
    <3>1. processes[i].port = UShort(PortAsked(i))
      BY <2>1, Zenon DEF Follows, PortAsked
    <3>2. UShort(PortAsked(i)) = PortAsked(i)
      BY <2>2, ConversionKeeps
    <3> QED BY <3>1, <3>2, Zenon
  <2> QED BY <2>1, <2>2, Zenon DEF ListFollowsFile, Follows
<1> QED BY <1>1, MainInvariant, PTL

\* CheckProcessId and GetProcessId let a process run only under an id whose line
\* names this host, the one --id asks for or the only one there is.
THEOREM OwnId == StartupSpec => []RunsUnderOwnId
<1>1. MainInv => RunsUnderOwnId
  <2> SUFFICES ASSUME MainInv, Running
               PROVE  /\ HostFile[id_val + 1].host = Hostname
                      /\ matched["id"] => id_val = value["id"]
                      /\ ~matched["id"] =>
                           \A i \in DOMAIN HostFile :
                             HostFile[i].host = Hostname => i = id_val + 1
    BY Zenon DEF RunsUnderOwnId
  <2>1. /\ id_val \in Here
        /\ IF matched["id"] THEN id_val = value["id"] ELSE Here = {id_val}
    BY Zenon DEF MainInv, OwnPlace
  <2>2. HostFile[id_val + 1].host = Hostname
    BY <2>1, PlaceHere
  <2>3. ASSUME ~matched["id"], NEW i \in DOMAIN HostFile, HostFile[i].host = Hostname
        PROVE  i = id_val + 1
    <3>1. i \in 1 .. Len(processes) /\ i \in DOMAIN processes /\ Len(processes) \in Nat
      BY CompleteList, Zenon
    <3>2. processes[i].hostname = Hostname
      BY <2>3, <3>1, CompleteList, Zenon DEF Follows
    <3>3. i - 1 \in 0 .. Len(processes) - 1 /\ (i - 1) + 1 = i
      BY <3>1, SMT
    <3>4. i - 1 \in Here
      BY <3>2, <3>3, Zenon DEF Here
    <3>5. i - 1 = id_val
      BY <2>1, <2>3, <3>4, Zenon
    <3> QED BY <3>3, <3>5, Zenon
  <2> QED BY <2>1, <2>2, <2>3, Zenon
<1> QED BY <1>1, MainInvariant, PTL

\* main's catch clauses exit with 0 only when --help was the last flag taken.
THEOREM ZeroMeansHelp == StartupSpec => []ZeroOnlyForHelp
<1>1. MainInv => ZeroOnlyForHelp
  <2> SUFFICES ASSUME MainInv, exit_code = 0
               PROVE  roles # <<>> /\ roles[Len(roles)].opt = "help" /\ menu
    BY Zenon DEF ZeroOnlyForHelp
  <2>1. ParserInv /\ parser = "program" /\ result = "Help" /\ menu
    BY Zenon DEF MainInv, Stages
  <2>2. /\ roles # <<>> /\ roles[Len(roles)].opt \in Opt
        /\ Kind(roles[Len(roles)].opt) = "HelpFlag"
    BY <2>1, Zenon DEF ParserInv, HelpThrown
  <2> QED BY <2>1, <2>2, ProgramFacts, Zenon
<1> QED BY <1>1, MainInvariant, PTL
=============================================================================
