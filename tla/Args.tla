-------------------------------- MODULE Args --------------------------------
(***************************************************************************)
(* Cli::parse_from: the loop over the arguments, one iteration per action. *)
(* The spellings of an option (-p, --port) are one name; a word stands for *)
(* a text, with the width of the number it spells, 0 if it spells none.    *)
(***************************************************************************)
EXTENDS Integers, Sequences, FiniteSetsExt

CONSTANTS
    Words,       \* texts that are no option
    Bits,        \* bits of the number a word spells
    Argvs        \* command lines, without the program name

NumberBits == [port |-> 16, fake_ttl |-> 32, window_shrink |-> 64]
TextOptions   == {"bind", "dns_addr", "fallback_target", "fake_sni"}
NumberOptions == DOMAIN NumberBits
ValueOptions  == TextOptions \cup NumberOptions
Switches == {"verbose", "http_space", "mix_header_case", "strip_alt_svc",
             "port_rotate", "trailing_dot", "filter_type65"}
Names    == ValueOptions \cup Switches \cup {"help", "version", "other"} \cup Words

(* What split_once('=') makes of an argument; right is a text, NoText if   *)
(* there is no '='.                                                        *)
NoText   == ""
Argument == [left : Names, eq : BOOLEAN, right : Words \cup {NoText}]
Text(w)  == [left |-> w, eq |-> FALSE, right |-> NoText]

ASSUME ArgsAssumption ==
    /\ Words \cap (ValueOptions \cup Switches \cup {"help", "version"}) = {}
    /\ Bits \in [Words -> Nat]
    /\ Argvs \subseteq Seq(Argument)
    /\ \A argv \in Argvs : \A j \in DOMAIN argv : argv[j].eq = (argv[j].right # NoText)

VARIABLES
    argv,        \* args_vec without the program name
    i,           \* position of the loop
    cli,         \* the settings; a value is the argument it was given by
    process      \* where main stands

parseVars == <<argv, i, cli, process>>

Default == Text("default")     \* every value of Cli::default
Cli == [options : [ValueOptions -> Argument \cup {Default}],
        switches : SUBSET Switches]

ArgsInit ==
    /\ argv \in Argvs
    /\ i = 1
    /\ cli = [options |-> [f \in ValueOptions |-> Default],
              switches |-> Switches \ {"verbose"}]
    /\ process = "parsing"

Looping == process = "parsing" /\ i <= Len(argv)
arg     == argv[i]

(* val.parse(): a number of the option's width; any text for the others.   *)
Fits(option, value) ==
    option \in NumberOptions =>
        /\ ~value.eq /\ value.left \in Words
        /\ Bits[value.left] \in 1 .. NumberBits[option]

(* A value that does not parse leaves the setting as it was.               *)
Store(option, value) ==
    cli' = IF Fits(option, value)
           THEN [cli EXCEPT !.options[option] = value] ELSE cli

(* --option=value; the keys of the switches and unknown keys do nothing.   *)
KeyValue ==
    /\ Looping /\ arg.eq
    /\ IF arg.left \in ValueOptions THEN Store(arg.left, Text(arg.right))
                                    ELSE UNCHANGED cli
    /\ i' = i + 1
    /\ UNCHANGED <<argv, process>>

(* Mutant: the value is not skipped.                                       *)
ReadTwice ==
    /\ Looping /\ ~arg.eq /\ arg.left \in ValueOptions /\ i + 1 <= Len(argv)
    /\ Store(arg.left, argv[i + 1])
    /\ i' = i + 1
    /\ UNCHANGED <<argv, process>>

(* --option value: the next argument is the value, whatever it looks like. *)
OptionThenValue ==
    /\ Looping /\ ~arg.eq /\ arg.left \in ValueOptions /\ i + 1 <= Len(argv)
    /\ Store(arg.left, argv[i + 1])
    /\ i' = i + 2
    /\ UNCHANGED <<argv, process>>

(* A value option at the end, an unknown option or a stray word.           *)
Ignored ==
    /\ Looping /\ ~arg.eq
    /\ \/ arg.left \in ValueOptions /\ i = Len(argv)
       \/ arg.left \in Words \cup {"other"}
    /\ i' = i + 1
    /\ UNCHANGED <<argv, cli, process>>

Switch ==
    /\ Looping /\ ~arg.eq /\ arg.left \in Switches
    /\ cli' = [cli EXCEPT !.switches = @ \cup {arg.left}]
    /\ i' = i + 1
    /\ UNCHANGED <<argv, process>>

HelpOrVersion ==
    /\ Looping /\ ~arg.eq /\ arg.left \in {"help", "version"}
    /\ process' = "exit_ok"
    /\ UNCHANGED <<argv, i, cli>>

ParseStep ==
    KeyValue \/ OptionThenValue \/ Ignored \/ Switch \/ HelpOrVersion

Parsed == process = "parsing" /\ i > Len(argv)

-----------------------------------------------------------------------------
(* The reference: what a command line asks for, read as a whole.           *)

TakesNext(a) == ~a.eq /\ a.left \in ValueOptions

(* Argument j is read as the value of the one before it.                   *)
IsValue(line) ==
    LET v[j \in 0 .. Len(line)] ==
            j > 1 /\ TakesNext(line[j - 1]) /\ ~v[j - 1]
    IN  v

Heads(line) == {j \in 1 .. Len(line) : ~IsValue(line)[j]}

(* The values the line gives for an option, by the place they are given at.*)
Given(line, option) ==
    {j \in Heads(line) :
        /\ line[j].left = option
        /\ \/ line[j].eq /\ Fits(option, Text(line[j].right))
           \/ ~line[j].eq /\ j < Len(line) /\ Fits(option, line[j + 1])}

Asked(line, option) ==
    IF Given(line, option) = {} THEN Default
    ELSE LET j == Max(Given(line, option))
         IN  IF line[j].eq THEN Text(line[j].right) ELSE line[j + 1]

AsksForHelp(line) ==
    \E j \in Heads(line) : ~line[j].eq /\ line[j].left \in {"help", "version"}

(* parse_from: every option has the last well-formed value the line gives  *)
(* it or its default, nothing read as a value acts as an option, and the   *)
(* process ends before it starts exactly if help or version is asked for.  *)
ParseMatchesReference ==
    /\ Parsed => /\ \A f \in ValueOptions : cli.options[f] = Asked(argv, f)
                 /\ "verbose" \in cli.switches <=>
                        \E j \in Heads(argv) :
                            argv[j].left = "verbose" /\ ~argv[j].eq
                 /\ ~AsksForHelp(argv)
    /\ process = "exit_ok" /\ i <= Len(argv) => AsksForHelp(argv)
=============================================================================
