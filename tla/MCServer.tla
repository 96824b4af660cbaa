------------------------------ MODULE MCServer ------------------------------
(* Values for the constants of Server.                                     *)
EXTENDS Server

MCWords == {"8081", "70000", "0.0.0.0", "::1"}
MCBits  == [w \in MCWords |-> CASE w = "8081" -> 13 [] w = "70000" -> 17 [] OTHER -> 0]

KeyVal(option, word) == [left |-> option, eq |-> TRUE, right |-> word]

(* Well-formed and ill-formed numbers for two widths, an address and a text*)
(* that is none, in both syntaxes; a switch, a stop, an unknown option.    *)
MCArguments ==
    {Text(t) : t \in {"port", "bind", "fake_ttl", "8081", "70000", "0.0.0.0",
                      "verbose", "help"}}
    \cup {KeyVal("port", "8081"), KeyVal("port", "70000"), KeyVal("bind", "::1"),
          KeyVal("fake_ttl", "70000"), KeyVal("verbose", "8081")}

MCArgvs == UNION {[1 .. n -> MCArguments] : n \in 0 .. 3}
=============================================================================
