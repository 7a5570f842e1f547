------------------------- MODULE MCSerialMuxOptions -------------------------
(* All short tokens with an empty command line, and combinations of sources. *)
EXTENDS SerialMuxOptions, TLC

TokenChars == {0, 1, 15, Sep, Space, Other}
Tokens(n)  == UNION {[1 .. k -> TokenChars] : k \in 0 .. n}

\* An option that may be given with one of some values.
May(o, values) == {<<>>} \cup {o :> v : v \in values}

DefaultFile == <<"cwd", "serial_mux.cfg">>
OneFile(f)  == [w \in {DefaultFile} |-> f]

TokenInputs ==
    [cmdline : {<<>>}, files : {OneFile("authToken" :> t) : t \in Tokens(6)}]

\* Where a file is looked for, and what is in it.
Places == {"cwd", "dir"} \X {"serial_mux.cfg", "given"}
PlaceInputs ==
    [cmdline : {d @@ c @@ h @@ b : d \in May("directory", {"dir", "gone"}), c \in May("config", {"given"}),
                                   h \in May("help", {"on"}), b \in May("baud", {"x"})},
     files : [Places -> {Missing, "listen" :> "file", "config" :> "given"}]]

\* The same option from both sources; ports at the edges of 16 bits.
Options(ports) ==
    {p @@ l @@ d @@ n : p \in May("port", ports), l \in May("listen", {"one", Malformed}),
                        d \in May("daemon", {"on"}), n \in May("log-level", {"trace", "none"})}
SourceInputs ==
    [cmdline : Options({-1, 0, 65534}),
     files : {OneFile(f) : f \in {Missing} \cup Options({65535, 65536, 65537})}]

MCInput == TokenInputs \cup PlaceInputs \cup SourceInputs
=============================================================================
