-------------------------- MODULE SerialMuxOptions --------------------------
(***************************************************************************)
(* parseConfiguration: the command line, then the configuration file, are  *)
(* stored in one variables_map and copied into the options; then values    *)
(* that need it are converted, the authentication token by hexToBin, one   *)
(* character at a time.                                                    *)
(*                                                                         *)
(* External: boost::program_options and the file system.                   *)
(***************************************************************************)
EXTENDS Integers, Sequences, FiniteSets

CONSTANTS
    AUTHENTICATION_LEN,
    Input,       \* what the program can find: [cmdline, files], see InputAssumption
    Missing,     \* a file that does not exist
    Malformed    \* a value that cannot be converted, or is given twice

\* Options with a default value, options that are only counted, and the others.
Valued == {"port", "listen", "rts-delay", "picard-timeout", "picard-retries", "read-timeout",
           "log-file", "log-num-backups", "log-max-size", "service-name"}
Flags   == {"accept-anyhost", "flow-control", "daemon"}
General == Valued \cup Flags \cup {"log-level"}
CmdlineOptions == General \cup {"version", "help", "config", "directory"}
ConfOptions    == General \cup {"authToken", "baud"}

\* The characters of a token: hexadecimal digits are their values.
Digit == 0 .. 15
Sep   == 16      \* '-' or ':'
Space == 17
Other == 18
End   == 19      \* the zero byte
Character == Digit \cup {Sep, Space, Other}

\* The value of an option in what was parsed, or another one.
Lookup(o, parsed, other) == IF o \in DOMAIN parsed THEN parsed[o] ELSE other

IsParsed(parsed) ==
    /\ Lookup("port", parsed, 0) \in Int \cup {Malformed}
    /\ Lookup("authToken", parsed, <<>>) = Malformed \/ Lookup("authToken", parsed, <<>>) \in Seq(Character)

\* A command line and a file are functions from option names to values; a file is
\* found by the directory and the path it is looked up with.
ASSUME InputAssumption ==
    /\ AUTHENTICATION_LEN \in Nat \ {0}
    /\ \A in \in Input :
         /\ IsParsed(in.cmdline)
         /\ <<"cwd", "serial_mux.cfg">> \in DOMAIN in.files
         /\ \A place \in DOMAIN in.files :
              /\ <<place[1], Lookup("config", in.cmdline, "serial_mux.cfg")>> \in DOMAIN in.files
              /\ in.files[place] = Missing \/ IsParsed(in.files[place])

\* A port is the number atoi makes of it: 0 for a name such as COM1.
Default(o) == IF o = "port" THEN 0 ELSE "default"

VARIABLES
    input,
    pc,
    vm,          \* vm: what is stored for an option, and whether it is its default
    opts,        \* the options, by the names of the command line where there is one
    cwd,         \* the current directory
    str,         \* hexToBin: what is left of the string
    idx, nn, wasDigit

Directories == {place[1] : place \in DOMAIN input.files}

hexVars == <<str, idx, nn, wasDigit>>
vars == <<input, pc, vm, opts, cwd, hexVars>>

\* DEFAULT_AUTHENTICATION
DefaultToken == [i \in 0 .. AUTHENTICATION_LEN - 1 |-> 48 + i]

Stored  == Valued \cup {"config", "baud"}
Initial ==
    [o \in Stored \cup Flags \cup {"log-level", "authToken", "emulatorPort", "useSerial"} |->
        CASE o \in Valued \cup {"baud"}    -> Default(o)
          [] o = "config"                  -> "serial_mux.cfg"
          [] o \in Flags                   -> FALSE
          [] o = "log-level"               -> "LOG_ERROR"
          [] o = "authToken"               -> DefaultToken
          [] o = "emulatorPort"            -> 60000
          [] o = "useSerial"               -> TRUE]

Init ==
    /\ input \in Input
    /\ pc = "cmdline" /\ vm = <<>> /\ opts = Initial /\ cwd = "cwd"
    /\ str = <<>> /\ idx = 0 /\ nn = 0 /\ wasDigit = FALSE

-----------------------------------------------------------------------------
(* boost::program_options *)

IsDefaulted(o) == o \in DOMAIN vm /\ vm[o].defaulted

\* store: what an earlier store has put there stays, unless it was a default.
Store(parsed) ==
    [o \in DOMAIN vm \cup DOMAIN parsed \cup Valued |->
        CASE o \in DOMAIN vm /\ ~IsDefaulted(o) -> vm[o]
          [] o \in DOMAIN parsed /\ (o \notin DOMAIN vm \/ IsDefaulted(o)) ->
                [value |-> parsed[o], defaulted |-> FALSE]
          [] OTHER -> [value |-> Default(o), defaulted |-> TRUE]]

\* notify: every stored value goes to the variable it belongs to.
Notify(m) == [o \in DOMAIN opts |-> IF o \in Stored \cap DOMAIN m THEN m[o].value ELSE opts[o]]

Refused(parsed, known) == \E o \in DOMAIN parsed : o \notin known \/ parsed[o] = Malformed

-----------------------------------------------------------------------------
(* parseConfiguration *)

\* Either kind of input ends in an exception or in the map and the options.
Take(parsed, known, next) ==
    \/ /\ Refused(parsed, known)
       /\ pc' = "error" /\ UNCHANGED <<vm, opts>>
    \/ /\ ~Refused(parsed, known)
       /\ vm' = Store(parsed) /\ opts' = Notify(Store(parsed))
       /\ pc' = next

ParseCommandLine ==
    /\ pc = "cmdline"
    /\ Take(input.cmdline, CmdlineOptions, "special")
    /\ UNCHANGED <<input, cwd, hexVars>>

\* help and version are printed, and the program ends.
Special ==
    /\ pc = "special"
    /\ pc' = IF DOMAIN vm \cap {"help", "version"} # {} THEN "exit" ELSE "directory"
    /\ UNCHANGED <<input, vm, opts, cwd, hexVars>>

\* Mutant: the directory is not changed before the file is read.
ChangeNoDirectory ==
    /\ pc = "directory"
    /\ pc' = "config"
    /\ UNCHANGED <<input, vm, opts, cwd, hexVars>>

\* current_path throws if there is no such directory.
ChangeDirectory ==
    /\ pc = "directory"
    /\ LET dir == IF "directory" \in DOMAIN vm THEN vm["directory"].value ELSE cwd IN
       IF dir \in Directories THEN cwd' = dir /\ pc' = "config"
                              ELSE pc' = "error" /\ UNCHANGED cwd
    /\ UNCHANGED <<input, vm, opts, hexVars>>

\* Only a configuration file that was asked for has to be there.
NoConfigFile ==
    /\ pc = "config" /\ input.files[<<cwd, opts["config"]>>] = Missing
    /\ pc' = IF "config" \in DOMAIN vm THEN "error" ELSE "values"
    /\ UNCHANGED <<input, vm, opts, cwd, hexVars>>

ReadConfigFile ==
    /\ pc = "config" /\ input.files[<<cwd, opts["config"]>>] # Missing
    /\ Take(input.files[<<cwd, opts["config"]>>], ConfOptions, "values")
    /\ UNCHANGED <<input, cwd, hexVars>>

ToUint16(i) == i % 65536
IsEmulator(port) == port > 0 /\ port < 65535

\* A port that is a number is that of an emulator.  hexToBin clears the token.
ParsePort ==
    /\ pc = "values"
    /\ LET port == ToUint16(opts["port"])
           hasToken == "authToken" \in DOMAIN vm
       IN /\ opts' = [opts EXCEPT
                        !["emulatorPort"] = port,
                        !["useSerial"] = IF IsEmulator(port) THEN FALSE ELSE @,
                        !["authToken"] = IF hasToken THEN [i \in DOMAIN @ |-> 0] ELSE @]
          /\ str' = IF hasToken THEN vm["authToken"].value ELSE <<>>
          /\ pc' = IF hasToken THEN "skip" ELSE "flags"
    /\ UNCHANGED <<input, vm, cwd, idx, nn, wasDigit>>

Char == IF str = <<>> THEN End ELSE Head(str)
IsDigit == Char \in Digit

\* while (isspace(*str)) str++
HexSkip ==
    /\ pc = "skip"
    /\ IF Char = Space THEN str' = Tail(str) /\ UNCHANGED pc
                       ELSE pc' = "hex" /\ UNCHANGED str
    /\ UNCHANGED <<input, vm, opts, cwd, idx, nn, wasDigit>>

\* Mutant: a third digit still belongs to the byte.
ByteEndsLate == ~IsDigit \/ nn = 3

\* A separator, the end, or a third digit ends a byte.
ByteEnds == ~IsDigit \/ nn = 2
Idx == IF ByteEnds THEN idx + 1 ELSE idx

\* Characters that may follow: a digit always, anything else only after a digit.
HexOk == IsDigit \/ (wasDigit /\ Char \in {End, Space, Sep})

HexDigit ==
    /\ pc = "hex" /\ IsDigit /\ Idx < AUTHENTICATION_LEN
    /\ opts' = [opts EXCEPT !["authToken"][Idx] = (@ * 16 + Char) % 256]
    /\ idx' = Idx /\ nn' = IF ByteEnds THEN 1 ELSE nn + 1
    /\ wasDigit' = TRUE /\ str' = Tail(str)
    /\ UNCHANGED <<input, pc, vm, cwd>>

HexSeparator ==
    /\ pc = "hex" /\ HexOk /\ Char = Sep
    /\ idx' = Idx /\ nn' = 0 /\ wasDigit' = FALSE /\ str' = Tail(str)
    /\ UNCHANGED <<input, pc, vm, opts, cwd>>

\* The end, or white space: whatever follows is not looked at.  The length cannot be 0.
HexEnd ==
    /\ pc = "hex" /\ HexOk /\ Char \in {End, Space}
    /\ idx' = Idx /\ nn' = 0 /\ pc' = "flags"
    /\ UNCHANGED <<input, vm, opts, cwd, str, wasDigit>>

\* hexToBin returns 0, the caller throws.
HexFails ==
    /\ pc = "hex" /\ (~HexOk \/ (IsDigit /\ Idx >= AUTHENTICATION_LEN))
    /\ pc' = "error"
    /\ UNCHANGED <<input, vm, opts, cwd, hexVars>>

stringToEnum(name) ==
    CASE name = "trace"   -> "LOG_TRACE"
      [] name = "info"    -> "LOG_INFO"
      [] name = "warning" -> "LOG_WARNING"
      [] OTHER            -> "LOG_ERROR"

ParseFlags ==
    /\ pc = "flags"
    /\ opts' = [o \in DOMAIN opts |->
                  CASE o \in Flags -> opts[o] \/ o \in DOMAIN vm
                    [] o = "log-level" /\ o \in DOMAIN vm -> stringToEnum(vm[o].value)
                    [] OTHER -> opts[o]]
    /\ pc' = "done"
    /\ UNCHANGED <<input, vm, cwd, hexVars>>

\* main returns 0 or 1, or goes on with the options.
Returned == pc \in {"exit", "error", "done"} /\ UNCHANGED vars

Next ==
    \/ ParseCommandLine \/ Special \/ ChangeDirectory \/ NoConfigFile \/ ReadConfigFile
    \/ ParsePort \/ HexSkip \/ HexDigit \/ HexSeparator \/ HexEnd \/ HexFails \/ ParseFlags \/ Returned

Spec == Init /\ [][Next]_vars

-----------------------------------------------------------------------------
(* What the options should be, without the way they are found *)

\* The word of a token: leading space and what follows the word do not count.
Word(s) ==
    LET first == CHOOSE i \in 1 .. Len(s) + 1 :
                    (i = Len(s) + 1 \/ s[i] # Space) /\ \A j \in 1 .. i - 1 : s[j] = Space
        after == CHOOSE i \in first .. Len(s) + 1 :
                    (i = Len(s) + 1 \/ s[i] = Space) /\ \A j \in first .. i - 1 : s[j] # Space
    IN SubSeq(s, first, after - 1)

\* Groups of digits with one separator between them; a byte starts at every other
\* digit of a group.
Group(w, i) == CHOOSE j \in 1 .. i :
                  (j = 1 \/ w[j - 1] = Sep) /\ \A k \in j .. i : w[k] # Sep
Starts(w)   == {i \in DOMAIN w : w[i] # Sep /\ (i - Group(w, i)) % 2 = 0}
ByteAt(w, i) == IF i + 1 \in DOMAIN w /\ w[i + 1] \in Digit THEN 16 * w[i] + w[i + 1] ELSE w[i]

IsToken(w) ==
    /\ w # <<>> /\ \A i \in DOMAIN w : w[i] \in Digit \cup {Sep}
    /\ \A i \in DOMAIN w : w[i] = Sep => i > 1 /\ i < Len(w) /\ w[i + 1] # Sep
    /\ Cardinality(Starts(w)) <= AUTHENTICATION_LEN

TokenOf(w) ==
    [k \in 0 .. AUTHENTICATION_LEN - 1 |->
        IF k < Cardinality(Starts(w))
        THEN ByteAt(w, CHOOSE i \in Starts(w) : Cardinality({j \in Starts(w) : j < i}) = k)
        ELSE 0]

\* The file, and the value of an option: the command line comes first.
TheDirectory == Lookup("directory", input.cmdline, "cwd")
TheFile == input.files[<<TheDirectory, Lookup("config", input.cmdline, "serial_mux.cfg")>>]
FileOptions == IF TheFile = Missing THEN <<>> ELSE TheFile
Given(o) == o \in DOMAIN input.cmdline \cup DOMAIN FileOptions
ValueOf(o, default) == Lookup(o, input.cmdline, Lookup(o, FileOptions, default))

\* Numbers that are not those of an emulator.
SerialPorts == {0, 65535}

BadFile ==
    \/ TheDirectory \notin Directories
    \/ TheFile = Missing /\ "config" \in DOMAIN input.cmdline
    \/ Refused(FileOptions, ConfOptions)
    \/ Given("authToken") /\ ~IsToken(Word(ValueOf("authToken", <<>>)))

Outcome ==
    IF Refused(input.cmdline, CmdlineOptions) THEN "error"
    ELSE IF DOMAIN input.cmdline \cap {"help", "version"} # {} THEN "exit"
    ELSE IF BadFile THEN "error" ELSE "done"

\* An option has the value of the command line, else that of the file found in the
\* directory and under the path of the command line, else its default, which the
\* second store must not take for a value; and the program ends early, with or without an
\* error, exactly for the inputs that say so.
OptionsAgree ==
    pc \in {"exit", "error", "done"} =>
        /\ pc = Outcome
        /\ pc = "done" =>
             /\ \A o \in Valued \cup {"baud"} : opts[o] = ValueOf(o, Default(o))
             /\ \A o \in Flags : opts[o] = Given(o)
             /\ opts["log-level"] = stringToEnum(ValueOf("log-level", "error"))
             /\ opts["useSerial"] = (ToUint16(ValueOf("port", 0)) \in SerialPorts)

\* hexToBin: the token is the bytes its word spells, two digits each unless a separator
\* or the end cuts one short, with zeros after them; a file without a token leaves the
\* default whole.
TokenSpelled ==
    pc = "done" =>
        opts["authToken"] = IF Given("authToken")
                            THEN TokenOf(Word(ValueOf("authToken", <<>>)))
                            ELSE DefaultToken

-----------------------------------------------------------------------------
(* Statements of the repository that the code does not keep *)

\* "Returns: 0 if an error is encountered, i.e. if the string contains invalid
\* chars" (SerialMuxOptions.cpp:22).
InvalidCharsRefused ==
    pc = "done" /\ Given("authToken") =>
        \A i \in DOMAIN ValueOf("authToken", <<>>) : ValueOf("authToken", <<>>)[i] # Other

=============================================================================
