----------------------------- MODULE MCMuxParser -----------------------------
(* Small instances of MuxParser for TLC. *)
EXTENDS MuxParser

\* An empty payload, one that holds a token, and one that ends like one begins.
SomeMessages == {[id |-> 0, type |-> 2, data |-> <<>>],
                 [id |-> 258, type |-> 22, data |-> MAGIC_TOKEN],
                 [id |-> 1, type |-> 1, data |-> <<167, 64>>]}

\* Parts of a token, a token that breaks off, and a command shorter than a header.
SomeJunk == {<<0, 167>>, <<167, 64, 160>>, <<167, 167, 64>>, <<64, 160, 245, 0>>,
             MAGIC_TOKEN \o <<0, 2>>, MAGIC_TOKEN \o <<0, 1, 9>>}
=============================================================================
