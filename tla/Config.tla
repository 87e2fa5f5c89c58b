------------------------------- MODULE Config -------------------------------
(***************************************************************************)
(* The configuration (infrastructure/config/config.go), as far as          *)
(* Bootstrap reads it: the heartbeat, the list of transports, the metering *)
(* switch and the auth provider are loaded and never used.                 *)
(***************************************************************************)
Default == [schemaValidation |-> TRUE, discovery |-> TRUE,
            skills |-> FALSE, rules |-> FALSE, specs |-> FALSE]

\* The file a path leads to: [state, keys], keys holding the values a readable
\* overlay sets.  The empty path and a missing file are alike.
NoFile == [state |-> "missing", keys |-> <<>>]

\* With an error main ends before it serves anything.
Load(file) ==
    [err    |-> file.state \in {"unreadable", "malformed"},
     config |-> [k \in DOMAIN Default |->
                   IF k \in DOMAIN file.keys THEN file.keys[k] ELSE Default[k]]]
=============================================================================
