----------------------------- MODULE CliContract -----------------------------
(***************************************************************************)
(* What a run of cli.js promises the CI job that diffs its outputs (the  *)
(* header comment and the usage line): given the request parseArgs reads  *)
(* from the command line, the run writes headers of requested libraries   *)
(* only, one at a time, and ends with a status.  It ends "ok" only for    *)
(* -h/--help, with nothing written, or once every requested header is     *)
(* written; it may end "failed" at any point; nothing is written after it *)
(* ended.                                                                  *)
(***************************************************************************)
EXTENDS Sequences, SequencesExt

CONSTANTS
    Argvs,       \* command lines
    DepNames,    \* the libraries of Dependencies.json, for --all
    Request(_)   \* parseArgs: the command line read as a request record

VARIABLES
    argv,        \* the command line of this run
    outputs,     \* headers written by this run
    status       \* "running", then "ok" or "failed"

\* The request asked for help or failed to name a target (see Request).
AskedHelp == Request(argv).exit = 0
Runnable  == Request(argv).exit \notin {0, 1}

\* The libraries the request names.
Targets ==
    IF Request(argv).all THEN ToSet(DepNames) ELSE {Request(argv).library}

Init ==
    /\ argv \in Argvs
    /\ outputs = {}
    /\ status = "running"

Produce(l) ==
    /\ status = "running"
    /\ Runnable
    /\ l \in Targets
    /\ outputs' = outputs \cup {l}
    /\ UNCHANGED <<argv, status>>

Help ==
    /\ status = "running"
    /\ AskedHelp
    /\ outputs = {}
    /\ status' = "ok"
    /\ UNCHANGED <<argv, outputs>>

Succeed ==
    /\ status = "running"
    /\ Runnable
    /\ Targets \subseteq outputs
    /\ status' = "ok"
    /\ UNCHANGED <<argv, outputs>>

Fail ==
    /\ status = "running"
    /\ status' = "failed"
    /\ UNCHANGED <<argv, outputs>>

Next == (\E l \in Targets : Produce(l)) \/ Help \/ Succeed \/ Fail

Spec == Init /\ [][Next]_<<argv, outputs, status>>
=============================================================================
